------------------------ MODULE MessageQueue_proofs ------------------------
(***************************************************************************)
(* Proofs about MessageQueue, for any number of workers, any traffic and   *)
(* any number of spurious wakeups.  The inductive invariant IInv adds to   *)
(* the properties of MessageQueue what they silently rely on: who waits,   *)
(* what the drain loop knows when it breaks, and how the lists relate to   *)
(* the histories.                                                          *)
(***************************************************************************)
EXTENDS MessageQueue, SequenceTheorems, TLAPS

\* Messages being pushed have the type of the list they are pushed to.
ArgInv ==
  /\ pc[Socket] \in {"s_lock", "s_push"} => arg[Socket] \in ToWorker
  /\ \A w \in Workers :
       pc[w] \in {"c_lock", "c_push", "c_eventfd", "c_unlock"} => arg[w] \in ToSocket

\* The wait set of mq2s_cond_ and the program counters agree.
WaitInv == waiting = {w \in Workers : pc[w] = "s_waiting"}

\* When the drain loop breaks the list is empty and the mutex still held.
DrainInv == pc[Socket] = "c_nullunlock" => mq2c = <<>>

\* all is out followed by queue.
Joined(all, out, queue) ==
  /\ Len(all) = Len(out) + Len(queue)
  /\ \A i \in 1..Len(out) : all[i] = out[i]
  /\ \A i \in 1..Len(queue) : all[Len(out) + i] = queue[i]

\* What was pushed is what was popped followed by what is still in the list.
FifoInv == Joined(pushed2s, popped2s, mq2s) /\ Joined(pushed2c, popped2c, mq2c)

\* Timer ids are handed out in order, so the next one is new.
TimerInv ==
  \A i \in 1..Len(pushed2c) : pushed2c[i].type = "TIMER" => pushed2c[i].val <= timerid_max

\* Every id that was given went into mq2c_.  A worker whose timer has one returns one that
\* is at least as new, and so it did when it was last here.
Calling == {"c_lock", "c_push", "c_eventfd", "c_unlock", "c_return"}
Given == {"c_eventfd", "c_unlock", "c_return"}
ReturnInv ==
  /\ \A n \in 1..timerid_max :
       \E i \in 1..Len(pushed2c) : pushed2c[i] = [type |-> "TIMER", val |-> n]
  /\ \A w \in Workers :
       /\ pc[w] = "c_return" => arg[w].type = "TIMER"
       /\ pc[w] \in Given /\ arg[w].type = "TIMER" =>
            arg[w].val \in 1..timerid_max /\ (Workers = {w} => arg[w].val = timerid_max)
       /\ pc[w] \notin Calling /\ arg[w].type = "TIMER" =>
            /\ arg[w].val \in Nat /\ ret[w] \in 1..timerid_max /\ ret[w] >= arg[w].val
            /\ Workers = {w} => ret[w] = arg[w].val

\* The inductive invariant.
IInv ==
  /\ TypeOK /\ ArgInv
  /\ MutualExclusion
  /\ WaitInv /\ PopNeverEmpty /\ NoSleepWhileWork
  /\ DrainInv /\ NoMissedEventfd
  /\ FifoInv
  /\ TimerInv /\ TimerIdsDistinct /\ ReturnInv
-----------------------------------------------------------------------------
\* Pushing at the back keeps Joined.
LEMMA JoinedPush ==
  ASSUME NEW S, NEW all \in Seq(S), NEW out \in Seq(S), NEW queue \in Seq(S),
         NEW m \in S, Joined(all, out, queue)
  PROVE  Joined(Append(all, m), out, Append(queue, m))
<1> DEFINE A == Append(all, m)
           Q == Append(queue, m)
<1>1. /\ Len(A) = Len(all) + 1 /\ Len(Q) = Len(queue) + 1
      /\ \A i \in 1..Len(all) : A[i] = all[i]
      /\ \A i \in 1..Len(queue) : Q[i] = queue[i]
      /\ A[Len(all) + 1] = m /\ Q[Len(queue) + 1] = m
  BY AppendProperties
<1>2. Len(all) \in Nat /\ Len(out) \in Nat /\ Len(queue) \in Nat
  OBVIOUS
<1> HIDE DEF A, Q
<1>3. ASSUME NEW i \in 1..(Len(queue) + 1) PROVE A[Len(out) + i] = Q[i]
  <2>1. CASE i = Len(queue) + 1
    BY <1>1, <1>2, <2>1 DEF Joined
  <2>2. CASE i \in 1..Len(queue)
    BY <1>1, <1>2, <2>2 DEF Joined
  <2>3. QED
    BY <1>2, <2>1, <2>2
<1>4. \A i \in 1..Len(out) : A[i] = out[i]
  BY <1>1, <1>2 DEF Joined
<1>5. Joined(A, out, Q)
  BY <1>1, <1>2, <1>3, <1>4 DEF Joined
<1>6. QED
  BY <1>5 DEF A, Q

\* Popping at the front keeps Joined, and pops the oldest message not popped yet.
LEMMA JoinedPop ==
  ASSUME NEW S, NEW all \in Seq(S), NEW out \in Seq(S), NEW queue \in Seq(S),
         queue # <<>>, Joined(all, out, queue)
  PROVE  /\ Joined(all, Append(out, Head(queue)), Tail(queue))
         /\ Len(out) < Len(all)
         /\ Head(queue) = all[Len(out) + 1]
<1>1. Len(queue) > 0 /\ Head(queue) = queue[1]
  OBVIOUS
<1>2. Len(out) < Len(all) /\ Head(queue) = all[Len(out) + 1]
  BY <1>1 DEF Joined
<1>3. Joined(all, Append(out, Head(queue)), Tail(queue))
  BY <1>1, <1>2, HeadTailProperties, AppendProperties DEF Joined
<1>4. QED
  BY <1>2, <1>3

\* Every message a handler may push is a message of mq2c_.
LEMMA ToSocketTypes ==
  /\ \A u \in Uniqids : "PACK" \in HandlerTypes => [type |-> "PACK", val |-> u] \in ToSocket
  /\ "BROADCAST" \in HandlerTypes => [type |-> "BROADCAST", val |-> 0] \in ToSocket
  /\ "CONNECT" \in HandlerTypes => [type |-> "CONNECT", val |-> 0] \in ToSocket
  /\ \A n \in Nat : "TIMER" \in HandlerTypes => [type |-> "TIMER", val |-> n] \in ToSocket
  /\ \A m \in ToSocket : m.type \in HandlerTypes
  /\ \A m \in ToSocket : m.type = "TIMER" => m.val \in Nat
  BY DEF ToSocket

\* Initially every variable has its type.
LEMMA TypeInit == Init => TypeOK /\ ArgInv
  BY ThreadAssumption, BoundAssumption, SMTT(60)
  DEF Init, TypeOK, ArgInv, Threads, SocketPC, WorkerPC

\* Steps keep the types.
LEMMA TypeStep ==
  TypeOK /\ ArgInv /\ [Next]_vars => TypeOK' /\ ArgInv'
<1> SUFFICES ASSUME TypeOK, ArgInv, [Next]_vars PROVE TypeOK' /\ ArgInv'
  OBVIOUS
<1> USE ThreadAssumption
<1> USE DEF Goto, half2s, half2c, Threads
<1>1. CASE MQ2S_PushLock
  BY <1>1 DEF MQ2S_PushLock, TypeOK, ArgInv, SocketPC, WorkerPC
<1>2. CASE MQ2S_PushBack
  BY <1>2 DEF MQ2S_PushBack, TypeOK, ArgInv, SocketPC, WorkerPC
<1>3. CASE MQ2S_Broadcast
  BY <1>3 DEF MQ2S_Broadcast, TypeOK, ArgInv, SocketPC, WorkerPC
<1>4. CASE MQ2S_PushUnlock
  BY <1>4 DEF MQ2S_PushUnlock, TypeOK, ArgInv, SocketPC, WorkerPC
<1>5. CASE EventfdRead
  BY <1>5 DEF EventfdRead, TypeOK, ArgInv, SocketPC, WorkerPC
<1>6. CASE MQ2C_PopLock
  BY <1>6 DEF MQ2C_PopLock, TypeOK, ArgInv, SocketPC, WorkerPC
<1>7. CASE MQ2C_PopFront
  BY <1>7 DEF MQ2C_PopFront, TypeOK, ArgInv, SocketPC, WorkerPC
<1>8. CASE MQ2C_PopNull
  BY <1>8 DEF MQ2C_PopNull, TypeOK, ArgInv, SocketPC, WorkerPC
<1>9. CASE MQ2C_PopUnlock
  BY <1>9 DEF MQ2C_PopUnlock, TypeOK, ArgInv, SocketPC, WorkerPC
<1>10. CASE MQ2C_NullUnlock
  BY <1>10 DEF MQ2C_NullUnlock, TypeOK, ArgInv, SocketPC, WorkerPC
<1>11. CASE SocketCallback
  <2>1. PICK m \in ToWorker : arg' = [arg EXCEPT ![Socket] = m]
    BY <1>11 DEF SocketCallback, MQ2S_Push
  <2>2. Goto(Socket, "ev_run", "s_lock") /\ UNCHANGED <<half2s, half2c>>
    BY <1>11 DEF SocketCallback, MQ2S_Push
  <2>3. QED
    BY <2>1, <2>2 DEF TypeOK, ArgInv, SocketPC, WorkerPC
<1>12. ASSUME NEW w \in Workers, MQ2S_PopLock(w) PROVE TypeOK' /\ ArgInv'
  BY <1>12 DEF MQ2S_PopLock, TypeOK, ArgInv, SocketPC, WorkerPC
<1>13. ASSUME NEW w \in Workers, MQ2S_Wait(w) PROVE TypeOK' /\ ArgInv'
  BY <1>13 DEF MQ2S_Wait, TypeOK, ArgInv, SocketPC, WorkerPC
<1>14. ASSUME NEW w \in Workers, MQ2S_WaitReturn(w) PROVE TypeOK' /\ ArgInv'
  BY <1>14 DEF MQ2S_WaitReturn, TypeOK, ArgInv, SocketPC, WorkerPC
<1>15. ASSUME NEW w \in Workers, MQ2S_WhileExit(w) PROVE TypeOK' /\ ArgInv'
  BY <1>15 DEF MQ2S_WhileExit, TypeOK, ArgInv, SocketPC, WorkerPC
<1>16. ASSUME NEW w \in Workers, SpuriousWakeup(w) PROVE TypeOK' /\ ArgInv'
  BY <1>16 DEF SpuriousWakeup, TypeOK, ArgInv, SocketPC, WorkerPC
<1>17. ASSUME NEW w \in Workers, MQ2S_PopFront(w) PROVE TypeOK' /\ ArgInv'
  BY <1>17 DEF MQ2S_PopFront, TypeOK, ArgInv, SocketPC, WorkerPC
<1>18. ASSUME NEW w \in Workers, MQ2S_PopUnlock(w) PROVE TypeOK' /\ ArgInv'
  BY <1>18 DEF MQ2S_PopUnlock, TypeOK, ArgInv, SocketPC, WorkerPC
<1>19. ASSUME NEW w \in Workers, WorkDone(w) PROVE TypeOK' /\ ArgInv'
  BY <1>19 DEF WorkDone, TypeOK, ArgInv, SocketPC, WorkerPC
<1>20. ASSUME NEW w \in Workers, MQ2C_PushLock(w) PROVE TypeOK' /\ ArgInv'
  BY <1>20 DEF MQ2C_PushLock, TypeOK, ArgInv, SocketPC, WorkerPC
<1>21. ASSUME NEW w \in Workers, MQ2C_PushBack(w) PROVE TypeOK' /\ ArgInv'
  <2>1. arg'[w] \in ToSocket /\ timerid_max' \in Nat
    BY <1>21, ToSocketTypes DEF MQ2C_PushBack, TypeOK, ArgInv
  <2>2. arg' \in [Threads -> ToWorker \cup ToSocket \cup {None}]
    BY <1>21, <2>1 DEF MQ2C_PushBack, TypeOK
  <2>3. mq2c' \in Seq(ToSocket) /\ pushed2c' \in Seq(ToSocket)
    BY <1>21, <2>1 DEF MQ2C_PushBack, TypeOK
  <2>4. \A t \in Threads : t # w => arg'[t] = arg[t]
    BY <1>21 DEF MQ2C_PushBack, TypeOK
  <2>5. pc' \in [Threads -> SocketPC \cup WorkerPC] /\ pc'[w] = "c_eventfd"
        /\ \A t \in Threads : t # w => pc'[t] = pc[t]
    BY <1>21 DEF MQ2C_PushBack, TypeOK, SocketPC, WorkerPC
  <2>6. QED
    BY <1>21, <2>1, <2>2, <2>3, <2>4, <2>5
    DEF MQ2C_PushBack, TypeOK, ArgInv, SocketPC, WorkerPC
<1>22. ASSUME NEW w \in Workers, MQ2C_EventfdWrite(w) PROVE TypeOK' /\ ArgInv'
  BY <1>22 DEF MQ2C_EventfdWrite, TypeOK, ArgInv, SocketPC, WorkerPC
<1>23. ASSUME NEW w \in Workers, MQ2C_PushUnlock(w) PROVE TypeOK' /\ ArgInv'
  BY <1>23 DEF MQ2C_PushUnlock, TypeOK, ArgInv, SocketPC, WorkerPC
<1>24. ASSUME NEW w \in Workers, MQ2C_TimerReturn(w) PROVE TypeOK' /\ ArgInv'
  BY <1>24 DEF MQ2C_TimerReturn, TypeOK, ArgInv, SocketPC, WorkerPC
<1>25. ASSUME NEW w \in Workers, WorkerCall(w) PROVE TypeOK' /\ ArgInv'
  <2>1. PICK m \in ToSocket : arg' = [arg EXCEPT ![w] = m]
    <3> PICK type \in HandlerTypes : MQ2C_Push(w, type)
      BY <1>25 DEF WorkerCall
    <3>1. PICK v \in IF type = "PACK" THEN Uniqids ELSE {0} :
             arg' = [arg EXCEPT ![w] = [type |-> type, val |-> v]]
      BY DEF MQ2C_Push
    <3>2. type \in {"PACK", "BROADCAST", "CONNECT", "TIMER"}
      BY TypeAssumption
    <3>3. [type |-> type, val |-> v] \in ToSocket
      BY <3>2, ToSocketTypes
    <3>4. QED
      BY <3>1, <3>3
  <2>2. Goto(w, "work", "c_lock") /\ UNCHANGED <<half2s, half2c>>
    BY <1>25 DEF WorkerCall, MQ2C_Push
  <2>3. QED
    BY <2>1, <2>2 DEF TypeOK, ArgInv, SocketPC, WorkerPC
<1>26. CASE UNCHANGED vars
  BY <1>26 DEF vars, TypeOK, ArgInv, SocketPC, WorkerPC
<1>27. QED
  BY <1>1, <1>2, <1>3, <1>4, <1>5, <1>6, <1>7, <1>8, <1>9, <1>10,
     <1>11, <1>12, <1>13, <1>14, <1>15, <1>16, <1>17, <1>18, <1>19, <1>20,
     <1>21, <1>22, <1>23, <1>24, <1>25, <1>26
     DEF Next, SocketStep, WorkerStep

\* Steps keep the two mutexes exclusive.
LEMMA MutexStep ==
  TypeOK /\ WaitInv /\ MutualExclusion /\ [Next]_vars => MutualExclusion'
<1> SUFFICES ASSUME TypeOK, WaitInv, MutualExclusion, [Next]_vars PROVE MutualExclusion'
  OBVIOUS
<1> USE ThreadAssumption
<1> USE DEF Goto, half2s, half2c, Threads
<1>1. CASE MQ2S_PushLock
  BY <1>1 DEF MQ2S_PushLock, TypeOK, MutualExclusion, Holds2S, Holds2C,
     SocketPC, WorkerPC
<1>2. CASE MQ2S_PushBack
  BY <1>2 DEF MQ2S_PushBack, TypeOK, MutualExclusion, Holds2S, Holds2C,
     SocketPC, WorkerPC
<1>3. CASE MQ2S_Broadcast
  BY <1>3 DEF MQ2S_Broadcast, TypeOK, WaitInv, MutualExclusion, Holds2S, Holds2C
<1>4. CASE MQ2S_PushUnlock
  BY <1>4 DEF MQ2S_PushUnlock, TypeOK, MutualExclusion, Holds2S, Holds2C,
     SocketPC, WorkerPC
<1>5. CASE EventfdRead
  BY <1>5 DEF EventfdRead, TypeOK, MutualExclusion, Holds2S, Holds2C,
     SocketPC, WorkerPC
<1>6. CASE MQ2C_PopLock
  BY <1>6 DEF MQ2C_PopLock, TypeOK, MutualExclusion, Holds2S, Holds2C,
     SocketPC, WorkerPC
<1>7. CASE MQ2C_PopFront
  BY <1>7 DEF MQ2C_PopFront, TypeOK, MutualExclusion, Holds2S, Holds2C,
     SocketPC, WorkerPC
<1>8. CASE MQ2C_PopNull
  BY <1>8 DEF MQ2C_PopNull, TypeOK, MutualExclusion, Holds2S, Holds2C,
     SocketPC, WorkerPC
<1>9. CASE MQ2C_PopUnlock
  BY <1>9 DEF MQ2C_PopUnlock, TypeOK, MutualExclusion, Holds2S, Holds2C,
     SocketPC, WorkerPC
<1>10. CASE MQ2C_NullUnlock
  BY <1>10 DEF MQ2C_NullUnlock, TypeOK, MutualExclusion, Holds2S, Holds2C,
     SocketPC, WorkerPC
<1>11. CASE SocketCallback
  BY <1>11 DEF SocketCallback, MQ2S_Push, TypeOK, MutualExclusion, Holds2S, Holds2C,
     SocketPC, WorkerPC
<1>12. ASSUME NEW w \in Workers, MQ2S_PopLock(w) PROVE MutualExclusion'
  BY <1>12 DEF MQ2S_PopLock, TypeOK, MutualExclusion, Holds2S, Holds2C,
     SocketPC, WorkerPC
<1>13. ASSUME NEW w \in Workers, MQ2S_Wait(w) PROVE MutualExclusion'
  BY <1>13 DEF MQ2S_Wait, TypeOK, MutualExclusion, Holds2S, Holds2C,
     SocketPC, WorkerPC
<1>14. ASSUME NEW w \in Workers, MQ2S_WaitReturn(w) PROVE MutualExclusion'
  BY <1>14 DEF MQ2S_WaitReturn, TypeOK, MutualExclusion, Holds2S, Holds2C,
     SocketPC, WorkerPC
<1>15. ASSUME NEW w \in Workers, MQ2S_WhileExit(w) PROVE MutualExclusion'
  BY <1>15 DEF MQ2S_WhileExit, TypeOK, MutualExclusion, Holds2S, Holds2C,
     SocketPC, WorkerPC
<1>16. ASSUME NEW w \in Workers, SpuriousWakeup(w) PROVE MutualExclusion'
  BY <1>16 DEF SpuriousWakeup, TypeOK, MutualExclusion, Holds2S, Holds2C,
     SocketPC, WorkerPC
<1>17. ASSUME NEW w \in Workers, MQ2S_PopFront(w) PROVE MutualExclusion'
  BY <1>17 DEF MQ2S_PopFront, TypeOK, MutualExclusion, Holds2S, Holds2C,
     SocketPC, WorkerPC
<1>18. ASSUME NEW w \in Workers, MQ2S_PopUnlock(w) PROVE MutualExclusion'
  BY <1>18 DEF MQ2S_PopUnlock, TypeOK, MutualExclusion, Holds2S, Holds2C,
     SocketPC, WorkerPC
<1>19. ASSUME NEW w \in Workers, WorkDone(w) PROVE MutualExclusion'
  BY <1>19 DEF WorkDone, TypeOK, MutualExclusion, Holds2S, Holds2C,
     SocketPC, WorkerPC
<1>20. ASSUME NEW w \in Workers, MQ2C_PushLock(w) PROVE MutualExclusion'
  BY <1>20 DEF MQ2C_PushLock, TypeOK, MutualExclusion, Holds2S, Holds2C,
     SocketPC, WorkerPC
<1>21. ASSUME NEW w \in Workers, MQ2C_PushBack(w) PROVE MutualExclusion'
  BY <1>21 DEF MQ2C_PushBack, TypeOK, MutualExclusion, Holds2S, Holds2C,
     SocketPC, WorkerPC
<1>22. ASSUME NEW w \in Workers, MQ2C_EventfdWrite(w) PROVE MutualExclusion'
  BY <1>22 DEF MQ2C_EventfdWrite, TypeOK, MutualExclusion, Holds2S, Holds2C,
     SocketPC, WorkerPC
<1>23. ASSUME NEW w \in Workers, MQ2C_PushUnlock(w) PROVE MutualExclusion'
  <2>1. pc'[w] \in {"c_return", "work"} /\ \A t \in Threads : t # w => pc'[t] = pc[t]
    BY <1>23 DEF MQ2C_PushUnlock, TypeOK
  <2>2. QED
    BY <1>23, <2>1 DEF MQ2C_PushUnlock, TypeOK, MutualExclusion, Holds2S, Holds2C
<1>24. ASSUME NEW w \in Workers, MQ2C_TimerReturn(w) PROVE MutualExclusion'
  BY <1>24 DEF MQ2C_TimerReturn, TypeOK, MutualExclusion, Holds2S, Holds2C,
     SocketPC, WorkerPC
<1>25. ASSUME NEW w \in Workers, WorkerCall(w) PROVE MutualExclusion'
  BY <1>25 DEF WorkerCall, MQ2C_Push, TypeOK, MutualExclusion, Holds2S, Holds2C,
     SocketPC, WorkerPC
<1>26. CASE UNCHANGED vars
  BY <1>26 DEF vars, TypeOK, MutualExclusion, Holds2S, Holds2C,
     SocketPC, WorkerPC
<1>27. QED
  BY <1>1, <1>2, <1>3, <1>4, <1>5, <1>6, <1>7, <1>8, <1>9, <1>10,
     <1>11, <1>12, <1>13, <1>14, <1>15, <1>16, <1>17, <1>18, <1>19, <1>20,
     <1>21, <1>22, <1>23, <1>24, <1>25, <1>26
     DEF Next, SocketStep, WorkerStep

\* Steps keep the wait set in line with the program counters.
LEMMA WaitStep ==
  TypeOK /\ WaitInv /\ [Next]_vars => WaitInv'
<1> SUFFICES ASSUME TypeOK, WaitInv, [Next]_vars PROVE WaitInv'
  OBVIOUS
<1> USE ThreadAssumption
<1> USE DEF Goto, half2s, half2c, Threads
<1>1. CASE MQ2S_PushLock
  BY <1>1 DEF MQ2S_PushLock, TypeOK, WaitInv, SocketPC, WorkerPC
<1>2. CASE MQ2S_PushBack
  BY <1>2 DEF MQ2S_PushBack, TypeOK, WaitInv, SocketPC, WorkerPC
<1>3. CASE MQ2S_Broadcast
  BY <1>3 DEF MQ2S_Broadcast, TypeOK, WaitInv, SocketPC, WorkerPC
<1>4. CASE MQ2S_PushUnlock
  BY <1>4 DEF MQ2S_PushUnlock, TypeOK, WaitInv, SocketPC, WorkerPC
<1>5. CASE EventfdRead
  BY <1>5 DEF EventfdRead, TypeOK, WaitInv, SocketPC, WorkerPC
<1>6. CASE MQ2C_PopLock
  BY <1>6 DEF MQ2C_PopLock, TypeOK, WaitInv, SocketPC, WorkerPC
<1>7. CASE MQ2C_PopFront
  BY <1>7 DEF MQ2C_PopFront, TypeOK, WaitInv, SocketPC, WorkerPC
<1>8. CASE MQ2C_PopNull
  BY <1>8 DEF MQ2C_PopNull, TypeOK, WaitInv, SocketPC, WorkerPC
<1>9. CASE MQ2C_PopUnlock
  BY <1>9 DEF MQ2C_PopUnlock, TypeOK, WaitInv, SocketPC, WorkerPC
<1>10. CASE MQ2C_NullUnlock
  BY <1>10 DEF MQ2C_NullUnlock, TypeOK, WaitInv, SocketPC, WorkerPC
<1>11. CASE SocketCallback
  BY <1>11 DEF SocketCallback, MQ2S_Push, TypeOK, WaitInv, SocketPC, WorkerPC
<1>12. ASSUME NEW w \in Workers, MQ2S_PopLock(w) PROVE WaitInv'
  BY <1>12 DEF MQ2S_PopLock, TypeOK, WaitInv, SocketPC, WorkerPC
<1>13. ASSUME NEW w \in Workers, MQ2S_Wait(w) PROVE WaitInv'
  BY <1>13 DEF MQ2S_Wait, TypeOK, WaitInv, SocketPC, WorkerPC
<1>14. ASSUME NEW w \in Workers, MQ2S_WaitReturn(w) PROVE WaitInv'
  BY <1>14 DEF MQ2S_WaitReturn, TypeOK, WaitInv, SocketPC, WorkerPC
<1>15. ASSUME NEW w \in Workers, MQ2S_WhileExit(w) PROVE WaitInv'
  BY <1>15 DEF MQ2S_WhileExit, TypeOK, WaitInv, SocketPC, WorkerPC
<1>16. ASSUME NEW w \in Workers, SpuriousWakeup(w) PROVE WaitInv'
  BY <1>16 DEF SpuriousWakeup, TypeOK, WaitInv, SocketPC, WorkerPC
<1>17. ASSUME NEW w \in Workers, MQ2S_PopFront(w) PROVE WaitInv'
  BY <1>17 DEF MQ2S_PopFront, TypeOK, WaitInv, SocketPC, WorkerPC
<1>18. ASSUME NEW w \in Workers, MQ2S_PopUnlock(w) PROVE WaitInv'
  BY <1>18 DEF MQ2S_PopUnlock, TypeOK, WaitInv, SocketPC, WorkerPC
<1>19. ASSUME NEW w \in Workers, WorkDone(w) PROVE WaitInv'
  BY <1>19 DEF WorkDone, TypeOK, WaitInv, SocketPC, WorkerPC
<1>20. ASSUME NEW w \in Workers, MQ2C_PushLock(w) PROVE WaitInv'
  BY <1>20 DEF MQ2C_PushLock, TypeOK, WaitInv, SocketPC, WorkerPC
<1>21. ASSUME NEW w \in Workers, MQ2C_PushBack(w) PROVE WaitInv'
  BY <1>21 DEF MQ2C_PushBack, TypeOK, WaitInv, SocketPC, WorkerPC
<1>22. ASSUME NEW w \in Workers, MQ2C_EventfdWrite(w) PROVE WaitInv'
  BY <1>22 DEF MQ2C_EventfdWrite, TypeOK, WaitInv, SocketPC, WorkerPC
<1>23. ASSUME NEW w \in Workers, MQ2C_PushUnlock(w) PROVE WaitInv'
  BY <1>23 DEF MQ2C_PushUnlock, TypeOK, WaitInv, SocketPC, WorkerPC
<1>24. ASSUME NEW w \in Workers, MQ2C_TimerReturn(w) PROVE WaitInv'
  BY <1>24 DEF MQ2C_TimerReturn, TypeOK, WaitInv, SocketPC, WorkerPC
<1>25. ASSUME NEW w \in Workers, WorkerCall(w) PROVE WaitInv'
  BY <1>25 DEF WorkerCall, MQ2C_Push, TypeOK, WaitInv, SocketPC, WorkerPC
<1>26. CASE UNCHANGED vars
  BY <1>26 DEF vars, TypeOK, WaitInv, SocketPC, WorkerPC
<1>27. QED
  BY <1>1, <1>2, <1>3, <1>4, <1>5, <1>6, <1>7, <1>8, <1>9, <1>10,
     <1>11, <1>12, <1>13, <1>14, <1>15, <1>16, <1>17, <1>18, <1>19, <1>20,
     <1>21, <1>22, <1>23, <1>24, <1>25, <1>26
     DEF Next, SocketStep, WorkerStep

\* Steps never leave a worker asleep beside a message, nor let it pop an empty
\* list: only the owner of mq2s_lock_ changes the list.
LEMMA WakeupStep ==
  TypeOK /\ TypeOK' /\ MutualExclusion /\ WaitInv /\ PopNeverEmpty /\ NoSleepWhileWork /\ [Next]_vars => PopNeverEmpty' /\ NoSleepWhileWork'
<1> SUFFICES ASSUME TypeOK, TypeOK', MutualExclusion, WaitInv, PopNeverEmpty, NoSleepWhileWork, [Next]_vars PROVE PopNeverEmpty' /\ NoSleepWhileWork'
  OBVIOUS
<1> USE ThreadAssumption
<1> USE DEF Goto, half2s, half2c, Threads
<1>1. CASE MQ2S_PushLock
  BY <1>1 DEF MQ2S_PushLock, TypeOK, MutualExclusion, Holds2S,
     WaitInv, PopNeverEmpty, NoSleepWhileWork
<1>2. CASE MQ2S_PushBack
  BY <1>2 DEF MQ2S_PushBack, TypeOK, MutualExclusion, Holds2S,
     WaitInv, PopNeverEmpty, NoSleepWhileWork
<1>3. CASE MQ2S_Broadcast
  BY <1>3 DEF MQ2S_Broadcast, TypeOK, MutualExclusion, Holds2S,
     WaitInv, PopNeverEmpty, NoSleepWhileWork
<1>4. CASE MQ2S_PushUnlock
  BY <1>4 DEF MQ2S_PushUnlock, TypeOK, MutualExclusion, Holds2S,
     WaitInv, PopNeverEmpty, NoSleepWhileWork
<1>5. CASE EventfdRead
  BY <1>5 DEF EventfdRead, TypeOK, MutualExclusion, Holds2S,
     WaitInv, PopNeverEmpty, NoSleepWhileWork
<1>6. CASE MQ2C_PopLock
  BY <1>6 DEF MQ2C_PopLock, TypeOK, MutualExclusion, Holds2S,
     WaitInv, PopNeverEmpty, NoSleepWhileWork
<1>7. CASE MQ2C_PopFront
  BY <1>7 DEF MQ2C_PopFront, TypeOK, MutualExclusion, Holds2S,
     WaitInv, PopNeverEmpty, NoSleepWhileWork
<1>8. CASE MQ2C_PopNull
  BY <1>8 DEF MQ2C_PopNull, TypeOK, MutualExclusion, Holds2S,
     WaitInv, PopNeverEmpty, NoSleepWhileWork
<1>9. CASE MQ2C_PopUnlock
  BY <1>9 DEF MQ2C_PopUnlock, TypeOK, MutualExclusion, Holds2S,
     WaitInv, PopNeverEmpty, NoSleepWhileWork
<1>10. CASE MQ2C_NullUnlock
  BY <1>10 DEF MQ2C_NullUnlock, TypeOK, MutualExclusion, Holds2S,
     WaitInv, PopNeverEmpty, NoSleepWhileWork
<1>11. CASE SocketCallback
  BY <1>11 DEF SocketCallback, MQ2S_Push, TypeOK, MutualExclusion, Holds2S,
     WaitInv, PopNeverEmpty, NoSleepWhileWork
<1>12. ASSUME NEW w \in Workers, MQ2S_PopLock(w) PROVE PopNeverEmpty' /\ NoSleepWhileWork'
  BY <1>12 DEF MQ2S_PopLock, TypeOK, MutualExclusion, Holds2S,
     WaitInv, PopNeverEmpty, NoSleepWhileWork
<1>13. ASSUME NEW w \in Workers, MQ2S_Wait(w) PROVE PopNeverEmpty' /\ NoSleepWhileWork'
  BY <1>13 DEF MQ2S_Wait, TypeOK, MutualExclusion, Holds2S,
     WaitInv, PopNeverEmpty, NoSleepWhileWork
<1>14. ASSUME NEW w \in Workers, MQ2S_WaitReturn(w) PROVE PopNeverEmpty' /\ NoSleepWhileWork'
  BY <1>14 DEF MQ2S_WaitReturn, TypeOK, MutualExclusion, Holds2S,
     WaitInv, PopNeverEmpty, NoSleepWhileWork
<1>15. ASSUME NEW w \in Workers, MQ2S_WhileExit(w) PROVE PopNeverEmpty' /\ NoSleepWhileWork'
  BY <1>15 DEF MQ2S_WhileExit, TypeOK, MutualExclusion, Holds2S,
     WaitInv, PopNeverEmpty, NoSleepWhileWork
<1>16. ASSUME NEW w \in Workers, SpuriousWakeup(w) PROVE PopNeverEmpty' /\ NoSleepWhileWork'
  BY <1>16 DEF SpuriousWakeup, TypeOK, MutualExclusion, Holds2S,
     WaitInv, PopNeverEmpty, NoSleepWhileWork
<1>17. ASSUME NEW w \in Workers, MQ2S_PopFront(w) PROVE PopNeverEmpty' /\ NoSleepWhileWork'
  BY <1>17 DEF MQ2S_PopFront, TypeOK, MutualExclusion, Holds2S,
     WaitInv, PopNeverEmpty, NoSleepWhileWork
<1>18. ASSUME NEW w \in Workers, MQ2S_PopUnlock(w) PROVE PopNeverEmpty' /\ NoSleepWhileWork'
  BY <1>18 DEF MQ2S_PopUnlock, TypeOK, MutualExclusion, Holds2S,
     WaitInv, PopNeverEmpty, NoSleepWhileWork
<1>19. ASSUME NEW w \in Workers, WorkDone(w) PROVE PopNeverEmpty' /\ NoSleepWhileWork'
  BY <1>19 DEF WorkDone, TypeOK, MutualExclusion, Holds2S,
     WaitInv, PopNeverEmpty, NoSleepWhileWork
<1>20. ASSUME NEW w \in Workers, MQ2C_PushLock(w) PROVE PopNeverEmpty' /\ NoSleepWhileWork'
  BY <1>20 DEF MQ2C_PushLock, TypeOK, MutualExclusion, Holds2S,
     WaitInv, PopNeverEmpty, NoSleepWhileWork
<1>21. ASSUME NEW w \in Workers, MQ2C_PushBack(w) PROVE PopNeverEmpty' /\ NoSleepWhileWork'
  BY <1>21 DEF MQ2C_PushBack, TypeOK, MutualExclusion, Holds2S,
     WaitInv, PopNeverEmpty, NoSleepWhileWork
<1>22. ASSUME NEW w \in Workers, MQ2C_EventfdWrite(w) PROVE PopNeverEmpty' /\ NoSleepWhileWork'
  BY <1>22 DEF MQ2C_EventfdWrite, TypeOK, MutualExclusion, Holds2S,
     WaitInv, PopNeverEmpty, NoSleepWhileWork
<1>23. ASSUME NEW w \in Workers, MQ2C_PushUnlock(w) PROVE PopNeverEmpty' /\ NoSleepWhileWork'
  BY <1>23 DEF MQ2C_PushUnlock, TypeOK, MutualExclusion, Holds2S,
     WaitInv, PopNeverEmpty, NoSleepWhileWork
<1>24. ASSUME NEW w \in Workers, MQ2C_TimerReturn(w) PROVE PopNeverEmpty' /\ NoSleepWhileWork'
  BY <1>24 DEF MQ2C_TimerReturn, TypeOK, MutualExclusion, Holds2S,
     WaitInv, PopNeverEmpty, NoSleepWhileWork
<1>25. ASSUME NEW w \in Workers, WorkerCall(w) PROVE PopNeverEmpty' /\ NoSleepWhileWork'
  BY <1>25 DEF WorkerCall, MQ2C_Push, TypeOK, MutualExclusion, Holds2S,
     WaitInv, PopNeverEmpty, NoSleepWhileWork
<1>26. CASE UNCHANGED vars
  BY <1>26 DEF vars, TypeOK, MutualExclusion, Holds2S,
     WaitInv, PopNeverEmpty, NoSleepWhileWork
<1>27. QED
  BY <1>1, <1>2, <1>3, <1>4, <1>5, <1>6, <1>7, <1>8, <1>9, <1>10,
     <1>11, <1>12, <1>13, <1>14, <1>15, <1>16, <1>17, <1>18, <1>19, <1>20,
     <1>21, <1>22, <1>23, <1>24, <1>25, <1>26
     DEF Next, SocketStep, WorkerStep

\* Steps never leave a reply behind without a wakeup.
LEMMA EventfdStep ==
  TypeOK /\ TypeOK' /\ WaitInv /\ MutualExclusion /\ DrainInv /\ NoMissedEventfd /\ [Next]_vars => DrainInv' /\ NoMissedEventfd'
<1> SUFFICES ASSUME TypeOK, TypeOK', WaitInv, MutualExclusion, DrainInv, NoMissedEventfd, [Next]_vars PROVE DrainInv' /\ NoMissedEventfd'
  OBVIOUS
<1> USE ThreadAssumption
<1> USE DEF Goto, half2s, half2c, Threads
<1>1. CASE MQ2S_PushLock
  BY <1>1 DEF MQ2S_PushLock, TypeOK, MutualExclusion, Holds2C,
     WaitInv, DrainInv, NoMissedEventfd
<1>2. CASE MQ2S_PushBack
  BY <1>2 DEF MQ2S_PushBack, TypeOK, MutualExclusion, Holds2C,
     WaitInv, DrainInv, NoMissedEventfd
<1>3. CASE MQ2S_Broadcast
  BY <1>3 DEF MQ2S_Broadcast, TypeOK, MutualExclusion, Holds2C,
     WaitInv, DrainInv, NoMissedEventfd
<1>4. CASE MQ2S_PushUnlock
  BY <1>4 DEF MQ2S_PushUnlock, TypeOK, MutualExclusion, Holds2C,
     WaitInv, DrainInv, NoMissedEventfd
<1>5. CASE EventfdRead
  BY <1>5 DEF EventfdRead, TypeOK, MutualExclusion, Holds2C,
     WaitInv, DrainInv, NoMissedEventfd
<1>6. CASE MQ2C_PopLock
  BY <1>6 DEF MQ2C_PopLock, TypeOK, MutualExclusion, Holds2C,
     WaitInv, DrainInv, NoMissedEventfd
<1>7. CASE MQ2C_PopFront
  BY <1>7 DEF MQ2C_PopFront, TypeOK, MutualExclusion, Holds2C,
     WaitInv, DrainInv, NoMissedEventfd
<1>8. CASE MQ2C_PopNull
  BY <1>8 DEF MQ2C_PopNull, TypeOK, MutualExclusion, Holds2C,
     WaitInv, DrainInv, NoMissedEventfd
<1>9. CASE MQ2C_PopUnlock
  BY <1>9 DEF MQ2C_PopUnlock, TypeOK, MutualExclusion, Holds2C,
     WaitInv, DrainInv, NoMissedEventfd
<1>10. CASE MQ2C_NullUnlock
  BY <1>10 DEF MQ2C_NullUnlock, TypeOK, MutualExclusion, Holds2C,
     WaitInv, DrainInv, NoMissedEventfd
<1>11. CASE SocketCallback
  BY <1>11 DEF SocketCallback, MQ2S_Push, TypeOK, MutualExclusion, Holds2C,
     WaitInv, DrainInv, NoMissedEventfd
<1>12. ASSUME NEW w \in Workers, MQ2S_PopLock(w) PROVE DrainInv' /\ NoMissedEventfd'
  BY <1>12 DEF MQ2S_PopLock, TypeOK, MutualExclusion, Holds2C,
     WaitInv, DrainInv, NoMissedEventfd
<1>13. ASSUME NEW w \in Workers, MQ2S_Wait(w) PROVE DrainInv' /\ NoMissedEventfd'
  BY <1>13 DEF MQ2S_Wait, TypeOK, MutualExclusion, Holds2C,
     WaitInv, DrainInv, NoMissedEventfd
<1>14. ASSUME NEW w \in Workers, MQ2S_WaitReturn(w) PROVE DrainInv' /\ NoMissedEventfd'
  BY <1>14 DEF MQ2S_WaitReturn, TypeOK, MutualExclusion, Holds2C,
     WaitInv, DrainInv, NoMissedEventfd
<1>15. ASSUME NEW w \in Workers, MQ2S_WhileExit(w) PROVE DrainInv' /\ NoMissedEventfd'
  BY <1>15 DEF MQ2S_WhileExit, TypeOK, MutualExclusion, Holds2C,
     WaitInv, DrainInv, NoMissedEventfd
<1>16. ASSUME NEW w \in Workers, SpuriousWakeup(w) PROVE DrainInv' /\ NoMissedEventfd'
  BY <1>16 DEF SpuriousWakeup, TypeOK, MutualExclusion, Holds2C,
     WaitInv, DrainInv, NoMissedEventfd
<1>17. ASSUME NEW w \in Workers, MQ2S_PopFront(w) PROVE DrainInv' /\ NoMissedEventfd'
  BY <1>17 DEF MQ2S_PopFront, TypeOK, MutualExclusion, Holds2C,
     WaitInv, DrainInv, NoMissedEventfd
<1>18. ASSUME NEW w \in Workers, MQ2S_PopUnlock(w) PROVE DrainInv' /\ NoMissedEventfd'
  BY <1>18 DEF MQ2S_PopUnlock, TypeOK, MutualExclusion, Holds2C,
     WaitInv, DrainInv, NoMissedEventfd
<1>19. ASSUME NEW w \in Workers, WorkDone(w) PROVE DrainInv' /\ NoMissedEventfd'
  BY <1>19 DEF WorkDone, TypeOK, MutualExclusion, Holds2C,
     WaitInv, DrainInv, NoMissedEventfd
<1>20. ASSUME NEW w \in Workers, MQ2C_PushLock(w) PROVE DrainInv' /\ NoMissedEventfd'
  BY <1>20 DEF MQ2C_PushLock, TypeOK, MutualExclusion, Holds2C,
     WaitInv, DrainInv, NoMissedEventfd
<1>21. ASSUME NEW w \in Workers, MQ2C_PushBack(w) PROVE DrainInv' /\ NoMissedEventfd'
  BY <1>21 DEF MQ2C_PushBack, TypeOK, MutualExclusion, Holds2C,
     WaitInv, DrainInv, NoMissedEventfd
<1>22. ASSUME NEW w \in Workers, MQ2C_EventfdWrite(w) PROVE DrainInv' /\ NoMissedEventfd'
  BY <1>22 DEF MQ2C_EventfdWrite, TypeOK, MutualExclusion, Holds2C,
     WaitInv, DrainInv, NoMissedEventfd
<1>23. ASSUME NEW w \in Workers, MQ2C_PushUnlock(w) PROVE DrainInv' /\ NoMissedEventfd'
  BY <1>23 DEF MQ2C_PushUnlock, TypeOK, MutualExclusion, Holds2C,
     WaitInv, DrainInv, NoMissedEventfd
<1>24. ASSUME NEW w \in Workers, MQ2C_TimerReturn(w) PROVE DrainInv' /\ NoMissedEventfd'
  BY <1>24 DEF MQ2C_TimerReturn, TypeOK, MutualExclusion, Holds2C,
     WaitInv, DrainInv, NoMissedEventfd
<1>25. ASSUME NEW w \in Workers, WorkerCall(w) PROVE DrainInv' /\ NoMissedEventfd'
  BY <1>25 DEF WorkerCall, MQ2C_Push, TypeOK, MutualExclusion, Holds2C,
     WaitInv, DrainInv, NoMissedEventfd
<1>26. CASE UNCHANGED vars
  BY <1>26 DEF vars, TypeOK, MutualExclusion, Holds2C,
     WaitInv, DrainInv, NoMissedEventfd
<1>27. QED
  BY <1>1, <1>2, <1>3, <1>4, <1>5, <1>6, <1>7, <1>8, <1>9, <1>10,
     <1>11, <1>12, <1>13, <1>14, <1>15, <1>16, <1>17, <1>18, <1>19, <1>20,
     <1>21, <1>22, <1>23, <1>24, <1>25, <1>26
     DEF Next, SocketStep, WorkerStep

-----------------------------------------------------------------------------
\* Only four steps touch the lists, their histories and the timer ids.
LEMMA ListSteps ==
  [Next]_vars =>
    \/ MQ2S_PushBack
    \/ \E w \in Workers : MQ2S_PopFront(w)
    \/ \E w \in Workers : MQ2C_PushBack(w)
    \/ MQ2C_PopFront
    \/ UNCHANGED <<mq2s, mq2c, pushed2s, popped2s, pushed2c, popped2c, timerid_max>>
<1> SUFFICES ASSUME [Next]_vars,
                    ~MQ2S_PushBack, ~MQ2C_PopFront,
                    \A w \in Workers : ~MQ2S_PopFront(w) /\ ~MQ2C_PushBack(w)
             PROVE  UNCHANGED <<mq2s, mq2c, pushed2s, popped2s, pushed2c, popped2c, timerid_max>>
  OBVIOUS
<1> USE DEF half2s, half2c
<1>1. CASE SocketStep
  BY <1>1 DEF SocketStep, MQ2S_PushLock, MQ2S_Broadcast, MQ2S_PushUnlock, EventfdRead,
     MQ2C_PopLock, MQ2C_PopNull, MQ2C_PopUnlock, MQ2C_NullUnlock
<1>2. CASE SocketCallback
  BY <1>2 DEF SocketCallback, MQ2S_Push
<1>3. ASSUME NEW w \in Workers, WorkerStep(w)
      PROVE  UNCHANGED <<mq2s, mq2c, pushed2s, popped2s, pushed2c, popped2c, timerid_max>>
  BY <1>3 DEF WorkerStep, MQ2S_PopLock, MQ2S_Wait, MQ2S_WaitReturn, MQ2S_WhileExit,
     MQ2S_PopUnlock, WorkDone, MQ2C_PushLock, MQ2C_EventfdWrite, MQ2C_PushUnlock,
     MQ2C_TimerReturn
<1>4. ASSUME NEW w \in Workers, WorkerCall(w)
      PROVE  UNCHANGED <<mq2s, mq2c, pushed2s, popped2s, pushed2c, popped2c, timerid_max>>
  BY <1>4 DEF WorkerCall, MQ2C_Push
<1>5. ASSUME NEW w \in Workers, SpuriousWakeup(w)
      PROVE  UNCHANGED <<mq2s, mq2c, pushed2s, popped2s, pushed2c, popped2c, timerid_max>>
  BY <1>5 DEF SpuriousWakeup
<1>6. CASE UNCHANGED vars
  BY <1>6 DEF vars
<1>7. QED
  BY <1>1, <1>2, <1>3, <1>4, <1>5, <1>6 DEF Next

\* Steps keep the histories in line with the lists.
LEMMA FifoStep ==
  TypeOK /\ ArgInv /\ TypeOK' /\ ArgInv' /\ FifoInv /\ [Next]_vars => FifoInv'
<1> SUFFICES ASSUME TypeOK, ArgInv, TypeOK', ArgInv', FifoInv, [Next]_vars PROVE FifoInv'
  OBVIOUS
<1> USE DEF half2s, half2c
<1>1. CASE MQ2S_PushBack
  BY <1>1, JoinedPush DEF MQ2S_PushBack, Goto, TypeOK, ArgInv, FifoInv
<1>2. ASSUME NEW w \in Workers, MQ2S_PopFront(w) PROVE FifoInv'
  BY <1>2, JoinedPop DEF MQ2S_PopFront, TypeOK, FifoInv
<1>3. ASSUME NEW w \in Workers, MQ2C_PushBack(w) PROVE FifoInv'
  <2>1. arg'[w] \in ToSocket
    BY <1>3 DEF MQ2C_PushBack, Goto, Threads, TypeOK, ArgInv
  <2>2. QED
    BY <1>3, <2>1, JoinedPush DEF MQ2C_PushBack, TypeOK, FifoInv
<1>4. CASE MQ2C_PopFront
  BY <1>4, JoinedPop DEF MQ2C_PopFront, TypeOK, FifoInv
<1>5. CASE UNCHANGED <<mq2s, mq2c, pushed2s, popped2s, pushed2c, popped2c, timerid_max>>
  BY <1>5 DEF FifoInv
<1>6. QED
  BY <1>1, <1>2, <1>3, <1>4, <1>5, ListSteps

\* Steps hand out each timer id once.
LEMMA TimerStep ==
  TypeOK /\ ArgInv /\ TypeOK' /\ ArgInv' /\ TimerInv /\ TimerIdsDistinct /\ [Next]_vars
    => TimerInv' /\ TimerIdsDistinct'
<1> SUFFICES ASSUME TypeOK, ArgInv, TypeOK', ArgInv', TimerInv, TimerIdsDistinct, [Next]_vars
             PROVE  TimerInv' /\ TimerIdsDistinct'
  OBVIOUS
<1> USE DEF half2s, half2c
<1>1. ASSUME NEW w \in Workers, MQ2C_PushBack(w) PROVE TimerInv' /\ TimerIdsDistinct'
  <2>1. arg'[w] \in ToSocket /\ timerid_max \in Nat /\ timerid_max' \in Nat
    BY <1>1 DEF MQ2C_PushBack, Goto, Threads, TypeOK, ArgInv
  <2>2. /\ Len(pushed2c') = Len(pushed2c) + 1 /\ Len(pushed2c) \in Nat
        /\ \A i \in 1..Len(pushed2c) : pushed2c'[i] = pushed2c[i]
        /\ pushed2c'[Len(pushed2c) + 1] = arg'[w]
    BY <1>1, <2>1, AppendProperties DEF MQ2C_PushBack, TypeOK
  <2>3. timerid_max <= timerid_max'
    BY <1>1, <2>1 DEF MQ2C_PushBack
  <2>4. arg'[w].type = "TIMER"
          => arg'[w].val = timerid_max + 1 /\ timerid_max' = timerid_max + 1
    BY <1>1 DEF MQ2C_PushBack, Threads, TypeOK
  <2>5. \A i \in 1..Len(pushed2c) : pushed2c[i] \in ToSocket
    BY DEF TypeOK
  <2>6. \A i \in 1..Len(pushed2c) : pushed2c[i].type = "TIMER" => pushed2c[i].val \in Nat
    BY <2>5, ToSocketTypes
  <2>7. TimerInv'
    BY <2>1, <2>2, <2>3, <2>4, <2>6 DEF TimerInv
  <2>8. TimerIdsDistinct'
    BY <2>1, <2>2, <2>4, <2>6 DEF TimerInv, TimerIdsDistinct
  <2>9. QED
    BY <2>7, <2>8
<1>2. CASE UNCHANGED <<pushed2c, timerid_max>>
  BY <1>2 DEF TimerInv, TimerIdsDistinct
<1>3. QED
  BY <1>1, <1>2, ListSteps DEF MQ2S_PushBack, MQ2S_PopFront, MQ2C_PopFront

\* Steps return ids that were given, and none that is older than the timer's own.
LEMMA ReturnStep ==
  TypeOK /\ ArgInv /\ TypeOK' /\ ArgInv' /\ WaitInv /\ ReturnInv /\ [Next]_vars => ReturnInv'
<1> SUFFICES ASSUME TypeOK, ArgInv, TypeOK', ArgInv', WaitInv, ReturnInv, [Next]_vars
             PROVE  ReturnInv'
  OBVIOUS
<1> USE DEF half2s, half2c
<1>1. /\ Socket \notin Workers /\ timerid_max \in Nat
      /\ pc \in [Threads -> SocketPC \cup WorkerPC] /\ ret \in [Workers -> Nat]
      /\ arg \in [Threads -> ToWorker \cup ToSocket \cup {None}]
      /\ Workers \subseteq Threads /\ Socket \in Threads
  BY ThreadAssumption DEF TypeOK, Threads
<1>2. ASSUME UNCHANGED <<pushed2c, timerid_max, ret>>,
             \A w \in Workers :
               /\ arg'[w] = arg[w]
               /\ \/ pc'[w] = pc[w]
                  \/ pc[w] \notin Calling /\ pc'[w] \notin Calling
                  \/ pc'[w] \in Calling \ Given
                  \/ pc[w] \in Given /\ pc'[w] \in Given \ {"c_return"}
                  \/ arg[w].type # "TIMER" /\ pc'[w] # "c_return"
                  \/ arg[w].type = "TIMER" /\ pc[w] \in Given /\ pc'[w] = "c_return"
      PROVE  ReturnInv'
  BY <1>2 DEF ReturnInv, Calling, Given
<1>3. CASE SocketStep
  <2>1. UNCHANGED <<pushed2c, timerid_max, ret, arg>>
    BY <1>3 DEF SocketStep, MQ2S_PushLock, MQ2S_PushBack, MQ2S_Broadcast, MQ2S_PushUnlock,
       EventfdRead, MQ2C_PopLock, MQ2C_PopFront, MQ2C_PopNull, MQ2C_PopUnlock, MQ2C_NullUnlock
  <2>2. CASE MQ2S_Broadcast
    <3>1. \A w \in Workers : pc'[w] = pc[w] \/ (pc[w] = "s_waiting" /\ pc'[w] = "s_relock")
      BY <1>1, <2>2 DEF MQ2S_Broadcast, WaitInv
    <3>2. QED
      BY <1>2, <2>1, <3>1 DEF Calling
  <2>3. CASE ~MQ2S_Broadcast
    <3>1. \E from, to : Goto(Socket, from, to)
      BY <1>3, <2>3 DEF SocketStep, MQ2S_PushLock, MQ2S_PushBack, MQ2S_PushUnlock,
         EventfdRead, MQ2C_PopLock, MQ2C_PopFront, MQ2C_PopNull, MQ2C_PopUnlock, MQ2C_NullUnlock
    <3>2. \A w \in Workers : pc'[w] = pc[w]
      BY <1>1, <3>1 DEF Goto
    <3>3. QED
      BY <1>2, <2>1, <3>2
  <2>4. QED
    BY <2>2, <2>3
<1>4. CASE SocketCallback
  BY <1>1, <1>2, <1>4 DEF SocketCallback, MQ2S_Push, Goto
<1>5. ASSUME NEW w \in Workers,
             \/ MQ2S_PopLock(w) \/ MQ2S_Wait(w) \/ MQ2S_WaitReturn(w) \/ MQ2S_WhileExit(w)
             \/ MQ2S_PopFront(w) \/ MQ2S_PopUnlock(w) \/ WorkDone(w) \/ SpuriousWakeup(w)
      PROVE  ReturnInv'
  <2>1. PICK from, to : /\ Goto(w, from, to) /\ from \notin Calling /\ to \notin Calling
                        /\ UNCHANGED <<arg, pushed2c, timerid_max, ret>>
    BY <1>5 DEF MQ2S_PopLock, MQ2S_Wait, MQ2S_WaitReturn, MQ2S_WhileExit, MQ2S_PopFront,
       MQ2S_PopUnlock, WorkDone, SpuriousWakeup, Calling
  <2>2. QED
    BY <1>1, <1>2, <2>1 DEF Goto
<1>6. ASSUME NEW w \in Workers, MQ2C_PushLock(w) \/ MQ2C_EventfdWrite(w) \/ MQ2C_PushUnlock(w)
      PROVE  ReturnInv'
  BY <1>1, <1>2, <1>6 DEF MQ2C_PushLock, MQ2C_EventfdWrite, MQ2C_PushUnlock, Goto, Calling, Given
<1>7. ASSUME NEW w \in Workers, WorkerCall(w) PROVE ReturnInv'
  <2>1. /\ UNCHANGED <<pushed2c, timerid_max, ret>> /\ pc' = [pc EXCEPT ![w] = "c_lock"]
        /\ \A v \in Workers : v # w => arg'[v] = arg[v]
    BY <1>1, <1>7 DEF WorkerCall, MQ2C_Push, Goto
  <2>2. QED
    BY <1>1, <2>1 DEF ReturnInv, Calling, Given
<1>8. ASSUME NEW w \in Workers, MQ2C_TimerReturn(w) PROVE ReturnInv'
  <2>1. /\ UNCHANGED <<pushed2c, timerid_max, arg>> /\ pc[w] = "c_return"
        /\ pc' = [pc EXCEPT ![w] = "work"] /\ ret' = [ret EXCEPT ![w] = timerid_max]
    BY <1>8 DEF MQ2C_TimerReturn, Goto
  <2>2. /\ arg[w].val \in 1..timerid_max /\ (Workers = {w} => arg[w].val = timerid_max)
    BY <2>1 DEF ReturnInv, Given
  <2>3. QED
    BY <1>1, <2>1, <2>2 DEF ReturnInv, Calling, Given
<1>9. ASSUME NEW w \in Workers, MQ2C_PushBack(w) PROVE ReturnInv'
  <2>1. arg'[w] \in ToSocket
    BY <1>9 DEF MQ2C_PushBack, Goto, Threads, TypeOK, ArgInv
  <2>2. /\ Len(pushed2c') = Len(pushed2c) + 1 /\ Len(pushed2c) \in Nat
        /\ \A i \in 1..Len(pushed2c) : pushed2c'[i] = pushed2c[i]
        /\ pushed2c'[Len(pushed2c) + 1] = arg'[w]
    BY <1>9, <2>1, AppendProperties DEF MQ2C_PushBack, TypeOK
  <2>3. /\ ret' = ret /\ pc[w] = "c_push" /\ pc' = [pc EXCEPT ![w] = "c_eventfd"]
        /\ \A v \in Workers : v # w => arg'[v] = arg[v]
    BY <1>1, <1>9 DEF MQ2C_PushBack, Goto
  <2>4. CASE arg[w].type # "TIMER"
    <3>1. timerid_max' = timerid_max /\ arg' = arg
      BY <1>9, <2>4 DEF MQ2C_PushBack
    <3>2. \A n \in 1..timerid_max' :
            \E i \in 1..Len(pushed2c') : pushed2c'[i] = [type |-> "TIMER", val |-> n]
      BY <2>2, <3>1 DEF ReturnInv
    <3>3. QED
      BY <1>1, <2>3, <2>4, <3>1, <3>2 DEF ReturnInv, Calling, Given
  <2>5. CASE arg[w].type = "TIMER"
    <3>1. PICK m : m = timerid_max + 1
      OBVIOUS
    <3>2. timerid_max' = m /\ arg' = [arg EXCEPT ![w] = [type |-> "TIMER", val |-> m]]
      BY <1>9, <2>5, <3>1 DEF MQ2C_PushBack
    <3>3. arg'[w] = [type |-> "TIMER", val |-> m] /\ m \in Nat /\ timerid_max < m /\ 1 <= m
      BY <1>1, <3>1, <3>2
    <3>4. \A n \in 1..m :
            \E i \in 1..Len(pushed2c') : pushed2c'[i] = [type |-> "TIMER", val |-> n]
      <4>1. ASSUME NEW n \in 1..m
            PROVE  \E i \in 1..Len(pushed2c') : pushed2c'[i] = [type |-> "TIMER", val |-> n]
        <5>1. CASE n = m
          BY <2>2, <3>3, <5>1
        <5>2. CASE n \in 1..timerid_max
          BY <2>2, <5>2 DEF ReturnInv
        <5>3. QED
          BY <1>1, <3>1, <5>1, <5>2
      <4>2. QED
        BY <4>1
    <3>5. ASSUME NEW v \in Workers
          PROVE  /\ pc'[v] = "c_return" => arg'[v].type = "TIMER"
                 /\ pc'[v] \in Given /\ arg'[v].type = "TIMER" =>
                      arg'[v].val \in 1..m /\ (Workers = {v} => arg'[v].val = m)
                 /\ pc'[v] \notin Calling /\ arg'[v].type = "TIMER" =>
                      /\ arg'[v].val \in Nat /\ ret'[v] \in 1..m /\ ret'[v] >= arg'[v].val
                      /\ Workers = {v} => ret'[v] = arg'[v].val
      <4>1. CASE v = w
        BY <1>1, <2>3, <3>3, <4>1 DEF Calling, Given
      <4>2. CASE v # w
        <5>1. arg'[v] = arg[v] /\ ret'[v] = ret[v] /\ pc'[v] = pc[v] /\ Workers # {v}
          BY <1>1, <2>3, <4>2
        <5>2. 1..timerid_max \subseteq 1..m
          BY <1>1, <3>1
        <5>3. QED
          BY <5>1, <5>2 DEF ReturnInv
      <4>3. QED
        BY <4>1, <4>2
    <3>6. QED
      BY <3>2, <3>4, <3>5 DEF ReturnInv
  <2>6. QED
    BY <2>4, <2>5
<1>10. CASE UNCHANGED vars
  BY <1>2, <1>10 DEF vars
<1>11. QED
  BY <1>3, <1>4, <1>5, <1>6, <1>7, <1>8, <1>9, <1>10 DEF Next, WorkerStep
-----------------------------------------------------------------------------
\* The initial state satisfies the inductive invariant.
LEMMA IInvInit == Init => IInv
<1> SUFFICES ASSUME Init PROVE IInv
  OBVIOUS
<1> USE ThreadAssumption DEF Init, Threads
<1>1. TypeOK /\ ArgInv
  BY TypeInit
<1>2. MutualExclusion
  BY DEF MutualExclusion, Holds2S, Holds2C
<1>3. WaitInv
  BY DEF WaitInv
<1>4. PopNeverEmpty /\ NoSleepWhileWork /\ DrainInv /\ NoMissedEventfd
  BY DEF PopNeverEmpty, NoSleepWhileWork, DrainInv, NoMissedEventfd
<1>5. FifoInv /\ TimerInv /\ TimerIdsDistinct
  BY DEF FifoInv, Joined, TimerInv, TimerIdsDistinct
<1>6. ReturnInv
  BY DEF ReturnInv, None, Given
<1>7. QED
  BY <1>1, <1>2, <1>3, <1>4, <1>5, <1>6 DEF IInv

\* Every step of every thread keeps the inductive invariant.
LEMMA IInvStep == IInv /\ [Next]_vars => IInv'
<1> SUFFICES ASSUME IInv, [Next]_vars PROVE IInv'
  OBVIOUS
<1>1. TypeOK' /\ ArgInv'
  BY TypeStep DEF IInv
<1>2. QED
  BY <1>1, MutexStep, WaitStep, WakeupStep, EventfdStep, FifoStep, TimerStep, ReturnStep DEF IInv

\* IInv is an invariant of the queue.
THEOREM Invariance == Spec => []IInv
  BY IInvInit, IInvStep, PTL DEF Spec

\* Type correctness.
THEOREM TypeCorrect == Spec => []TypeOK
<1>1. IInv => TypeOK
  BY DEF IInv
<1>2. QED
  BY <1>1, Invariance, PTL

\* The critical sections of mq2s_lock_ and of mq2c_lock_ exclude each other.
THEOREM Exclusion == Spec => []MutualExclusion
<1>1. IInv => MutualExclusion
  BY DEF IInv
<1>2. QED
  BY <1>1, Invariance, PTL

\* MQ2S_Pop never takes the front of an empty list: the while loop is enough,
\* for any number of workers and however often pthread_cond_wait returns early.
THEOREM PopSafe == Spec => []PopNeverEmpty
<1>1. IInv => PopNeverEmpty
  BY DEF IInv
<1>2. QED
  BY <1>1, Invariance, PTL

\* No worker sleeps beside a message once the push has broadcast.
THEOREM NoLostCondWakeup == Spec => []NoSleepWhileWork
<1>1. IInv => NoSleepWhileWork
  BY DEF IInv
<1>2. QED
  BY <1>1, Invariance, PTL

\* The eventfd hand-over never loses a push of a worker.
THEOREM NoLostEventfdWakeup == Spec => []NoMissedEventfd
<1>1. IInv => NoMissedEventfd
  BY DEF IInv
<1>2. QED
  BY <1>1, Invariance, PTL

\* Timer ids are unique.
THEOREM TimerIdsUnique == Spec => []TimerIdsDistinct
<1>1. IInv => TimerIdsDistinct
  BY DEF IInv
<1>2. QED
  BY <1>1, Invariance, PTL

\* What MQ2C_Push_Timer returns is the id of a timer that exists, none older than its own,
\* and its own when there is one worker.
THEOREM TimerIdsReturned == Spec => []TimerIdReturned
<1>1. IInv => TimerIdReturned
  BY DEF IInv, ReturnInv, TimerIdReturned, Calling
<1>2. QED
  BY <1>1, Invariance, PTL
-----------------------------------------------------------------------------
\* mq2s_ implements the abstract pipe.
THEOREM ToWorkerRefinement == Spec => ToWorkerFifo
<1>1. Init => ToWorkerPipe!Init
  BY DEF Init, ToWorkerPipe!Init
<1>2. IInv /\ IInv' /\ [Next]_vars => [ToWorkerPipe!Next]_(ToWorkerPipe!vars)
  <2> SUFFICES ASSUME IInv, IInv', [Next]_vars PROVE [ToWorkerPipe!Next]_(ToWorkerPipe!vars)
    OBVIOUS
  <2> USE DEF half2s, half2c
  <2>1. ASSUME MQ2S_PushBack PROVE ToWorkerPipe!Put
    <3>1. arg[Socket] \in ToWorker
      BY <2>1 DEF MQ2S_PushBack, Goto, Threads, IInv, TypeOK, ArgInv
    <3>2. pushed2s' = Append(pushed2s, arg[Socket]) /\ UNCHANGED popped2s
      BY <2>1 DEF MQ2S_PushBack
    <3>3. QED
      BY <3>1, <3>2, AppendProperties DEF ToWorkerPipe!Put, IInv, TypeOK
  <2>2. ASSUME NEW w \in Workers, MQ2S_PopFront(w) PROVE ToWorkerPipe!Take
    <3>1. Len(popped2s) < Len(pushed2s) /\ Head(mq2s) = pushed2s[Len(popped2s) + 1]
      BY <2>2, JoinedPop DEF MQ2S_PopFront, IInv, TypeOK, FifoInv
    <3>2. QED
      BY <2>2, <3>1 DEF MQ2S_PopFront, ToWorkerPipe!Take
  <2>3. CASE UNCHANGED <<pushed2s, popped2s>>
    BY <2>3 DEF ToWorkerPipe!vars
  <2>4. QED
    BY <2>1, <2>2, <2>3, ListSteps
    DEF MQ2S_PushBack, MQ2S_PopFront, MQ2C_PushBack, MQ2C_PopFront, ToWorkerPipe!Next
<1>3. QED
  BY <1>1, <1>2, Invariance, PTL DEF Spec, ToWorkerFifo, ToWorkerPipe!Spec

\* mq2c_ implements the abstract pipe.
THEOREM ToSocketRefinement == Spec => ToSocketFifo
<1>1. Init => ToSocketPipe!Init
  BY DEF Init, ToSocketPipe!Init
<1>2. IInv /\ IInv' /\ [Next]_vars => [ToSocketPipe!Next]_(ToSocketPipe!vars)
  <2> SUFFICES ASSUME IInv, IInv', [Next]_vars PROVE [ToSocketPipe!Next]_(ToSocketPipe!vars)
    OBVIOUS
  <2> USE DEF half2s, half2c
  <2>1. ASSUME NEW w \in Workers, MQ2C_PushBack(w) PROVE ToSocketPipe!Put
    <3>1. arg'[w] \in ToSocket
      BY <2>1 DEF MQ2C_PushBack, Goto, Threads, IInv, TypeOK, ArgInv
    <3>2. pushed2c' = Append(pushed2c, arg'[w]) /\ UNCHANGED popped2c
      BY <2>1 DEF MQ2C_PushBack
    <3>3. QED
      BY <3>1, <3>2, AppendProperties DEF ToSocketPipe!Put, IInv, TypeOK
  <2>2. ASSUME MQ2C_PopFront PROVE ToSocketPipe!Take
    <3>1. Len(popped2c) < Len(pushed2c) /\ Head(mq2c) = pushed2c[Len(popped2c) + 1]
      BY <2>2, JoinedPop DEF MQ2C_PopFront, IInv, TypeOK, FifoInv
    <3>2. QED
      BY <2>2, <3>1 DEF MQ2C_PopFront, ToSocketPipe!Take
  <2>3. CASE UNCHANGED <<pushed2c, popped2c>>
    BY <2>3 DEF ToSocketPipe!vars
  <2>4. QED
    BY <2>1, <2>2, <2>3, ListSteps
    DEF MQ2S_PushBack, MQ2S_PopFront, MQ2C_PushBack, MQ2C_PopFront, ToSocketPipe!Next
<1>3. QED
  BY <1>1, <1>2, Invariance, PTL DEF Spec, ToSocketFifo, ToSocketPipe!Spec
=============================================================================
