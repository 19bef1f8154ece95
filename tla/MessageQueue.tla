---------------------------- MODULE MessageQueue ----------------------------
(***************************************************************************)
(* common/message_queue.cpp: the two lists that join the socket thread to  *)
(* the worker threads, at the grain of single mutex, condition-variable    *)
(* and eventfd operations.                                                 *)
(*                                                                         *)
(*   mq2s_  socket thread -> workers, guarded by mq2s_lock_; an idle       *)
(*          worker sleeps in pthread_cond_wait on mq2s_cond_.              *)
(*   mq2c_  workers -> socket thread, guarded by mq2c_lock_; an idle       *)
(*          socket thread sleeps in ev_run and is woken by eventfd_.       *)
(*                                                                         *)
(* The threads' own work is left out: what a callback of the socket thread *)
(* pushes, and what a worker pushes while it handles a message, is any     *)
(* message of the right type.  EpollServer and GameLogic say which.        *)
(***************************************************************************)
EXTENDS Naturals, Sequences

CONSTANTS
  Workers,              \* the worker threads (config.json: worker_num)
  Socket,               \* the socket thread
  NoThread,             \* the owner of a free mutex
  Uniqids,              \* connection ids that messages carry
  CallbackTypes,        \* message types this server's socket callbacks push
  HandlerTypes,         \* message types this server's workers push
  MaxToWorker,          \* bound: pushes to mq2s_
  MaxToSocket,          \* bound: pushes to mq2c_
  MaxSpurious           \* bound: spurious returns of pthread_cond_wait

ASSUME ThreadAssumption ==
  /\ Socket \notin Workers
  /\ NoThread \notin Workers \cup {Socket}
ASSUME TypeAssumption ==
  /\ CallbackTypes \subseteq {"PACK", "CONNECT", "CLOSE", "TIMER", "TICK"}
  /\ HandlerTypes \subseteq {"PACK", "BROADCAST", "CONNECT", "TIMER"}
ASSUME BoundAssumption ==
  /\ MaxToWorker \in Nat
  /\ MaxToSocket \in Nat
  /\ MaxSpurious \in Nat

VARIABLES
  mq2s, mq2c,           \* the lists mq2s_ and mq2c_
  lock2s, lock2c,       \* the owners of mq2s_lock_ and mq2c_lock_
  waiting,              \* workers blocked on mq2s_cond_
  efd,                  \* the counter of eventfd_
  timerid_max,          \* timerid_max_
  pc,                   \* where each thread is
  arg,                  \* the message each thread is pushing
  ret,                  \* what MQ2C_Push_Timer last returned to each worker
  spurious,             \* spurious wakeups so far
  pushed2s, popped2s,   \* history of mq2s_: what was pushed, what was popped
  pushed2c, popped2c    \* history of mq2c_

vars == <<mq2s, mq2c, lock2s, lock2c, waiting, efd, timerid_max, pc, arg, ret,
          spurious, pushed2s, popped2s, pushed2c, popped2c>>

\* What the 2s half and the 2c half of the state consist of.
half2s == <<mq2s, lock2s, waiting, spurious, pushed2s, popped2s>>
half2c == <<mq2c, lock2c, efd, timerid_max, ret, pushed2c, popped2c>>

Threads == Workers \cup {Socket}

\* A message_queue struct: its type and the uniqid, or the timer id, it carries.
ToWorker ==
  [type : CallbackTypes \cap {"PACK", "CLOSE"}, val : Uniqids] \cup
  [type : CallbackTypes \ {"PACK", "CLOSE"}, val : {0}]
ToSocket ==
  [type : HandlerTypes \cap {"PACK"}, val : Uniqids] \cup
  [type : HandlerTypes \cap {"BROADCAST", "CONNECT"}, val : {0}] \cup
  [type : HandlerTypes \cap {"TIMER"}, val : Nat]

None == [type |-> "NONE", val |-> 0]

SocketPC == {"ev_run", "s_lock", "s_push", "s_broadcast", "s_unlock",
             "c_poplock", "c_pop", "c_popunlock", "c_nullunlock"}
WorkerPC == {"s_poplock", "s_while", "s_waiting", "s_relock", "s_pop",
             "s_popunlock", "work", "c_lock", "c_push", "c_eventfd", "c_unlock", "c_return"}

Init ==
  /\ mq2s = <<>> /\ mq2c = <<>>
  /\ lock2s = NoThread /\ lock2c = NoThread
  /\ waiting = {} /\ efd = 0 /\ timerid_max = 0 /\ spurious = 0
  /\ pc = [t \in Threads |-> IF t = Socket THEN "ev_run" ELSE "s_poplock"]
  /\ arg = [t \in Threads |-> None]
  /\ ret = [w \in Workers |-> 0]
  /\ pushed2s = <<>> /\ popped2s = <<>> /\ pushed2c = <<>> /\ popped2c = <<>>

Goto(t, from, to) == pc[t] = from /\ pc' = [pc EXCEPT ![t] = to]
-----------------------------------------------------------------------------
(***************************************************************************)
(* Socket thread: MQ2S_Push (PACK, CONNECT), MQ2S_Push_Close,              *)
(* MQ2S_Push_Timer and MQ2S_Push_Tick, called from a libev callback.  They *)
(* differ in the message only.                                             *)
(***************************************************************************)
MQ2S_Push(type) ==
  /\ Len(pushed2s) < MaxToWorker
  /\ Goto(Socket, "ev_run", "s_lock")
  /\ \E m \in ToWorker : m.type = type /\ arg' = [arg EXCEPT ![Socket] = m]
  /\ UNCHANGED <<half2s, half2c>>

MQ2S_PushLock ==
  /\ Goto(Socket, "s_lock", "s_push")
  /\ lock2s = NoThread /\ lock2s' = Socket
  /\ UNCHANGED <<mq2s, waiting, spurious, pushed2s, popped2s, arg, half2c>>

\* Mutant: push_front.
MQ2S_PushBack_Front ==
  /\ Goto(Socket, "s_push", "s_broadcast")
  /\ mq2s' = <<arg[Socket]>> \o mq2s
  /\ pushed2s' = Append(pushed2s, arg[Socket])
  /\ UNCHANGED <<lock2s, waiting, spurious, popped2s, arg, half2c>>

\* Mutant: the struct is pushed before its fields are set.
MQ2S_PushBack_Unset ==
  /\ Goto(Socket, "s_push", "s_broadcast")
  /\ mq2s' = Append(mq2s, None)
  /\ pushed2s' = Append(pushed2s, None)
  /\ UNCHANGED <<lock2s, waiting, spurious, popped2s, arg, half2c>>

MQ2S_PushBack ==
  /\ Goto(Socket, "s_push", "s_broadcast")
  /\ mq2s' = Append(mq2s, arg[Socket])
  /\ pushed2s' = Append(pushed2s, arg[Socket])
  /\ UNCHANGED <<lock2s, waiting, spurious, popped2s, arg, half2c>>

\* Mutant: _Push_With_Notify and MQ2S_Signal, the code commented out in the push
\* functions: one waiter is signalled, and only if the list was empty.
MQ2S_Broadcast_Signal ==
  /\ pc[Socket] = "s_broadcast"
  /\ \E woken \in SUBSET waiting :
       /\ \A v, w \in woken : v = w
       /\ woken = {} <=> (Len(mq2s) > 1 \/ waiting = {})
       /\ pc' = [t \in Threads |-> IF t = Socket THEN "s_unlock"
                                   ELSE IF t \in woken THEN "s_relock" ELSE pc[t]]
       /\ waiting' = waiting \ woken
  /\ UNCHANGED <<mq2s, lock2s, spurious, pushed2s, popped2s, arg, half2c>>

\* Mutant: nobody is woken.
MQ2S_Broadcast_Forgotten ==
  /\ Goto(Socket, "s_broadcast", "s_unlock")
  /\ UNCHANGED <<half2s, arg, half2c>>

\* pthread_cond_broadcast: every waiter goes on to take the mutex again.
MQ2S_Broadcast ==
  /\ pc[Socket] = "s_broadcast"
  /\ pc' = [t \in Threads |-> IF t = Socket THEN "s_unlock"
                              ELSE IF t \in waiting THEN "s_relock" ELSE pc[t]]
  /\ waiting' = {}
  /\ UNCHANGED <<mq2s, lock2s, spurious, pushed2s, popped2s, arg, half2c>>

MQ2S_PushUnlock ==
  /\ Goto(Socket, "s_unlock", "ev_run")
  /\ lock2s' = NoThread
  /\ UNCHANGED <<mq2s, waiting, spurious, pushed2s, popped2s, arg, half2c>>
-----------------------------------------------------------------------------
(***************************************************************************)
(* Worker: MQ2S_Pop.  A worker that pthread_cond_wait wakes has to take    *)
(* the mutex again before it re-tests the while condition.                 *)
(***************************************************************************)
\* Mutant: the mutex is not taken.
MQ2S_PopLock_NoLock(w) ==
  /\ Goto(w, "s_poplock", "s_while")
  /\ UNCHANGED <<half2s, arg, half2c>>

MQ2S_PopLock(w) ==
  /\ Goto(w, "s_poplock", "s_while")
  /\ lock2s = NoThread /\ lock2s' = w
  /\ UNCHANGED <<mq2s, waiting, spurious, pushed2s, popped2s, arg, half2c>>

\* while (mq2s_.empty()) MQ2S_Wait(): waiting and releasing are one step.
MQ2S_Wait(w) ==
  /\ mq2s = <<>>
  /\ Goto(w, "s_while", "s_waiting")
  /\ waiting' = waiting \cup {w}
  /\ lock2s' = NoThread
  /\ UNCHANGED <<mq2s, spurious, pushed2s, popped2s, arg, half2c>>

MQ2S_WhileExit(w) ==
  /\ mq2s # <<>>
  /\ Goto(w, "s_while", "s_pop")
  /\ UNCHANGED <<half2s, arg, half2c>>

\* pthread_cond_wait may return although nobody broadcast.
SpuriousWakeup(w) ==
  /\ spurious < MaxSpurious
  /\ Goto(w, "s_waiting", "s_relock")
  /\ waiting' = waiting \ {w}
  /\ spurious' = spurious + 1
  /\ UNCHANGED <<mq2s, lock2s, pushed2s, popped2s, arg, half2c>>

\* Mutant: `if' for `while', so the condition is not tested again.
MQ2S_WaitReturn_If(w) ==
  /\ Goto(w, "s_relock", "s_pop")
  /\ lock2s = NoThread /\ lock2s' = w
  /\ UNCHANGED <<mq2s, waiting, spurious, pushed2s, popped2s, arg, half2c>>

\* pthread_cond_wait returns once it holds the mutex; the while test follows.
MQ2S_WaitReturn(w) ==
  /\ Goto(w, "s_relock", "s_while")
  /\ lock2s = NoThread /\ lock2s' = w
  /\ UNCHANGED <<mq2s, waiting, spurious, pushed2s, popped2s, arg, half2c>>

\* front() and pop_front(): undefined on an empty list (see PopNeverEmpty).
MQ2S_PopFront(w) ==
  /\ mq2s # <<>>
  /\ Goto(w, "s_pop", "s_popunlock")
  /\ mq2s' = Tail(mq2s)
  /\ popped2s' = Append(popped2s, Head(mq2s))
  /\ UNCHANGED <<lock2s, waiting, spurious, pushed2s, arg, half2c>>

MQ2S_PopUnlock(w) ==
  /\ Goto(w, "s_popunlock", "work")
  /\ lock2s' = NoThread
  /\ UNCHANGED <<mq2s, waiting, spurious, pushed2s, popped2s, arg, half2c>>
-----------------------------------------------------------------------------
(***************************************************************************)
(* Worker: while it handles the message it popped it may call MQ2C_Push,   *)
(* MQ2C_Push_Broadcast, MQ2C_Push_Connector or MQ2C_Push_Timer any number  *)
(* of times, then asks for the next message.  The four differ in the       *)
(* message, and the last in what it does with timerid_max_.                *)
(***************************************************************************)
MQ2C_Push(w, type) ==
  /\ Len(pushed2c) < MaxToSocket
  /\ Goto(w, "work", "c_lock")
  /\ \E v \in IF type = "PACK" THEN Uniqids ELSE {0} :
       arg' = [arg EXCEPT ![w] = [type |-> type, val |-> v]]
  /\ UNCHANGED <<half2s, half2c>>

WorkDone(w) ==
  /\ Goto(w, "work", "s_poplock")
  /\ UNCHANGED <<half2s, arg, half2c>>

MQ2C_PushLock(w) ==
  /\ Goto(w, "c_lock", "c_push")
  /\ lock2c = NoThread /\ lock2c' = w
  /\ UNCHANGED <<half2s, mq2c, efd, timerid_max, ret, pushed2c, popped2c, arg>>

\* Mutant: the id is not counted up.
MQ2C_PushBack_SameId(w) ==
  /\ Goto(w, "c_push", "c_eventfd")
  /\ arg' = IF arg[w].type = "TIMER"
              THEN [arg EXCEPT ![w] = [type |-> "TIMER", val |-> timerid_max]] ELSE arg
  /\ mq2c' = Append(mq2c, arg'[w])
  /\ pushed2c' = Append(pushed2c, arg'[w])
  /\ UNCHANGED <<half2s, lock2c, efd, timerid_max, ret, popped2c>>

\* push_back; a timer first gets the next id: timerid_max_ += 1.
MQ2C_PushBack(w) ==
  /\ Goto(w, "c_push", "c_eventfd")
  /\ IF arg[w].type = "TIMER"
       THEN /\ timerid_max' = timerid_max + 1
            /\ arg' = [arg EXCEPT ![w] = [type |-> "TIMER", val |-> timerid_max + 1]]
       ELSE UNCHANGED <<timerid_max, arg>>
  /\ mq2c' = Append(mq2c, arg'[w])
  /\ pushed2c' = Append(pushed2c, arg'[w])
  /\ UNCHANGED <<half2s, lock2c, efd, ret, popped2c>>

MQ2C_EventfdWrite(w) ==
  /\ Goto(w, "c_eventfd", "c_unlock")
  /\ efd' = efd + 1
  /\ UNCHANGED <<half2s, mq2c, lock2c, timerid_max, ret, pushed2c, popped2c, arg>>

MQ2C_PushUnlock(w) ==
  /\ Goto(w, "c_unlock", IF arg[w].type = "TIMER" THEN "c_return" ELSE "work")
  /\ lock2c' = NoThread
  /\ UNCHANGED <<half2s, mq2c, efd, timerid_max, ret, pushed2c, popped2c, arg>>

\* Mutant: return timerid_max_ + 1, the increment made once more.
MQ2C_TimerReturn_Next(w) ==
  /\ Goto(w, "c_return", "work")
  /\ ret' = [ret EXCEPT ![w] = timerid_max + 1]
  /\ UNCHANGED <<half2s, mq2c, lock2c, efd, timerid_max, pushed2c, popped2c, arg>>

\* return timerid_max_: read again, and the mutex is free by now.
MQ2C_TimerReturn(w) ==
  /\ Goto(w, "c_return", "work")
  /\ ret' = [ret EXCEPT ![w] = timerid_max]
  /\ UNCHANGED <<half2s, mq2c, lock2c, efd, timerid_max, pushed2c, popped2c, arg>>
-----------------------------------------------------------------------------
(***************************************************************************)
(* Socket thread: eventfd_cb and the drain loop of OnEventfd.  libev calls *)
(* back while the counter is positive (level triggered); read() returns    *)
(* the counter and resets it.                                              *)
(***************************************************************************)
EventfdRead ==
  /\ efd > 0
  /\ Goto(Socket, "ev_run", "c_poplock")
  /\ efd' = 0
  /\ UNCHANGED <<half2s, mq2c, lock2c, timerid_max, ret, pushed2c, popped2c, arg>>

MQ2C_PopLock ==
  /\ Goto(Socket, "c_poplock", "c_pop")
  /\ lock2c = NoThread /\ lock2c' = Socket
  /\ UNCHANGED <<half2s, mq2c, efd, timerid_max, ret, pushed2c, popped2c, arg>>

\* Mutant: front() without pop_front().
MQ2C_PopFront_NoErase ==
  /\ mq2c # <<>>
  /\ Len(popped2c) < MaxToSocket + 1
  /\ Goto(Socket, "c_pop", "c_popunlock")
  /\ popped2c' = Append(popped2c, Head(mq2c))
  /\ UNCHANGED <<half2s, mq2c, lock2c, efd, timerid_max, ret, pushed2c, arg>>

MQ2C_PopFront ==
  /\ mq2c # <<>>
  /\ Goto(Socket, "c_pop", "c_popunlock")
  /\ mq2c' = Tail(mq2c)
  /\ popped2c' = Append(popped2c, Head(mq2c))
  /\ UNCHANGED <<half2s, lock2c, efd, timerid_max, ret, pushed2c, arg>>

MQ2C_PopNull ==
  /\ mq2c = <<>>
  /\ Goto(Socket, "c_pop", "c_nullunlock")
  /\ UNCHANGED <<half2s, half2c, arg>>

\* Mutant: one message per eventfd callback instead of all of them.
MQ2C_PopUnlock_One ==
  /\ Goto(Socket, "c_popunlock", "ev_run")
  /\ lock2c' = NoThread
  /\ UNCHANGED <<half2s, mq2c, efd, timerid_max, ret, pushed2c, popped2c, arg>>

\* The message is dispatched and the loop calls MQ2C_Pop again.
MQ2C_PopUnlock ==
  /\ Goto(Socket, "c_popunlock", "c_poplock")
  /\ lock2c' = NoThread
  /\ UNCHANGED <<half2s, mq2c, efd, timerid_max, ret, pushed2c, popped2c, arg>>

\* MQ2C_Pop returned NULL: the loop breaks and the callback returns.
MQ2C_NullUnlock ==
  /\ Goto(Socket, "c_nullunlock", "ev_run")
  /\ lock2c' = NoThread
  /\ UNCHANGED <<half2s, mq2c, efd, timerid_max, ret, pushed2c, popped2c, arg>>
-----------------------------------------------------------------------------
\* What the socket thread does once a callback has begun, and the drain.
SocketStep ==
  \/ MQ2S_PushLock \/ MQ2S_PushBack \/ MQ2S_Broadcast \/ MQ2S_PushUnlock
  \/ EventfdRead \/ MQ2C_PopLock \/ MQ2C_PopFront \/ MQ2C_PopNull
  \/ MQ2C_PopUnlock \/ MQ2C_NullUnlock

SocketCallback == \E type \in CallbackTypes : MQ2S_Push(type)

WorkerStep(w) ==
  \/ MQ2S_PopLock(w) \/ MQ2S_Wait(w) \/ MQ2S_WaitReturn(w) \/ MQ2S_WhileExit(w)
  \/ MQ2S_PopFront(w) \/ MQ2S_PopUnlock(w) \/ WorkDone(w)
  \/ MQ2C_PushLock(w) \/ MQ2C_PushBack(w) \/ MQ2C_EventfdWrite(w)
  \/ MQ2C_PushUnlock(w) \/ MQ2C_TimerReturn(w)

WorkerCall(w) == \E type \in HandlerTypes : MQ2C_Push(w, type)

Next ==
  \/ SocketStep
  \/ SocketCallback
  \/ \E w \in Workers : WorkerStep(w) \/ WorkerCall(w) \/ SpuriousWakeup(w)

Spec == Init /\ [][Next]_vars

(***************************************************************************)
(* A thread that can run does run: the operating system's scheduler.  A    *)
(* worker's handler returns (WorkDone).  Nothing makes a client send, a    *)
(* handler push or pthread_cond_wait return early.                         *)
(***************************************************************************)
Fairness == WF_vars(SocketStep) /\ \A w \in Workers : WF_vars(WorkerStep(w))

FairSpec == Spec /\ Fairness
-----------------------------------------------------------------------------
(***************************************************************************)
(* Properties.                                                             *)
(***************************************************************************)

\* Every variable has its type.
TypeOK ==
  /\ mq2s \in Seq(ToWorker) /\ pushed2s \in Seq(ToWorker) /\ popped2s \in Seq(ToWorker)
  /\ mq2c \in Seq(ToSocket) /\ pushed2c \in Seq(ToSocket) /\ popped2c \in Seq(ToSocket)
  /\ lock2s \in Threads \cup {NoThread} /\ lock2c \in Threads \cup {NoThread}
  /\ waiting \subseteq Workers
  /\ efd \in Nat /\ timerid_max \in Nat /\ spurious \in Nat
  /\ pc \in [Threads -> SocketPC \cup WorkerPC]
  /\ pc[Socket] \in SocketPC /\ \A w \in Workers : pc[w] \in WorkerPC
  /\ arg \in [Threads -> ToWorker \cup ToSocket \cup {None}]
  /\ ret \in [Workers -> Nat]

\* The pcs at which a thread must own mq2s_lock_, and those for mq2c_lock_.
Holds2S == {"s_push", "s_broadcast", "s_unlock", "s_while", "s_pop", "s_popunlock"}
Holds2C == {"c_push", "c_eventfd", "c_unlock", "c_pop", "c_popunlock", "c_nullunlock"}

\* Both mutexes exclude: a thread between MQ2S_Lock and MQ2S_Unlock (MQ2C_Lock
\* and MQ2C_Unlock) is the owner, so no two threads are there at once, and a
\* mutex whose owner has left the critical section does not stay taken.
MutualExclusion ==
  /\ \A t \in Threads : pc[t] \in Holds2S <=> lock2s = t
  /\ \A t \in Threads : pc[t] \in Holds2C <=> lock2c = t

\* MQ2S_Pop never calls front() on an empty list, whatever woke it: another
\* worker may have emptied the list, or nobody pushed at all.  The comment on
\* the while loop of MQ2S_Pop asks for this.
PopNeverEmpty == \A w \in Workers : pc[w] = "s_pop" => mq2s # <<>>

\* No worker sleeps on mq2s_cond_ while a message waits, except in the instant
\* between push_back and the broadcast.
NoSleepWhileWork == mq2s # <<>> /\ waiting # {} => pc[Socket] = "s_broadcast"

\* A worker's push is never missed by the socket thread: if mq2c_ holds a
\* message then the eventfd is readable, or a push is about to write it, or the
\* drain loop of OnEventfd has not yet seen the list empty.
NoMissedEventfd ==
  mq2c # <<>> =>
    \/ efd > 0
    \/ \E w \in Workers : pc[w] = "c_eventfd"
    \/ pc[Socket] \in {"c_poplock", "c_pop", "c_popunlock"}

\* MQ2C_Push_Timer never gives two timers the same id.
TimerIdsDistinct ==
  \A i, j \in 1..Len(pushed2c) :
    /\ i # j
    /\ pushed2c[i].type = "TIMER"
    /\ pushed2c[j].type = "TIMER"
    => pushed2c[i].val # pushed2c[j].val

\* MQ2C_Push_Timer reads timerid_max_ again after it unlocked.  What it returns is
\* the id of its own timer if there is no other worker, and never that of an
\* older timer or of none.
TimerIdReturned ==
  \A w \in Workers :
    pc[w] = "work" /\ arg[w].type = "TIMER" =>
      /\ ret[w] >= arg[w].val
      /\ \E i \in 1..Len(pushed2c) : pushed2c[i] = [type |-> "TIMER", val |-> ret[w]]
      /\ Workers = {w} => ret[w] = arg[w].val

ToWorkerPipe == INSTANCE FifoPipe
  WITH Message <- ToWorker, put <- pushed2s, taken <- popped2s
ToSocketPipe == INSTANCE FifoPipe
  WITH Message <- ToSocket, put <- pushed2c, taken <- popped2c

\* mq2s_ is a FIFO pipe: between them, the workers pop every message of the
\* socket thread once and in the order in which it was pushed.
ToWorkerFifo == ToWorkerPipe!Spec

\* mq2c_ is a FIFO pipe: the socket thread pops every message of the workers
\* once and in the order in which they entered the list.
ToSocketFifo == ToSocketPipe!Spec

\* Every message the socket thread pushes is popped by some worker: no wakeup is
\* lost and no one deadlocks.
EveryMessageHandled ==
  \A n \in 1..MaxToWorker : Len(pushed2s) = n ~> Len(popped2s) >= n

\* Every message a worker pushes is popped by the socket thread.
EveryReplyTaken ==
  \A n \in 1..MaxToSocket : Len(pushed2c) = n ~> Len(popped2c) >= n
=============================================================================
