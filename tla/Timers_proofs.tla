--------------------------- MODULE Timers_proofs ---------------------------
(***************************************************************************)
(* Proof that a timer that is over stays silent, for any number of timers  *)
(* and expiries.  What OnTimer pushes is of no matter: whatever id comes   *)
(* back, and however often, TimerManager alone decides whether it counts.  *)
(***************************************************************************)
EXTENDS Timers, TLAPS

\* The ids that were given out: only they can have a proxy, repeat or be cancelled.
Added == 1..timerid_max

TypeInv ==
  /\ timerid_max \in 0..MaxTimers
  /\ timers \subseteq Added /\ repeats \subseteq Added /\ cancelled \subseteq Added
  /\ ticks \in [Ids -> 0..MaxTicks]
  /\ \A id \in Ids : id \notin Added => ticks[id] = 0

\* A timer that is over has no proxy.
OverInv ==
  \A id \in Ids : id \in cancelled \/ (id \notin repeats /\ ticks[id] > 0) => id \notin timers

IInv == TypeInv /\ OverInv
-----------------------------------------------------------------------------
LEMMA InvInit == Init => IInv
  BY BoundAssumption DEF Init, IInv, TypeInv, OverInv, Added, Ids

\* A callback that runs is that of a timer with a proxy, which goes if it does not repeat.
LEMMA HandleStep ==
  ASSUME IInv, HandleTimer
  PROVE  /\ IInv'
         /\ \A id \in Ids : id \notin timers => ticks'[id] = ticks[id]
<1>1. UNCHANGED <<timerid_max, repeats, cancelled>>
  BY DEF HandleTimer
<1>2. PICK id : id = Head(mq2s)
  OBVIOUS
<1>3. onTimer(id)
  BY <1>2 DEF HandleTimer
<1>4. /\ timerid_max \in 0..MaxTimers /\ MaxTimers \in Nat /\ MaxTicks \in Nat
      /\ timers \subseteq Ids /\ ticks \in [Ids -> 0..MaxTicks]
  BY BoundAssumption DEF IInv, TypeInv, Added, Ids
<1>5. CASE id \notin timers
  BY <1>1, <1>3, <1>5 DEF onTimer, IInv, TypeInv, OverInv, Added
<1>6. CASE id \in timers
  <2>1. PICK n \in 0..MaxTicks : ticks' = [ticks EXCEPT ![id] = n]
    <3>1. ticks[id] \in 0..MaxTicks
      BY <1>4, <1>6
    <3>2. (IF ticks[id] < MaxTicks THEN ticks[id] + 1 ELSE ticks[id]) \in 0..MaxTicks
      BY <1>4, <3>1
    <3>3. ticks' = [ticks EXCEPT ![id] = IF ticks[id] < MaxTicks THEN ticks[id] + 1 ELSE ticks[id]]
      BY <1>3, <1>4, <1>6 DEF onTimer
    <3>4. QED
      BY <3>2, <3>3
  <2>2. timers' = IF id \in repeats THEN timers ELSE timers \ {id}
    BY <1>3, <1>6 DEF onTimer
  <2>3. \A j \in Ids : j # id => ticks'[j] = ticks[j]
    BY <1>4, <2>1
  <2>4. TypeInv'
    BY <1>1, <1>4, <1>6, <2>1, <2>2, <2>3 DEF IInv, TypeInv, Added
  <2>5. OverInv'
    BY <1>1, <1>6, <2>2, <2>3 DEF IInv, OverInv
  <2>6. QED
    BY <1>6, <2>3, <2>4, <2>5 DEF IInv
<1>7. QED
  BY <1>5, <1>6

LEMMA InvStep == IInv /\ [Next]_vars => IInv'
<1> SUFFICES ASSUME IInv, [Next]_vars PROVE IInv'
  OBVIOUS
<1>1. timerid_max \in Nat /\ MaxTimers \in Nat /\ timerid_max <= MaxTimers
  BY BoundAssumption DEF IInv, TypeInv
<1>2. ASSUME NEW repeat \in BOOLEAN, AddTimer(repeat) PROVE IInv'
  <2>1. PICK id : id = timerid_max + 1
    OBVIOUS
  <2>2. /\ timerid_max' = id /\ timers' = timers \cup {id} /\ ticks' = ticks /\ cancelled' = cancelled
        /\ repeats' = IF repeat THEN repeats \cup {id} ELSE repeats
        /\ timerid_max < MaxTimers
    BY <1>2, <2>1 DEF AddTimer, add_timer
  <2>3. id \in Ids /\ id \in 0..MaxTimers /\ id \notin Added /\ Added' = Added \cup {id}
    BY <1>1, <2>1, <2>2 DEF Added, Ids
  <2>4. TypeInv'
    BY <2>2, <2>3 DEF IInv, TypeInv
  <2>5. ticks[id] = 0 /\ id \notin cancelled
    BY <2>3 DEF IInv, TypeInv
  <2>6. OverInv'
    BY <2>2, <2>5 DEF IInv, OverInv
  <2>7. QED
    BY <2>4, <2>6 DEF IInv
<1>3. ASSUME NEW id \in Ids, Cancel(id) PROVE IInv'
  BY <1>3 DEF Cancel, IInv, TypeInv, OverInv, Added
<1>4. CASE HandleTimer
  BY <1>4, HandleStep
<1>5. CASE OnEventfd
  BY <1>5 DEF OnEventfd, IInv, TypeInv, OverInv, Added
<1>6. ASSUME NEW id \in Ids, OnTimer(id) PROVE IInv'
  BY <1>6 DEF OnTimer, IInv, TypeInv, OverInv, Added
<1>7. CASE UNCHANGED vars
  BY <1>7 DEF vars, IInv, TypeInv, OverInv, Added
<1>8. QED
  BY <1>2, <1>3, <1>4, <1>5, <1>6, <1>7 DEF Next

\* Only the handler of an expiry runs callbacks.
LEMMA OnlyHandlerTicks ==
  ASSUME [Next]_vars
  PROVE  HandleTimer \/ ticks' = ticks
  BY DEF Next, AddTimer, Cancel, OnEventfd, OnTimer, vars

\* Every reachable state satisfies IInv.
THEOREM Invariant == Spec => []IInv
<1>1. QED
  BY InvInit, InvStep, PTL DEF Spec

\* A timer that was cancelled, or has run without repeating, never runs again, whatever
\* expiries its watcher has left in mq2s_ or still makes.
THEOREM OverIsOver == Spec => NoTickWhenOver
<1> DEFINE Silent == \A id \in Ids :
       id \in cancelled \/ (id \notin repeats /\ ticks[id] > 0) => ticks'[id] = ticks[id]
<1>1. IInv /\ [Next]_vars => [Silent]_vars
  <2> SUFFICES ASSUME IInv, [Next]_vars PROVE Silent
    OBVIOUS
  <2>1. CASE ticks' = ticks
    BY <2>1
  <2>2. CASE HandleTimer
    BY <2>2, HandleStep DEF IInv, OverInv
  <2>3. QED
    BY <2>1, <2>2, OnlyHandlerTicks
<1>2. QED
  BY <1>1, Invariant, PTL DEF Spec, NoTickWhenOver
=============================================================================
