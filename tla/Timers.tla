------------------------------- MODULE Timers -------------------------------
(***************************************************************************)
(* A script timer on its way through the server: TimerManager (Timer.py)   *)
(* registers it with add_timer, MQ2C_Push_Timer gives it an id, OnEventfd  *)
(* starts a libev watcher and records it in timer_map_, the watcher's      *)
(* OnTimer pushes the id back, and TimerManager.onTimer runs the callback. *)
(*                                                                         *)
(* One worker runs the scripts.  Time is left out: a started watcher may   *)
(* expire at any moment.  add_timer lacks a return statement; the build    *)
(* is not optimised and leaves the new object in the return register, so   *)
(* the script gets the id.                                                 *)
(***************************************************************************)
EXTENDS Naturals, Sequences, FiniteSets

CONSTANTS
  MaxTimers,            \* bound: timers the scripts add
  MaxPending,           \* bound: expiries waiting in mq2s_
  MaxTicks              \* callbacks are counted up to this number

ASSUME BoundAssumption ==
  MaxTimers \in Nat \ {0} /\ MaxPending \in Nat \ {0} /\ MaxTicks \in Nat \ {0, 1}

VARIABLES
  timerid_max,          \* timerid_max_
  mq2c, mq2s,           \* the TIMER messages in the two lists
  timer_map,            \* timer_map_: a partial function from keys to timers
  active,               \* timers whose libev watcher is started
  timers,               \* TimerManager.timers: the ids with a proxy
  repeats,              \* ids added with repeat_sec > 0
  ticks,                \* how often each callback ran
  cancelled,            \* ids that cancel was called for
  lost                  \* ids whose expiry OnTimer could not find in timer_map_

vars == <<timerid_max, mq2c, mq2s, timer_map, active, timers, repeats, ticks,
          cancelled, lost>>

Ids == 1..MaxTimers

Init ==
  /\ timerid_max = 0
  /\ mq2c = <<>> /\ mq2s = <<>>
  /\ timer_map = <<>>
  /\ active = {} /\ timers = {} /\ repeats = {}
  /\ ticks = [id \in Ids |-> 0]
  /\ cancelled = {} /\ lost = {}
-----------------------------------------------------------------------------
(***************************************************************************)
(* Worker: the scripts.                                                    *)
(***************************************************************************)
\* py2cpp.add_timer, add_timer of game_py2cpp.cpp, MQ2C_Push_Timer: a new id, on its
\* way to the socket thread.
add_timer(repeat) ==
  /\ timerid_max' = timerid_max + 1
  /\ mq2c' = Append(mq2c, timerid_max + 1)
  /\ repeats' = IF repeat THEN repeats \cup {timerid_max + 1} ELSE repeats

\* TimerProxy: addTimer or addRepeatTimer.
AddTimer(repeat) ==
  /\ timerid_max < MaxTimers
  /\ add_timer(repeat)
  /\ timers' = timers \cup {timerid_max'}
  /\ UNCHANGED <<mq2s, timer_map, active, ticks, cancelled, lost>>

\* Mutant: the proxy is kept.
Cancel_KeepProxy(id) ==
  /\ id \in 1..timerid_max /\ id \notin cancelled
  /\ cancelled' = cancelled \cup {id}
  /\ UNCHANGED <<timerid_max, mq2c, mq2s, timer_map, active, timers, repeats, ticks, lost>>

\* TimerProxy.cancel: delTimer drops the proxy, then fails, since py2cpp has no
\* del_timer; the watcher goes on.
Cancel(id) ==
  /\ id \in 1..timerid_max /\ id \notin cancelled
  /\ timers' = timers \ {id}
  /\ cancelled' = cancelled \cup {id}
  /\ UNCHANGED <<timerid_max, mq2c, mq2s, timer_map, active, repeats, ticks, lost>>

\* TimerManager.onTimer.
onTimer(id) ==
  IF id \in timers
    THEN /\ timers' = IF id \in repeats THEN timers ELSE timers \ {id}
         /\ ticks' = [ticks EXCEPT ![id] = IF @ < MaxTicks THEN @ + 1 ELSE @]
    ELSE UNCHANGED <<timers, ticks>>

\* MQ_TYPE_TIMER in GameWorker: cpp2py's and pymain's OnTimer.
HandleTimer ==
  /\ mq2s # <<>>
  /\ onTimer(Head(mq2s))
  /\ mq2s' = Tail(mq2s)
  /\ UNCHANGED <<timerid_max, mq2c, timer_map, active, repeats, cancelled, lost>>
-----------------------------------------------------------------------------
(***************************************************************************)
(* Socket thread.                                                          *)
(***************************************************************************)
\* Mutant: the watcher is not started.
OnEventfd_NotStarted ==
  /\ mq2c # <<>>
  /\ timer_map' = [key \in DOMAIN timer_map \cup {1} |->
                     IF key \in DOMAIN timer_map THEN timer_map[key] ELSE Head(mq2c)]
  /\ mq2c' = Tail(mq2c)
  /\ UNCHANGED <<timerid_max, mq2s, active, timers, repeats, ticks, cancelled, lost>>

\* OnEventfd, MQ_TYPE_TIMER: map::insert under the key 1, which does nothing if
\* the key is there; the watcher is started all the same.
OnEventfd ==
  /\ mq2c # <<>>
  /\ timer_map' = [key \in DOMAIN timer_map \cup {1} |->
                     IF key \in DOMAIN timer_map THEN timer_map[key] ELSE Head(mq2c)]
  /\ active' = active \cup {Head(mq2c)}
  /\ mq2c' = Tail(mq2c)
  /\ UNCHANGED <<timerid_max, mq2s, timers, repeats, ticks, cancelled, lost>>

\* Timer::Repeat.
Repeat(id) == id \in repeats

Known(id) == \E key \in DOMAIN timer_map : timer_map[key] = id

\* OnTimer: the timer is looked up by its watcher, and one that does not repeat
\* is erased under its id.  libev stops the watcher of such a timer.
OnTimer(id) ==
  /\ id \in active /\ (Known(id) => Len(mq2s) < MaxPending)
  /\ active' = IF Repeat(id) THEN active ELSE active \ {id}
  /\ IF Known(id)
       THEN /\ mq2s' = Append(mq2s, id)
            /\ timer_map' = IF Repeat(id) THEN timer_map
                            ELSE [key \in DOMAIN timer_map \ {id} |-> timer_map[key]]
            /\ UNCHANGED lost
       ELSE /\ lost' = lost \cup {id}
            /\ UNCHANGED <<mq2s, timer_map>>
  /\ UNCHANGED <<timerid_max, mq2c, timers, repeats, ticks, cancelled>>
-----------------------------------------------------------------------------
Next ==
  \/ \E repeat \in BOOLEAN : AddTimer(repeat)
  \/ \E id \in Ids : Cancel(id)
  \/ HandleTimer
  \/ OnEventfd
  \/ \E id \in Ids : OnTimer(id)

Spec == Init /\ [][Next]_vars

\* Both threads keep running, and every started watcher expires.
Fairness ==
  WF_vars(HandleTimer) /\ WF_vars(OnEventfd) /\ \A id \in Ids : WF_vars(OnTimer(id))

FairSpec == Spec /\ Fairness
-----------------------------------------------------------------------------
(***************************************************************************)
(* Properties.                                                             *)
(***************************************************************************)
\* A timer that was cancelled, or that was added without repeat_sec and has run,
\* never runs its callback again, although its watcher goes on, an expiry may be in
\* mq2s_ already and its entry may stay in timer_map_ for ever.
NoTickWhenOver ==
  [][\A id \in Ids :
       id \in cancelled \/ (id \notin repeats /\ ticks[id] > 0) => ticks'[id] = ticks[id]]_vars

\* The first timer runs its callback, unless it is cancelled, and so does every
\* later one, unless it found its place in timer_map_ taken.
TimersServed ==
  \A id \in Ids :
    timerid_max >= id ~> ticks[id] >= 1 \/ id \in cancelled \/ (id > 1 /\ id \in lost)

\* py2cpp.add_timer registers a timer: every timer runs its callback at least
\* once, unless it is cancelled.
EveryTimerTicks == \A id \in Ids : timerid_max >= id ~> ticks[id] >= 1 \/ id \in cancelled
=============================================================================
