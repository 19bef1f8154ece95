------------------------------ MODULE FifoPipe ------------------------------
(***************************************************************************)
(* What MessageQueue promises its two sides: a one-way pipe.  Messages are *)
(* taken in the order in which they were put, each exactly once, and none  *)
(* that was not put.  mq2s_ (socket thread to workers) and mq2c_ (workers  *)
(* to socket thread) both implement it; see MessageQueue.                  *)
(***************************************************************************)
EXTENDS Naturals, Sequences

CONSTANT Message        \* what can travel through the pipe

VARIABLES
  put,                  \* every message put so far, oldest first
  taken                 \* every message taken so far, oldest first

vars == <<put, taken>>

Init == put = <<>> /\ taken = <<>>

\* One more message at the end, and the earlier ones stay as they are.
Put ==
  /\ put' \in Seq(Message)
  /\ Len(put') = Len(put) + 1
  /\ \A i \in 1..Len(put) : put'[i] = put[i]
  /\ UNCHANGED taken

\* The oldest message that nobody has taken yet leaves the pipe.
Take ==
  /\ Len(taken) < Len(put)
  /\ taken' = Append(taken, put[Len(taken) + 1])
  /\ UNCHANGED put

Next == Put \/ Take

Spec == Init /\ [][Next]_vars
=============================================================================
