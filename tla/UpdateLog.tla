----------------------------- MODULE UpdateLog -----------------------------
(***************************************************************************)
(* What an update queue promises a component: its updates are applied in   *)
(* the order they were queued, whatever their priorities, and one that has *)
(* been applied on the screen stays applied.                               *)
(*                                                                         *)
(* A component's state is the sequence of the updates applied to its       *)
(* initial state: any reducer's state is a function of that sequence.      *)
(***************************************************************************)
EXTENDS Naturals, Sequences, Functions

CONSTANTS Lanes

VARIABLES
  log,                  \* log[u]: the lane of the u-th update ever queued
  shown                 \* the updates applied in the state on the screen

Updates == 1..Len(log)

Increasing(s) == \A i \in 1..(Len(s) - 1) : s[i] < s[i + 1]

Queue(lane) ==
  /\ log' = Append(log, lane)
  /\ UNCHANGED shown

(* A render of `lanes' that started when n updates were queued commits.    *)
Commit(lanes, n) ==
  /\ shown' \in Seq(Updates) /\ Increasing(shown')
  /\ Range(shown') = Range(shown) \cup {u \in 1..n : log[u] \in lanes}
  /\ UNCHANGED log

Init == log = <<>> /\ shown = <<>>

Next ==
  \/ \E lane \in Lanes : Queue(lane)
  \/ \E lanes \in SUBSET Lanes, n \in 0..Len(log) : Commit(lanes, n)

LogSpec == Init /\ [][Next]_<<log, shown>>

=============================================================================
