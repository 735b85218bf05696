------------------------ MODULE MCClassUpdateQueue ------------------------
(***************************************************************************)
(* ClassUpdateQueue for TLC: two transition lanes.  A lane that is not a   *)
(* transition's differs from them only in not being entangled.             *)
(***************************************************************************)
EXTENDS ClassUpdateQueue

CONSTANTS T1, T2

TwoTransitions == {T1, T2}
=============================================================================
