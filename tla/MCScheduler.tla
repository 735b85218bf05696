---------------------------- MODULE MCScheduler ----------------------------
(* A small instance of Scheduler: the values of its constants.             *)
EXTENDS Scheduler

(* An urgent, already expired level and one that has time to yield.        *)
TwoPriorities == {ImmediatePriority, NormalPriority}
=============================================================================
