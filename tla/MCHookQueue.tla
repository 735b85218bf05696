---------------------------- MODULE MCHookQueue ----------------------------
(***************************************************************************)
(* HookQueue for TLC: the events are discrete ones and transitions.        *)
(***************************************************************************)
EXTENDS HookQueue

DiscreteEvents == {SyncLane}

AddOrReset == {"add", "reset"}
OnlyAdd == {"add"}

(* All that the code does, but the step that loses an update: a run of its *)
(* own shows that one (EagerStateIsCurrent).                               *)
CurrentNext == Next /\ AppliesToCurrentState

CurrentSpec == Init /\ [][CurrentNext]_vars /\ Fairness
=============================================================================
