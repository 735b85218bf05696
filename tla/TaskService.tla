---------------------------- MODULE TaskService ----------------------------
(***************************************************************************)
(* What scheduler/src/forks/Scheduler.js promises the code that uses it,   *)
(* with the heaps, messages and timeouts abstracted away.                  *)
(*                                                                         *)
(* A task is scheduled once, perhaps with a delay; its callback runs after *)
(* the delay, never while another runs; a callback that returns a          *)
(* continuation goes back to waiting, any other is over.  A waiting task   *)
(* can be cancelled.  A waiting task that may run again and again does.    *)
(***************************************************************************)
EXTENDS Integers

CONSTANT Tasks

VARIABLES now, status, notBefore

serviceVars == <<now, status, notBefore>>

ServiceInit ==
  /\ now = 0
  /\ status = [t \in Tasks |-> "absent"]
  /\ notBefore = [t \in Tasks |-> 0]

Schedule(t) ==
  /\ status[t] = "absent"
  /\ status' = [status EXCEPT ![t] = "waiting"]
  /\ notBefore'[t] >= now
  /\ notBefore' = [notBefore EXCEPT ![t] = notBefore'[t]]
  /\ UNCHANGED now

Cancel(t) ==
  /\ status[t] = "waiting"
  /\ status' = [status EXCEPT ![t] = "over"]
  /\ UNCHANGED <<now, notBefore>>

Start(t) ==
  /\ status[t] = "waiting" /\ now >= notBefore[t]
  /\ \A u \in Tasks : status[u] # "running"
  /\ status' = [status EXCEPT ![t] = "running"]
  /\ UNCHANGED <<now, notBefore>>

Return(t) ==
  /\ status[t] = "running"
  /\ \E next \in {"waiting", "over"} : status' = [status EXCEPT ![t] = next]
  /\ UNCHANGED <<now, notBefore>>

Advance == now' > now /\ UNCHANGED <<status, notBefore>>

ServiceNext ==
  \/ \E t \in Tasks : Schedule(t) \/ Cancel(t) \/ Start(t) \/ Return(t)
  \/ Advance

ServiceSpec == ServiceInit /\ [][ServiceNext]_serviceVars

FairSpec == ServiceSpec /\ \A t \in Tasks : SF_serviceVars(Start(t))
=============================================================================
