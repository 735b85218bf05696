---------------------------- MODULE AsyncAction ----------------------------
(***************************************************************************)
(* ReactFiberAsyncAction.js: the scope that entangles overlapping async    *)
(* actions.  The module's variables are a record: the operators map it to  *)
(* the next one.  `listeners' are those of the scope's thenable, which     *)
(* only the work loop subscribes to: a listener is the set of lanes that   *)
(* it will ping.                                                           *)
(***************************************************************************)
EXTENDS Integers

NoLane == 99

(* currentEntangledListeners === null.                                     *)
NoScope == [lane |-> NoLane, pendingCount |-> 0, listeners |-> {}]

IsOpen(scope) == scope.lane # NoLane

(* Mutant: an action that joins the scope makes new listeners for it.      *)
EntangleAnew(scope, requestedLane) ==
  IF IsOpen(scope)
    THEN [scope EXCEPT !.pendingCount = @ + 1, !.listeners = {}]
    ELSE [lane |-> requestedLane, pendingCount |-> 1, listeners |-> {}]

(* The function given to startTransition has returned a promise: it joins  *)
(* the open scope, or opens one with the lane of the event's transitions.  *)
EntangleAsyncAction(scope, requestedLane) ==
  IF IsOpen(scope)
    THEN [scope EXCEPT !.pendingCount = @ + 1]
    ELSE [lane |-> requestedLane, pendingCount |-> 1, listeners |-> {}]

(* An action has settled.  The last one closes the scope; the listeners    *)
(* are called after it is closed.                                          *)
PingEntangledActionScope(scope) ==
  IF scope.pendingCount = 1
    THEN NoScope
    ELSE [scope EXCEPT !.pendingCount = @ - 1]

(* attachPingListener, once for the same lanes.                            *)
Listen(scope, lanes) == [scope EXCEPT !.listeners = @ \cup {lanes}]
=============================================================================
