--------------------------- MODULE OptimisticLog ---------------------------
(***************************************************************************)
(* What useState and useOptimistic promise a component.  The state on the  *)
(* screen is that of the updates shown so far, in the order of the calls,  *)
(* whatever their priorities.  The optimistic value is that state with the *)
(* optimistic updates on top, until each is dropped with the transition it *)
(* was made for; that transition's updates to the state appear in the same *)
(* commit.                                                                 *)
(***************************************************************************)
EXTENDS Naturals, Sequences, SequencesExt

CONSTANTS
  Hooks, NoLane,
  Reduce(_, _)          \* the state after an update

VARIABLES
  log,                  \* the updates, in the order they were dispatched
  status,               \* of each: "queued", "shown" or "dropped"
  state, optimistic     \* the values on the screen

(* What the first n updates make of a hook's base, if all are applied that *)
(* are shown.                                                              *)
Applied(base, updates, statuses, h, n) ==
  LET after[u \in 0..n] ==
        IF u = 0 THEN base
        ELSE IF updates[u].hook = h /\ statuses[u] = "shown"
               THEN Reduce(after[u - 1], updates[u]) ELSE after[u - 1]
  IN  after[n]

StateOf(updates, statuses) == Applied(<<>>, updates, statuses, "state", Len(updates))

OptimisticOf(updates, statuses) ==
  Applied(StateOf(updates, statuses), updates, statuses, "optimistic", Len(updates))

(* An update that changes nothing may be taken for shown at once.          *)
Dispatch ==
  \E s \in {"queued", "shown"} :
    /\ Len(log') = Len(log) + 1 /\ Front(log') = log
    /\ status' = Append(status, s)
    /\ UNCHANGED <<state, optimistic>>

(* A render of `lanes' that started when n updates were dispatched: if the *)
(* component has no work it is skipped, only other components are updated. *)
Commit(lanes, n, skipped) ==
  /\ status' = [u \in DOMAIN log |->
       IF u > n \/ status[u] = "dropped" \/ log[u].hook \in skipped THEN status[u]
       ELSE IF log[u].revertLane \in lanes THEN "dropped"
       ELSE IF log[u].lane \in lanes THEN "shown"
       ELSE status[u]]
  /\ UNCHANGED log

Lanes == (UNION {{log[u].lane, log[u].revertLane} : u \in DOMAIN log}) \ {NoLane}

Init == log = <<>> /\ status = <<>> /\ state = <<>> /\ optimistic = <<>>

Next ==
  /\ \/ Dispatch
     \/ \E lanes \in SUBSET Lanes, n \in 0..Len(log), skipped \in {{}, Hooks} :
          Commit(lanes, n, skipped)
  /\ state' = StateOf(log', status')
  /\ optimistic' = OptimisticOf(log', status')

LogSpec == Init /\ [][Next]_<<log, status, state, optimistic>>
=============================================================================
