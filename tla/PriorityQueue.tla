--------------------------- MODULE PriorityQueue ---------------------------
(***************************************************************************)
(* What Scheduler.js and its model take SchedulerMinHeap.js for: a set of  *)
(* nodes from which only the least can be removed.                         *)
(***************************************************************************)
EXTENDS Integers

CONSTANT Nodes          \* the nodes that may be pushed

VARIABLE queue

(* Strictly less: sortIndex first, then the id.                            *)
Precedes(a, b) == \/ a.sortIndex < b.sortIndex
                  \/ a.sortIndex = b.sortIndex /\ a.id < b.id

IsLeast(n) == n \in queue /\ \A m \in queue \ {n} : Precedes(n, m)

QueueInit == queue = {}

Enqueue == \E n \in Nodes : n \notin queue /\ queue' = queue \cup {n}

Dequeue == \E n \in queue : IsLeast(n) /\ queue' = queue \ {n}

QueueSpec == QueueInit /\ [][Enqueue \/ Dequeue]_queue
=============================================================================
