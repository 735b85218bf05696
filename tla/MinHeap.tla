------------------------------ MODULE MinHeap ------------------------------
(***************************************************************************)
(* The binary min heap of scheduler/src/SchedulerMinHeap.js, an array of   *)
(* nodes, one iteration of siftUp's and siftDown's loop per step.          *)
(*                                                                         *)
(* The code's indexes start at 0: At(i) is heap[i].  While pc is "siftUp"  *)
(* or "siftDown" the call that pushed or popped is still on the stack, and *)
(* `index' is the loop's index, where `node' sits.                         *)
(***************************************************************************)
EXTENDS Integers, Sequences

CONSTANTS
  SortIndexes,          \* the sort indexes nodes are pushed with
  MaxPushes             \* bound: nodes ever pushed

ASSUME SortIndexesAssumption == SortIndexes \subseteq Int
ASSUME MaxPushesAssumption == MaxPushes \in Nat

VARIABLES heap, nextId, index, pc

vars == <<heap, nextId, index, pc>>

Nodes == [id : 1..MaxPushes, sortIndex : SortIndexes]

At(i) == heap[i + 1]
Length == Len(heap)

(* compare(a, b) < 0 and compare(a, b) > 0.                                *)
Less(a, b) == \/ a.sortIndex < b.sortIndex
              \/ a.sortIndex = b.sortIndex /\ a.id < b.id

Parent(i) == (i - 1) \div 2
Left(i)  == 2 * i + 1
Right(i) == 2 * i + 2

-----------------------------------------------------------------------------
(* Mutant: index is read after heap.push(node).                            *)
PushReadsIndexLate(sortIndex) ==
  /\ pc = "ready"
  /\ nextId <= MaxPushes
  /\ heap' = Append(heap, [id |-> nextId, sortIndex |-> sortIndex])
  /\ nextId' = nextId + 1
  /\ index' = Length + 1
  /\ pc' = "siftUp"

Push(sortIndex) ==
  /\ pc = "ready"
  /\ nextId <= MaxPushes
  /\ heap' = Append(heap, [id |-> nextId, sortIndex |-> sortIndex])
  /\ nextId' = nextId + 1
  /\ index' = Length
  /\ pc' = "siftUp"

(* pop's last !== first: with one node left it only shortens the array.    *)
Pop ==
  /\ pc = "ready"
  /\ Length > 0
  /\ IF Length = 1
       THEN heap' = <<>> /\ UNCHANGED <<index, pc>>
       ELSE /\ heap' = [i \in 1..(Length - 1) |->
                          IF i = 1 THEN heap[Length] ELSE heap[i]]
            /\ index' = 0
            /\ pc' = "siftDown"
  /\ UNCHANGED nextId

(* Mutant: the node that is displaced is not written back.                 *)
SwapOverwrites(i) ==
  /\ heap' = [heap EXCEPT ![i + 1] = At(index)]
  /\ index' = i
  /\ UNCHANGED <<nextId, pc>>

(* heap[i] = heap[index]; heap[index] = heap[i]; index = i, at once.       *)
Swap(i) ==
  /\ heap' = [heap EXCEPT ![index + 1] = At(i), ![i + 1] = At(index)]
  /\ index' = i
  /\ UNCHANGED <<nextId, pc>>

Return == pc' = "ready" /\ index' = 0 /\ UNCHANGED <<heap, nextId>>

MustRise == index > 0 /\ Less(At(index), At(Parent(index)))

SiftUp ==
  /\ pc = "siftUp"
  /\ IF MustRise THEN Swap(Parent(index)) ELSE Return

(* Mutant: the right child is never looked at.                             *)
LeftChild == Left(index)

(* The child that siftDown swaps the node with, if the node exceeds it.    *)
SmallerChild ==
  IF Right(index) < Length /\ Less(At(Right(index)), At(Left(index)))
    THEN Right(index) ELSE Left(index)

(* index < halfLength says that a left child exists.                       *)
MustSink ==
  /\ index < Length \div 2
  /\ \/ Less(At(Left(index)), At(index))
     \/ Right(index) < Length /\ Less(At(Right(index)), At(index))

SiftDown ==
  /\ pc = "siftDown"
  /\ IF MustSink THEN Swap(SmallerChild) ELSE Return

Init == heap = <<>> /\ nextId = 1 /\ index = 0 /\ pc = "ready"

Next == (\E s \in SortIndexes : Push(s)) \/ Pop \/ SiftUp \/ SiftDown

Spec == Init /\ [][Next]_vars

-----------------------------------------------------------------------------
TypeOK ==
  /\ heap \in Seq(Nodes)
  /\ nextId \in 1..(MaxPushes + 1)
  /\ index \in Nat
  /\ pc \in {"ready", "siftUp", "siftDown"}
  /\ pc = "ready" => index = 0
  /\ pc # "ready" => index < Length

(* Between calls no node precedes its parent, so heap[0], what peek        *)
(* returns, is least.  A sift that stops a level early breaks it.          *)
HeapOrdered ==
  pc = "ready" =>
    \A i \in 1..(Length - 1) : ~Less(At(i), At(Parent(i)))

(* Only pushes and pops change which nodes are in the heap, and pop takes  *)
(* the least: the heap implements the priority queue.                      *)
Queue == INSTANCE PriorityQueue WITH
           queue <- {heap[i] : i \in 1..Length}

ImplementsPriorityQueue == Queue!QueueSpec
=============================================================================
