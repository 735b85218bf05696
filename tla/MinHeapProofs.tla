--------------------------- MODULE MinHeapProofs ---------------------------
(***************************************************************************)
(* The array heap of SchedulerMinHeap.js keeps its order and implements    *)
(* the priority queue, whatever is pushed and popped and however often.    *)
(***************************************************************************)
EXTENDS MinHeap, SequenceTheorems, WellFoundedInduction, TLAPS

InOrder(i) == ~Less(At(i), At(Parent(i)))

(* During a sift only the node in motion may be out of order, towards its  *)
(* parent (siftUp) or its children (siftDown), and the latter are in order *)
(* with its parent.                                                        *)
SiftOrdered ==
  /\ pc = "siftUp" =>
       \A i \in 1..(Length - 1) : i # index => InOrder(i)
  /\ pc = "siftDown" =>
       \A i \in 1..(Length - 1) : Parent(i) # index => InOrder(i)
  /\ pc # "ready" /\ index > 0 =>
       \A i \in 1..(Length - 1) :
         Parent(i) = index => ~Less(At(i), At(Parent(index)))

(* Every node is in the array once.                                        *)
NodesDistinct ==
  /\ \A i \in 1..Length : heap[i].id < nextId
  /\ \A i, j \in 1..Length : heap[i].id = heap[j].id => i = j

HeapInv == TypeOK /\ NodesDistinct /\ HeapOrdered /\ SiftOrdered

-----------------------------------------------------------------------------
LEMMA NodeType ==
  ASSUME TypeOK, NEW i \in 0..(Length - 1)
  PROVE  At(i) \in Nodes /\ At(i).id \in Nat /\ At(i).sortIndex \in Int
<1>1. i + 1 \in 1..Len(heap)
  BY LenProperties DEF TypeOK, Length
<1>2. At(i) \in Nodes
  BY <1>1, ElementOfSeq DEF TypeOK, At
<1>3. ASSUME NEW n \in Nodes  PROVE n.id \in Nat /\ n.sortIndex \in Int
  <2>1. n.id \in 1..MaxPushes /\ n.sortIndex \in SortIndexes
    BY DEF Nodes
  <2>2. n.sortIndex \in Int
    BY <2>1, SortIndexesAssumption, Zenon
  <2>. QED  BY <2>1, <2>2, MaxPushesAssumption
<1>. QED  BY <1>2, <1>3

(* The family of a node in the array.                                      *)
LEMMA ParentFacts ==
  ASSUME NEW i \in Nat \ {0}
  PROVE  /\ Parent(i) \in Nat /\ Parent(i) < i
         /\ \A k \in Nat : Parent(i) = k <=> i = Left(k) \/ i = Right(k)
BY DEF Parent, Left, Right

(* Less is a strict total order on nodes with distinct ids.                *)
LEMMA LessIsOrder ==
  ASSUME NEW a \in [id : Nat, sortIndex : Int],
         NEW b \in [id : Nat, sortIndex : Int],
         NEW c \in [id : Nat, sortIndex : Int]
  PROVE  /\ ~Less(a, a)
         /\ Less(a, b) => ~Less(b, a)
         /\ ~Less(a, b) /\ ~Less(b, c) => ~Less(a, c)
         /\ Less(a, b) /\ Less(b, c) => Less(a, c)
         /\ a.id # b.id => Less(a, b) \/ Less(b, a)
BY DEF Less

LEMMA NextTypeOK == TypeOK /\ [Next]_vars => TypeOK'
<1>. SUFFICES ASSUME TypeOK, [Next]_vars  PROVE TypeOK'
  OBVIOUS
<1>. USE MaxPushesAssumption DEF TypeOK, Length
<1>1. ASSUME NEW s \in SortIndexes, Push(s)  PROVE TypeOK'
  <2>. DEFINE new == [id |-> nextId, sortIndex |-> s]
  <2>1. new \in Nodes
    BY <1>1 DEF Push, Nodes
  <2>2. heap' \in Seq(Nodes) /\ Len(heap') = Len(heap) + 1
    BY <1>1, <2>1, AppendProperties DEF Push
  <2>3. Len(heap) \in Nat
    BY LenProperties
  <2>. QED  BY <1>1, <2>2, <2>3 DEF Push
<1>2. CASE Pop
  <2>1. CASE Len(heap) = 1
    <3>1. heap' = <<>> /\ pc' = "ready" /\ index' = 0 /\ nextId' = nextId
      BY <1>2, <2>1 DEF Pop
    <3>2. heap' \in Seq(Nodes)
      BY <3>1, EmptySeq
    <3>. QED  BY <3>1, <3>2 DEF TypeOK
  <2>2. CASE Len(heap) # 1
    <3>1. Len(heap) \in Nat /\ Len(heap) > 1
      <4>. DEFINE n == Len(heap)
      <4>1. n \in Nat /\ n > 0
        BY <1>2, LenProperties DEF Pop
      <4>2. n # 1
        BY <2>2
      <4>. HIDE DEF n
      <4>3. n > 1
        BY <4>1, <4>2
      <4>. QED  BY <4>1, <4>3 DEF n
    <3>2. heap' = [i \in 1..(Len(heap) - 1) |->
                     IF i = 1 THEN heap[Len(heap)] ELSE heap[i]]
      BY <1>2, <2>2 DEF Pop
    <3>3. heap' \in Seq(Nodes) /\ Len(heap') = Len(heap) - 1
      BY <3>1, <3>2
    <3>. QED  BY <1>2, <2>2, <3>1, <3>3 DEF Pop
  <2>. QED  BY <2>1, <2>2
<1>3. ASSUME NEW i \in 0..(Len(heap) - 1), Swap(i), pc # "ready"
      PROVE TypeOK'
  <2>1. heap' \in Seq(Nodes) /\ Len(heap') = Len(heap)
    BY <1>3 DEF Swap, At
  <2>. QED  BY <1>3, <2>1 DEF Swap
<1>4. CASE Return
  BY <1>4 DEF Return
<1>5. CASE SiftUp
  <2>1. MustRise => Parent(index) \in 0..(Len(heap) - 1)
    BY <1>5, ParentFacts DEF MustRise, SiftUp
  <2>. QED  BY <1>3, <1>4, <1>5, <2>1 DEF SiftUp
<1>6. CASE SiftDown
  <2>1. MustSink => SmallerChild \in 0..(Len(heap) - 1)
    BY DEF MustSink, SmallerChild, Left, Right
  <2>. QED  BY <1>3, <1>4, <1>6, <2>1 DEF SiftDown
<1>7. CASE UNCHANGED vars
  BY <1>7 DEF vars
<1>. QED  BY <1>1, <1>2, <1>5, <1>6, <1>7 DEF Next

(* The array, the index and the control state are always well-typed.       *)
THEOREM MinHeapTypeOK == Spec => []TypeOK
<1>1. Init => TypeOK
  BY MaxPushesAssumption, EmptySeq DEF Init, TypeOK
<1>. QED  BY <1>1, NextTypeOK, PTL DEF Spec

-----------------------------------------------------------------------------
(* The order of the nodes at three places of the array.                    *)
LEMMA OrderInArray ==
  ASSUME TypeOK, NEW i \in 0..(Length - 1), NEW j \in 0..(Length - 1),
         NEW k \in 0..(Length - 1)
  PROVE  /\ Less(At(i), At(j)) => ~Less(At(j), At(i))
         /\ ~Less(At(i), At(j)) /\ ~Less(At(j), At(k)) => ~Less(At(i), At(k))
         /\ ~Less(At(i), At(i))
<1>1. /\ At(i).id \in Nat /\ At(i).sortIndex \in Int
      /\ At(j).id \in Nat /\ At(j).sortIndex \in Int
      /\ At(k).id \in Nat /\ At(k).sortIndex \in Int
  BY NodeType
<1>. QED  BY <1>1 DEF Less

(* What Swap does to the array, read through heap[i].                      *)
LEMMA SwapEffect ==
  ASSUME TypeOK, pc # "ready", NEW i \in 0..(Length - 1), i # index, Swap(i)
  PROVE  /\ Length' = Length /\ index' = i /\ pc' = pc /\ nextId' = nextId
         /\ \A k \in 0..(Length - 1) :
              At(k)' = IF k = index THEN At(i)
                       ELSE IF k = i THEN At(index) ELSE At(k)
<1>1. /\ heap \in [1..Length -> Nodes] /\ Length \in Nat
  BY LenProperties DEF TypeOK, Length
<1>2. index + 1 \in 1..Length /\ i + 1 \in 1..Length
  BY <1>1 DEF TypeOK
<1>3. heap' = [heap EXCEPT ![index + 1] = At(i), ![i + 1] = At(index)]
  BY DEF Swap
<1>4. Length' = Length
  BY <1>3, <1>1 DEF Length, TypeOK
<1>. QED  BY <1>1, <1>2, <1>3, <1>4 DEF Swap, TypeOK, At

LEMMA LengthType == TypeOK => Length \in Nat /\ heap \in [1..Length -> Nodes]
BY LenProperties DEF TypeOK, Length

(* One step of siftUp moves the disorder one level up, or finds none.      *)
LEMMA SiftUpKeepsOrder ==
  ASSUME HeapInv, TypeOK', SiftUp
  PROVE  HeapOrdered' /\ SiftOrdered'
<1>. USE DEF HeapInv
<1>0. Length \in Nat /\ index \in 0..(Length - 1) /\ pc = "siftUp"
  BY LengthType DEF TypeOK, SiftUp
<1>1. CASE ~MustRise
  <2>1. UNCHANGED heap /\ pc' = "ready"
    BY <1>1 DEF SiftUp, Return
  <2>2. \A i \in 1..(Length - 1) : InOrder(i)
    BY <1>0, <1>1 DEF SiftOrdered, MustRise, InOrder
  <2>3. Length' = Length /\ \A i \in Int : At(i)' = At(i)
    BY <2>1 DEF Length, At
  <2>4. HeapOrdered'
    <3>1. ASSUME NEW i \in 1..(Length - 1)  PROVE ~Less(At(i)', At(Parent(i))')
      BY <1>0, <2>2, <2>3, ParentFacts DEF InOrder
    <3>. QED  BY <2>3, <3>1 DEF HeapOrdered, Less
  <2>. QED  BY <2>1, <2>4 DEF SiftOrdered
<1>2. CASE MustRise
  <2>0. PICK p \in Int : p = Parent(index)
    BY <1>0 DEF Parent
  <2>1. /\ index > 0 /\ Less(At(index), At(p)) /\ Swap(p)
        /\ p \in 0..(Length - 1) /\ p < index
    BY <1>0, <1>2, <2>0, ParentFacts DEF MustRise, SiftUp
  <2>2. /\ Length' = Length /\ index' = p /\ pc' = "siftUp"
        /\ \A k \in 0..(Length - 1) :
             At(k)' = IF k = index THEN At(p)
                      ELSE IF k = p THEN At(index) ELSE At(k)
    BY <1>0, <2>1, SwapEffect
  <2>3. ASSUME NEW i \in 1..(Length - 1), i # p
        PROVE  ~Less(At(i)', At(Parent(i))')
    <3>. DEFINE q == Parent(i)
    <3>1. q \in 0..(Length - 1) /\ q < i
      BY <1>0, ParentFacts
    <3>2. CASE i = index
      <4>1. At(i)' = At(p) /\ At(q)' = At(index)
        BY <1>0, <2>0, <2>1, <2>2, <3>2
      <4>. QED  BY <4>1, <2>1, <1>0, OrderInArray
    <3>3. CASE i # index /\ q = index
      <4>1. At(i)' = At(i) /\ At(q)' = At(p)
        BY <1>0, <2>1, <2>2, <2>3, <3>3
      <4>2. ~Less(At(i), At(p))
        BY <1>0, <2>0, <2>1, <3>3 DEF SiftOrdered
      <4>. QED  BY <4>1, <4>2
    <3>4. CASE i # index /\ q = p
      <4>1. At(i)' = At(i) /\ At(q)' = At(index)
        BY <1>0, <2>1, <2>2, <2>3, <3>4
      <4>2. ~Less(At(i), At(p))
        BY <1>0, <3>4 DEF SiftOrdered, InOrder
      <4>3. ~Less(At(p), At(index))
        BY <1>0, <2>1, OrderInArray
      <4>4. i \in 0..(Length - 1)
        BY <1>0
      <4>. QED  BY <1>0, <2>1, <4>1, <4>2, <4>3, <4>4, OrderInArray
    <3>5. CASE i # index /\ q # index /\ q # p
      <4>1. At(i)' = At(i) /\ At(q)' = At(q)
        BY <1>0, <2>1, <2>2, <2>3, <3>1, <3>5
      <4>. QED  BY <1>0, <4>1, <3>5 DEF SiftOrdered, InOrder
    <3>. QED  BY <3>2, <3>3, <3>4, <3>5
  <2>4. ASSUME p > 0, NEW i \in 1..(Length - 1), Parent(i) = p
        PROVE  ~Less(At(i)', At(Parent(p))')
    <3>. DEFINE r == Parent(p)
    <3>1. r \in 0..(Length - 1) /\ r < p /\ p < i
      BY <2>1, <2>4, <1>0, ParentFacts
    <3>2. At(r)' = At(r)
      BY <2>1, <2>2, <3>1
    <3>3. ~Less(At(p), At(r))
      BY <1>0, <2>1, <2>4 DEF SiftOrdered, InOrder
    <3>4. CASE i = index
      BY <1>0, <2>2, <3>2, <3>3, <3>4
    <3>5. CASE i # index
      <4>1. At(i)' = At(i) /\ i \in 0..(Length - 1)
        BY <1>0, <2>2, <3>1, <3>5
      <4>2. ~Less(At(i), At(p))
        BY <1>0, <2>4, <3>5 DEF SiftOrdered, InOrder
      <4>. QED  BY <2>1, <3>1, <3>2, <3>3, <4>1, <4>2, OrderInArray
    <3>. QED  BY <3>4, <3>5
  <2>5. HeapOrdered'
    BY <2>2 DEF HeapOrdered
  <2>6. SiftOrdered'
    BY <2>2, <2>3, <2>4 DEF SiftOrdered, InOrder
  <2>. QED  BY <2>5, <2>6
<1>. QED  BY <1>1, <1>2

(* One step of siftDown moves the disorder one level down, or finds none.  *)
LEMMA SiftDownKeepsOrder ==
  ASSUME HeapInv, TypeOK', SiftDown
  PROVE  HeapOrdered' /\ SiftOrdered'
<1>. USE DEF HeapInv
<1>0. Length \in Nat /\ index \in 0..(Length - 1) /\ pc = "siftDown"
  BY LengthType DEF TypeOK, SiftDown
<1>1. CASE ~MustSink
  <2>1. UNCHANGED heap /\ pc' = "ready"
    BY <1>1 DEF SiftDown, Return
  <2>2. ASSUME NEW i \in 1..(Length - 1)  PROVE InOrder(i)
    <3>1. CASE Parent(i) # index
      BY <1>0, <3>1 DEF SiftOrdered
    <3>2. CASE Parent(i) = index
      <4>1. i = Left(index) \/ i = Right(index)
        BY <1>0, <3>2, ParentFacts
      <4>2. index < Length \div 2
        BY <1>0, <4>1 DEF Left, Right
      <4>3. CASE i = Left(index)
        BY <1>1, <3>2, <4>2, <4>3 DEF MustSink, InOrder
      <4>4. CASE i = Right(index)
        <5>1. Right(index) < Length
          BY <1>0, <4>4
        <5>. QED  BY <1>1, <3>2, <4>2, <4>4, <5>1 DEF MustSink, InOrder
      <4>. QED  BY <4>1, <4>3, <4>4
    <3>. QED  BY <3>1, <3>2
  <2>3. Length' = Length /\ \A i \in Int : At(i)' = At(i)
    BY <2>1 DEF Length, At
  <2>4. HeapOrdered'
    <3>1. ASSUME NEW i \in 1..(Length - 1)  PROVE ~Less(At(i)', At(Parent(i))')
      BY <1>0, <2>2, <2>3, ParentFacts DEF InOrder
    <3>. QED  BY <2>3, <3>1 DEF HeapOrdered, Less
  <2>. QED  BY <2>1, <2>4 DEF SiftOrdered
<1>2. CASE MustSink
  <2>0. PICK c \in Int : c = SmallerChild
    BY <1>0 DEF SmallerChild, Left, Right
  <2>1. /\ c \in 1..(Length - 1) /\ Parent(c) = index /\ index < c
        /\ Swap(c)
    <3>1. Left(index) \in 1..(Length - 1)
      BY <1>0, <1>2 DEF MustSink, Left
    <3>2. c \in 1..(Length - 1) /\ index < c
      BY <1>0, <2>0, <3>1 DEF SmallerChild, Left, Right
    <3>3. Parent(c) = index
      BY <1>0, <2>0, <3>2, ParentFacts DEF SmallerChild
    <3>. QED  BY <1>2, <2>0, <3>2, <3>3 DEF SiftDown
  <2>2. /\ Length' = Length /\ index' = c /\ pc' = "siftDown"
        /\ \A k \in 0..(Length - 1) :
             At(k)' = IF k = index THEN At(c)
                      ELSE IF k = c THEN At(index) ELSE At(k)
    BY <1>0, <2>1, SwapEffect
  <2>3. ASSUME NEW i \in 1..(Length - 1), Parent(i) = index
        PROVE  ~Less(At(i), At(c))
    <3>1. /\ i = Left(index) \/ i = Right(index)
          /\ Left(index) \in 0..(Length - 1)
          /\ i \in 0..(Length - 1) /\ c \in 0..(Length - 1)
      BY <1>0, <2>1, <2>3, ParentFacts DEF Left, Right
    <3>2. CASE Right(index) < Length /\ Less(At(Right(index)), At(Left(index)))
      <4>1. c = Right(index)
        BY <2>0, <3>2 DEF SmallerChild
      <4>. QED  BY <3>1, <3>2, <4>1, OrderInArray
    <3>3. CASE ~(Right(index) < Length /\ Less(At(Right(index)), At(Left(index))))
      <4>1. c = Left(index)
        BY <2>0, <3>3 DEF SmallerChild
      <4>2. i = Right(index) => ~Less(At(i), At(c))
        BY <1>0, <3>3, <4>1
      <4>. QED  BY <3>1, <4>1, <4>2, OrderInArray
    <3>. QED  BY <3>2, <3>3
  <2>4. Less(At(c), At(index))
    <3>1. /\ Left(index) \in 0..(Length - 1)
          /\ Right(index) < Length => Right(index) \in 0..(Length - 1)
          /\ Length \in Nat
      BY <1>0, <1>2 DEF MustSink, Left, Right
    <3>2. CASE Less(At(Left(index)), At(index))
      <4>1. Parent(Left(index)) = index /\ Left(index) \in 1..(Length - 1)
        BY <1>0, <3>1, ParentFacts DEF Left
      <4>2. ~Less(At(Left(index)), At(c))
        BY <2>3, <4>1
      <4>3. c \in 0..(Length - 1)
        BY <1>0, <2>1
      <4>. QED  BY <1>0, <3>1, <3>2, <4>2, <4>3, OrderInArray
    <3>3. CASE Right(index) < Length /\ Less(At(Right(index)), At(index))
      <4>1. Parent(Right(index)) = index /\ Right(index) \in 1..(Length - 1)
        BY <1>0, <3>1, <3>3, ParentFacts DEF Right
      <4>2. ~Less(At(Right(index)), At(c))
        BY <2>3, <4>1
      <4>3. c \in 0..(Length - 1)
        BY <1>0, <2>1
      <4>. QED  BY <1>0, <3>1, <3>3, <4>2, <4>3, OrderInArray
    <3>. QED  BY <1>2, <3>2, <3>3 DEF MustSink
  <2>5. ASSUME NEW i \in 1..(Length - 1), Parent(i) # c
        PROVE  ~Less(At(i)', At(Parent(i))')
    <3>. DEFINE q == Parent(i)
    <3>1. q \in 0..(Length - 1) /\ q < i
      BY <1>0, ParentFacts
    <3>2. CASE i = c
      <4>1. At(i)' = At(index) /\ At(q)' = At(c)
        BY <1>0, <2>1, <2>2, <3>1, <3>2
      <4>2. c \in 0..(Length - 1)
        BY <2>1
      <4>. QED  BY <1>0, <2>4, <4>1, <4>2, OrderInArray
    <3>3. CASE i # c /\ q = index
      <4>1. At(i)' = At(i) /\ At(q)' = At(c)
        BY <1>0, <2>1, <2>2, <3>1, <3>3
      <4>. QED  BY <2>3, <3>3, <4>1
    <3>4. CASE i = index
      <4>1. At(i)' = At(c) /\ At(q)' = At(q)
        BY <1>0, <2>1, <2>2, <3>1, <3>4
      <4>2. ~Less(At(c), At(q))
        BY <1>0, <2>1, <3>4 DEF SiftOrdered
      <4>. QED  BY <4>1, <4>2
    <3>5. CASE i # c /\ i # index /\ q # index
      <4>1. At(i)' = At(i) /\ At(q)' = At(q)
        BY <1>0, <2>2, <2>5, <3>1, <3>5
      <4>. QED  BY <1>0, <3>5, <4>1 DEF SiftOrdered, InOrder
    <3>. QED  BY <3>2, <3>3, <3>4, <3>5
  <2>6. ASSUME NEW i \in 1..(Length - 1), Parent(i) = c
        PROVE  ~Less(At(i)', At(Parent(c))')
    <3>. DEFINE r == Parent(c)
    <3>1. c < i /\ i \in 0..(Length - 1) /\ r \in 0..(Length - 1)
      BY <1>0, <2>1, <2>6, ParentFacts
    <3>2. At(i)' = At(i) /\ At(r)' = At(c)
      BY <1>0, <2>1, <2>2, <3>1
    <3>3. ~Less(At(i), At(c))
      BY <1>0, <2>1, <2>6 DEF SiftOrdered, InOrder
    <3>. QED  BY <3>2, <3>3
  <2>7. HeapOrdered'
    BY <2>2 DEF HeapOrdered
  <2>8. SiftOrdered'
    BY <2>2, <2>5, <2>6 DEF SiftOrdered, InOrder
  <2>. QED  BY <2>7, <2>8
<1>. QED  BY <1>1, <1>2

(* A push leaves at most the new last node out of order.                   *)
LEMMA PushKeepsOrder ==
  ASSUME HeapInv, TypeOK', NEW s \in SortIndexes, Push(s)
  PROVE  HeapOrdered' /\ SiftOrdered' /\ NodesDistinct'
<1>. DEFINE new == [id |-> nextId, sortIndex |-> s]
<1>. USE DEF HeapInv
<1>1. /\ pc = "ready" /\ pc' = "siftUp" /\ index' = Length
      /\ heap' = Append(heap, new) /\ nextId' = nextId + 1
      /\ Length \in Nat /\ nextId \in Nat /\ new \in Nodes
  BY LengthType, MaxPushesAssumption DEF Push, TypeOK, Nodes
<1>2. /\ Length' = Length + 1
      /\ \A i \in 1..Length : heap'[i] = heap[i]
      /\ heap'[Length + 1] = new
  BY <1>1, AppendProperties DEF TypeOK, Length
<1>. HIDE DEF new
<1>3. ASSUME NEW i \in 0..(Length - 1)  PROVE At(i)' = At(i)
  <2>1. i + 1 \in 1..Length
    BY <1>1
  <2>. QED  BY <2>1, <1>2 DEF At
<1>4. ASSUME NEW i \in 1..Length, i # Length
      PROVE  ~Less(At(i)', At(Parent(i))')
  <2>1. /\ i \in 1..(Length - 1) /\ Parent(i) \in 0..(Length - 1)
    BY <1>1, <1>4, ParentFacts
  <2>. QED  BY <1>1, <1>3, <2>1 DEF HeapOrdered
<1>5. \A i \in 1..Length : Parent(i) # Length
  BY <1>1, ParentFacts
<1>6. HeapOrdered'
  BY <1>1 DEF HeapOrdered
<1>7. SiftOrdered'
  BY <1>1, <1>2, <1>4, <1>5 DEF SiftOrdered, InOrder
<1>8. \A i \in 1..Length : heap[i].id \in Nat
  BY <1>1, MaxPushesAssumption, LengthType DEF Nodes
<1>9. NodesDistinct'
  <2>1. \A i \in 1..(Length + 1) : i = Length + 1 \/ i \in 1..Length
    BY <1>1
  <2>2. heap'[Length + 1].id = nextId
    BY <1>2 DEF new
  <2>3. \A i \in 1..Length : heap'[i].id = heap[i].id /\ heap[i].id < nextId
    BY <1>2 DEF NodesDistinct
  <2>4. Length' = Length + 1 /\ nextId' = nextId + 1 /\ nextId \in Nat
    BY <1>1, <1>2
  <2>5. \A i \in 1..Length' : heap'[i].id < nextId'
    BY <1>8, <2>1, <2>2, <2>3, <2>4
  <2>6. \A i, j \in 1..Length' : heap'[i].id = heap'[j].id => i = j
    BY <1>8, <2>1, <2>2, <2>3, <2>4 DEF NodesDistinct
  <2>. QED  BY <2>5, <2>6 DEF NodesDistinct
<1>. QED  BY <1>6, <1>7, <1>9

(* A pop leaves at most the new root out of order.                         *)
LEMMA PopKeepsOrder ==
  ASSUME HeapInv, TypeOK', Pop
  PROVE  HeapOrdered' /\ SiftOrdered' /\ NodesDistinct'
<1>. USE DEF HeapInv
<1>0. Length \in Nat /\ Length > 0 /\ pc = "ready"
  BY LengthType DEF Pop
<1>1. CASE Length = 1
  <2>1. heap' = <<>> /\ pc' = "ready"
    BY <1>0, <1>1 DEF Pop
  <2>2. Length' = 0
    BY <2>1 DEF Length
  <2>. QED  BY <2>1, <2>2 DEF HeapOrdered, SiftOrdered, NodesDistinct
<1>2. CASE Length # 1
  <2>0. PICK n \in Nat : n = Length
    BY <1>0
  <2>1. /\ pc' = "siftDown" /\ index' = 0 /\ nextId' = nextId
        /\ heap' = [i \in 1..(n - 1) |-> IF i = 1 THEN heap[n] ELSE heap[i]]
        /\ n > 1
    BY <1>0, <1>2, <2>0 DEF Pop
  <2>2. Length' = n - 1
    BY <2>1, <2>0 DEF Length
  <2>3. \A i \in 1..(n - 1) : heap'[i] = IF i = 1 THEN heap[n] ELSE heap[i]
    BY <2>1
  <2>4. ASSUME NEW i \in 1..(n - 2)  PROVE At(i)' = At(i)
    <3>1. i + 1 \in 1..(n - 1) /\ i + 1 # 1
      BY <2>0
    <3>. QED  BY <3>1, <2>3 DEF At
  <2>5. ASSUME NEW i \in 1..(n - 2), Parent(i) # 0
        PROVE  ~Less(At(i)', At(Parent(i))')
    <3>1. Parent(i) \in 1..(n - 2) /\ i \in 1..(Length - 1)
      BY <2>0, <2>5, ParentFacts
    <3>2. At(i)' = At(i) /\ At(Parent(i))' = At(Parent(i))
      BY <2>4, <3>1
    <3>. QED  BY <1>0, <3>1, <3>2 DEF HeapOrdered
  <2>6. SiftOrdered' /\ HeapOrdered'
    BY <2>0, <2>1, <2>2, <2>5 DEF SiftOrdered, InOrder, HeapOrdered
  <2>7. NodesDistinct'
    <3>1. /\ \A i \in 1..n : heap[i].id < nextId
          /\ \A i, j \in 1..n : heap[i].id = heap[j].id => i = j
      BY <2>0 DEF NodesDistinct
    <3>2. n \in 1..n /\ \A i \in 1..(n - 1) : i \in 1..n /\ i # n
      BY <2>0, <2>1
    <3>. QED  BY <2>1, <2>2, <2>3, <3>1, <3>2 DEF NodesDistinct
  <2>. QED  BY <2>6, <2>7
<1>. QED  BY <1>1, <1>2

(* A step of a sift is a swap of two places, or the return.                *)
LEMMA SiftSteps ==
  ASSUME TypeOK, SiftUp \/ SiftDown
  PROVE  \/ UNCHANGED <<heap, nextId>>
         \/ /\ pc # "ready"
            /\ \E i \in 0..(Length - 1) : i # index /\ Swap(i)
<1>0. Length \in Nat /\ index \in 0..(Length - 1) /\ pc # "ready"
  BY LengthType DEF TypeOK, SiftUp, SiftDown
<1>1. MustRise => Parent(index) \in 0..(Length - 1) /\ Parent(index) # index
  BY <1>0, ParentFacts DEF MustRise
<1>2. MustSink => SmallerChild \in 0..(Length - 1) /\ SmallerChild # index
  BY <1>0 DEF MustSink, SmallerChild, Left, Right
<1>. QED  BY <1>0, <1>1, <1>2 DEF SiftUp, SiftDown, Return

(* A swap permutes the nodes.                                              *)
LEMMA SwapPermutes ==
  ASSUME TypeOK, pc # "ready", NEW i \in 0..(Length - 1), i # index, Swap(i)
  PROVE  \E other \in [1..Length -> 1..Length] :
           /\ Length' = Length
           /\ \A k \in 1..Length : /\ heap'[k] = heap[other[k]]
                                   /\ other[other[k]] = k
<1>0. Length \in Nat /\ index \in 0..(Length - 1)
  BY LengthType DEF TypeOK
<1>. DEFINE other == [k \in 1..Length |-> IF k = index + 1 THEN i + 1
                                          ELSE IF k = i + 1 THEN index + 1
                                          ELSE k]
<1>1. /\ other \in [1..Length -> 1..Length]
      /\ \A k \in 1..Length : other[other[k]] = k
  BY <1>0
<1>2. ASSUME NEW k \in 1..Length  PROVE heap'[k] = heap[other[k]]
  <2>1. k - 1 \in 0..(Length - 1)
    BY <1>0
  <2>2. At(k - 1)' = IF k - 1 = index THEN At(i)
                     ELSE IF k - 1 = i THEN At(index) ELSE At(k - 1)
    BY <2>1, SwapEffect
  <2>. QED  BY <1>0, <2>2 DEF At
<1>. QED  BY <1>1, <1>2, SwapEffect

LEMMA SiftKeepsNodesDistinct ==
  ASSUME HeapInv, SiftUp \/ SiftDown
  PROVE  NodesDistinct'
<1>. USE DEF HeapInv
<1>1. CASE UNCHANGED <<heap, nextId>>
  BY <1>1 DEF NodesDistinct, Length
<1>2. ASSUME pc # "ready", NEW i \in 0..(Length - 1), i # index, Swap(i)
      PROVE  NodesDistinct'
  <2>1. PICK other \in [1..Length -> 1..Length] :
           /\ Length' = Length
           /\ \A k \in 1..Length : /\ heap'[k] = heap[other[k]]
                                   /\ other[other[k]] = k
    BY <1>2, SwapPermutes
  <2>2. nextId' = nextId
    BY <1>2 DEF Swap
  <2>. QED  BY <2>1, <2>2 DEF NodesDistinct
<1>. QED  BY <1>1, <1>2, SiftSteps

LEMMA MinHeapInvariant == Spec => []HeapInv
<1>1. Init => HeapInv
  <2>. SUFFICES ASSUME Init PROVE HeapInv
    OBVIOUS
  <2>1. TypeOK
    BY MaxPushesAssumption, EmptySeq DEF Init, TypeOK
  <2>2. Length = 0
    BY DEF Init, Length
  <2>. QED  BY <2>1, <2>2 DEF HeapInv, Init, NodesDistinct, HeapOrdered, SiftOrdered
<1>2. HeapInv /\ [Next]_vars => HeapInv'
  <2>. SUFFICES ASSUME HeapInv, [Next]_vars  PROVE HeapInv'
    OBVIOUS
  <2>1. TypeOK'
    BY NextTypeOK DEF HeapInv
  <2>2. ASSUME NEW s \in SortIndexes, Push(s)  PROVE HeapInv'
    BY <2>1, <2>2, PushKeepsOrder DEF HeapInv
  <2>3. CASE Pop
    BY <2>1, <2>3, PopKeepsOrder DEF HeapInv
  <2>4. CASE SiftUp
    BY <2>1, <2>4, SiftUpKeepsOrder, SiftKeepsNodesDistinct DEF HeapInv
  <2>5. CASE SiftDown
    BY <2>1, <2>5, SiftDownKeepsOrder, SiftKeepsNodesDistinct DEF HeapInv
  <2>6. CASE UNCHANGED vars
    BY <2>6 DEF vars, HeapInv, TypeOK, NodesDistinct, HeapOrdered, SiftOrdered,
                InOrder, At, Length
  <2>. QED  BY <2>2, <2>3, <2>4, <2>5, <2>6 DEF Next
<1>. QED  BY <1>1, <1>2, PTL DEF Spec

(* Between calls no node precedes its parent.                              *)
THEOREM MinHeapOrdered == Spec => []HeapOrdered
<1>1. HeapInv => HeapOrdered
  BY DEF HeapInv
<1>. QED  BY <1>1, MinHeapInvariant, PTL

-----------------------------------------------------------------------------
(* The heap implements the priority queue.                                 *)

LEMMA NatSetHasMinimum ==
  ASSUME NEW S \in SUBSET Nat, S # {}
  PROVE  \E m \in S : \A n \in S : m <= n
<1>1. PICK m \in S : \A n \in S : ~(<<n, m>> \in OpToRel(<, Nat))
  BY NatLessThanWellFounded, WFMin, Zenon
<1>2. \A n \in S : ~(n < m)
  BY <1>1 DEF OpToRel
<1>. QED  BY <1>2

(* What peek returns between calls: the root precedes every other node.    *)
(* A first place whose node precedes the root would precede its parent.    *)
LEMMA RootIsLeast ==
  ASSUME HeapInv, pc = "ready", NEW j \in 1..(Length - 1)
  PROVE  Less(At(0), At(j))
<1>. USE DEF HeapInv
<1>0. Length \in Nat /\ 0 \in 0..(Length - 1)
  BY LengthType
<1>. DEFINE below == {i \in 1..(Length - 1) : Less(At(i), At(0))}
<1>1. below = {}
  <2>. SUFFICES ASSUME below # {} PROVE FALSE
    OBVIOUS
  <2>1. below \in SUBSET Nat
    BY <1>0
  <2>2. PICK i \in below : \A k \in below : i <= k
    BY <2>1, NatSetHasMinimum
  <2>3. /\ i \in 1..(Length - 1) /\ Parent(i) \in 0..(Length - 1)
        /\ Parent(i) < i
    BY <1>0, <2>2, ParentFacts
  <2>4. ~Less(At(Parent(i)), At(0))
    <3>1. CASE Parent(i) = 0
      BY <1>0, <3>1, OrderInArray
    <3>2. CASE Parent(i) # 0
      <4>1. Parent(i) \notin below
        BY <2>2, <2>3, <1>0
      <4>. QED  BY <4>1, <3>2, <2>3, <1>0
    <3>. QED  BY <3>1, <3>2
  <2>5. ~Less(At(i), At(Parent(i)))
    BY <2>3 DEF HeapOrdered
  <2>6. i \in 0..(Length - 1)
    BY <1>0, <2>3
  <2>. QED  BY <1>0, <2>2, <2>3, <2>4, <2>5, <2>6, OrderInArray
<1>2. ~Less(At(j), At(0))
  BY <1>1
<1>3. j \in 0..(Length - 1)
  BY <1>0
<1>4. At(j).id # At(0).id
  <2>1. j + 1 \in 1..Length /\ 1 \in 1..Length /\ j + 1 # 0 + 1
    BY <1>0
  <2>2. heap[j + 1].id # heap[0 + 1].id
    BY <2>1 DEF NodesDistinct
  <2>. QED  BY <2>2 DEF At
<1>5. /\ At(j).id \in Nat /\ At(j).sortIndex \in Int
      /\ At(0).id \in Nat /\ At(0).sortIndex \in Int
  BY <1>0, <1>3, NodeType
<1>. QED  BY <1>2, <1>4, <1>5 DEF Less

(* The heap shows its user a set from which only the least node is taken.  *)
THEOREM MinHeapImplementsPriorityQueue == Spec => ImplementsPriorityQueue
<1>. DEFINE queue == {heap[i] : i \in 1..Length}
<1>1. Init => Queue!QueueInit
  BY DEF Init, Queue!QueueInit, Length
<1>2. HeapInv /\ [Next]_vars => [Queue!Enqueue \/ Queue!Dequeue]_queue
  <2>. SUFFICES ASSUME HeapInv, [Next]_vars
                PROVE  Queue!Enqueue \/ Queue!Dequeue \/ queue' = queue
    OBVIOUS
  <2>. USE DEF HeapInv
  <2>0. /\ Length \in Nat /\ heap \in [1..Length -> Nodes]
        /\ \A i \in 1..Length : heap[i].id < nextId /\ heap[i].id \in Nat
    BY LengthType, MaxPushesAssumption DEF NodesDistinct, Nodes
  <2>1. ASSUME NEW s \in SortIndexes, Push(s)  PROVE Queue!Enqueue
    <3>. DEFINE new == [id |-> nextId, sortIndex |-> s]
    <3>1. /\ heap' = Append(heap, new) /\ new \in Nodes /\ nextId \in Nat
      BY <2>1, MaxPushesAssumption DEF Push, TypeOK, Nodes
    <3>2. /\ Length' = Length + 1
          /\ \A i \in 1..Length : heap'[i] = heap[i]
          /\ heap'[Length + 1] = new
      BY <3>1, AppendProperties DEF TypeOK, Length
    <3>3. new \notin queue
      BY <2>0, <3>1
    <3>. HIDE DEF new
    <3>4. \A i \in 1..(Length + 1) : i \in 1..Length \/ i = Length + 1
      BY <2>0
    <3>5. \A i \in 1..Length : i \in 1..(Length + 1)
      BY <2>0
    <3>6. Length + 1 \in 1..(Length + 1)
      BY <2>0
    <3>7. {heap'[i] : i \in 1..Length'} = queue \cup {new}
      BY <3>2, <3>4, <3>5, <3>6
    <3>. QED  BY <3>1, <3>3, <3>7 DEF Queue!Enqueue
  <2>2. CASE Pop
    <3>0. /\ Length > 0 /\ 0 \in 0..(Length - 1) /\ 1 \in 1..Length
          /\ pc = "ready"
      BY <2>0, <2>2 DEF Pop
    <3>1. heap[1] \in queue /\ Queue!IsLeast(heap[1])
      <4>1. ASSUME NEW i \in 1..Length, i # 1
            PROVE  Less(heap[1], heap[i])
        <5>1. i - 1 \in 1..(Length - 1) /\ (i - 1) + 1 = i /\ 0 + 1 = 1
          BY <2>0, <4>1
        <5>2. Less(At(0), At(i - 1))
          BY <3>0, <5>1, RootIsLeast
        <5>. QED  BY <5>1, <5>2 DEF At
      <4>2. ASSUME NEW a, NEW b, Less(a, b)  PROVE Queue!Precedes(a, b)
        BY <4>2 DEF Less, Queue!Precedes
      <4>. QED  BY <3>0, <4>1, <4>2 DEF Queue!IsLeast
    <3>2. {heap'[i] : i \in 1..Length'} = queue \ {heap[1]}
      <4>1. CASE Length = 1
        <5>1. heap' = <<>>
          BY <2>2, <4>1 DEF Pop
        <5>2. Length' = 0
          BY <5>1 DEF Length
        <5>. QED  BY <4>1, <5>2
      <4>2. CASE Length # 1
        <5>0. PICK n \in Nat : n = Length
          BY <2>0
        <5>1. /\ heap' = [i \in 1..(n - 1) |->
                            IF i = 1 THEN heap[n] ELSE heap[i]]
              /\ n > 1
          BY <2>2, <3>0, <4>2, <5>0 DEF Pop
        <5>2. Length' = n - 1
          BY <5>0, <5>1 DEF Length
        <5>3. \A i \in 1..(n - 1) :
                heap'[i] = IF i = 1 THEN heap[n] ELSE heap[i]
          BY <5>1
        <5>4. \A i, j \in 1..n : heap[i] = heap[j] => i = j
          BY <5>0 DEF NodesDistinct
        <5>5. /\ 1 \in 1..(n - 1) /\ n \in 1..n /\ n # 1
              /\ \A i \in 1..(n - 1) : i \in 1..n
              /\ \A i \in 1..n : i \in 1..(n - 1) \/ i = n
          BY <5>1
        <5>. QED  BY <5>0, <5>2, <5>3, <5>4, <5>5
      <4>. QED  BY <4>1, <4>2
    <3>. QED  BY <3>1, <3>2 DEF Queue!Dequeue
  <2>3. CASE UNCHANGED heap
    BY <2>3 DEF Length
  <2>4. ASSUME pc # "ready", NEW i \in 0..(Length - 1), i # index, Swap(i)
        PROVE  queue' = queue
    <3>1. PICK other \in [1..Length -> 1..Length] :
             /\ Length' = Length
             /\ \A k \in 1..Length : /\ heap'[k] = heap[other[k]]
                                     /\ other[other[k]] = k
      BY <2>4, SwapPermutes
    <3>2. \A k \in 1..Length : heap[k] = heap'[other[k]]
      BY <3>1
    <3>. QED  BY <3>1, <3>2
  <2>. QED  BY <2>1, <2>2, <2>3, <2>4, SiftSteps DEF Next, vars
<1>. QED  BY <1>1, <1>2, MinHeapInvariant, PTL
          DEF Spec, ImplementsPriorityQueue, Queue!QueueSpec
=============================================================================
