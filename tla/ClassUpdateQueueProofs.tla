----------------------- MODULE ClassUpdateQueueProofs -----------------------
(***************************************************************************)
(* The class update queue loses, repeats and reorders no update, whatever  *)
(* the lanes, however many updates there are and wherever renders stop;    *)
(* and it implements UpdateLog.                                            *)
(***************************************************************************)
EXTENDS ClassUpdateQueue, SequenceTheorems, FiniteSetTheorems, TLAPS

(* What has been processed, of a queue that is being processed.            *)
Done == IF newBase = <<>> THEN newState ELSE newBaseState \o Ids(newBase)

(* All the updates of a queue, from the base state to the stash.           *)
Whole(base, updates, queued, stash) ==
  base \o Ids(updates) \o Ids(queued) \o Ids(stash)

WholeOf(fiber) ==
  Whole(fiber.baseState, fiber.baseUpdates, pending, concurrentQueues)

OrderInv ==
  /\ FirstUpdates(WholeOf(current), Len(log))
  /\ pc \in {"begun", "rendered"} => FirstUpdates(WholeOf(wip), Len(log))
  /\ pc = "processing" =>
       FirstUpdates(Whole(Done, rest, pending, concurrentQueues), Len(log))

-----------------------------------------------------------------------------
(* Sequences of updates and of their ids.                                  *)
LEMMA IdsType ==
  ASSUME NEW s \in Seq(Update)
  PROVE  /\ Ids(s) \in Seq(UpdateIds) /\ Len(Ids(s)) = Len(s)
         /\ \A i \in 1..Len(s) : Ids(s)[i] = s[i].id
<1>1. \A i \in 1..Len(s) : s[i].id \in UpdateIds
  <2>1. \A i \in 1..Len(s) : s[i] \in Update
    BY ElementOfSeq
  <2> QED
    BY <2>1 DEF Update
<1>2. PICK n \in Nat : n = Len(s)
  BY LenProperties
<1>3. Ids(s) \in [1..n -> UpdateIds] /\ \A i \in 1..n : Ids(s)[i] = s[i].id
  BY <1>1, <1>2 DEF Ids
<1>4. Ids(s) \in Seq(UpdateIds)
  BY <1>3, SeqDef
<1>5. Len(Ids(s)) \in Nat /\ DOMAIN Ids(s) = 1..Len(Ids(s)) /\ DOMAIN Ids(s) = 1..n
  BY <1>3, <1>4, LenProperties
<1> QED
  BY <1>2, <1>3, <1>4, <1>5

LEMMA IdsEmpty == Ids(<<>>) = <<>>
BY DEF Ids

LEMMA IdsConcat ==
  ASSUME NEW s \in Seq(Update), NEW t \in Seq(Update)
  PROVE  Ids(s \o t) = Ids(s) \o Ids(t)
<1>1. s \o t \in Seq(Update) /\ Len(s \o t) = Len(s) + Len(t)
  BY ConcatProperties
<1>2. Len(s) \in Nat /\ Len(t) \in Nat
  BY LenProperties
<1>3. Ids(s) \in Seq(UpdateIds) /\ Ids(t) \in Seq(UpdateIds)
      /\ Ids(s \o t) \in Seq(UpdateIds)
  BY <1>1, IdsType
<1>6. Len(Ids(s)) = Len(s) /\ Len(Ids(t)) = Len(t)
      /\ Len(Ids(s \o t)) = Len(s) + Len(t)
  BY <1>1, IdsType
<1>4. Ids(s) \o Ids(t) \in Seq(UpdateIds)
      /\ Len(Ids(s) \o Ids(t)) = Len(s) + Len(t)
  BY <1>3, <1>6, ConcatProperties
<1>5. ASSUME NEW i \in 1..(Len(s) + Len(t))
      PROVE  Ids(s \o t)[i] = (Ids(s) \o Ids(t))[i]
  <2>1. Ids(s \o t)[i] = (s \o t)[i].id
    BY <1>1, IdsType
  <2>2. (Ids(s) \o Ids(t))[i] =
          IF i <= Len(s) THEN Ids(s)[i] ELSE Ids(t)[i - Len(s)]
    BY <1>3, <1>6, ConcatProperties
  <2>3. (s \o t)[i] = IF i <= Len(s) THEN s[i] ELSE t[i - Len(s)]
    BY ConcatProperties
  <2>4. PICK m \in Nat, n \in Nat : m = Len(s) /\ n = Len(t)
    BY <1>2
  <2>5. i \in 1..(m + n)
    BY <2>4
  <2>6. CASE i <= m
    <3>1. i \in 1..Len(s)
      BY <2>4, <2>5, <2>6
    <3> QED
      BY <2>1, <2>2, <2>3, <2>4, <2>6, <3>1, IdsType
  <2>7. CASE ~(i <= m)
    <3>1. i - m \in 1..n
      BY <2>5, <2>7
    <3>2. i - Len(s) \in 1..Len(t)
      BY <2>4, <3>1
    <3> QED
      BY <2>1, <2>2, <2>3, <2>4, <2>7, <3>2, IdsType
  <2> QED
    BY <2>6, <2>7
<1> QED
  BY <1>3, <1>4, <1>5, <1>6, SeqEqual

LEMMA IdsAppend ==
  ASSUME NEW s \in Seq(Update), NEW u \in Update
  PROVE  Ids(Append(s, u)) = Append(Ids(s), u.id)
<1>1. /\ Append(s, u) \in Seq(Update) /\ Len(Append(s, u)) = Len(s) + 1
      /\ \A i \in 1..Len(s) : Append(s, u)[i] = s[i]
      /\ Append(s, u)[Len(s) + 1] = u
  BY AppendProperties
<1>2. u.id \in UpdateIds
  BY DEF Update
<1>3. Ids(s) \in Seq(UpdateIds) /\ Len(Ids(s)) = Len(s)
      /\ \A i \in 1..Len(s) : Ids(s)[i] = s[i].id
  BY IdsType
<1>4. /\ Append(Ids(s), u.id) \in Seq(UpdateIds)
      /\ Len(Append(Ids(s), u.id)) = Len(s) + 1
      /\ \A i \in 1..Len(s) : Append(Ids(s), u.id)[i] = Ids(s)[i]
      /\ Append(Ids(s), u.id)[Len(s) + 1] = u.id
  BY <1>2, <1>3, AppendProperties
<1>5. /\ Ids(Append(s, u)) \in Seq(UpdateIds)
      /\ Len(Ids(Append(s, u))) = Len(s) + 1
      /\ \A i \in 1..(Len(s) + 1) : Ids(Append(s, u))[i] = Append(s, u)[i].id
  BY <1>1, IdsType
<1>6. PICK n \in Nat : n = Len(s)
  BY LenProperties
<1>7. \A i \in 1..(n + 1) : i \in 1..n \/ i = n + 1
  OBVIOUS
<1>8. \A i \in 1..(n + 1) : Ids(Append(s, u))[i] = Append(Ids(s), u.id)[i]
  BY <1>1, <1>3, <1>4, <1>5, <1>6, <1>7
<1> QED
  BY <1>4, <1>5, <1>6, <1>8, SeqEqual

LEMMA IdsHeadTail ==
  ASSUME NEW s \in Seq(Update), s # <<>>
  PROVE  /\ Ids(s) # <<>>
         /\ Head(Ids(s)) = Head(s).id /\ Tail(Ids(s)) = Ids(Tail(s))
<1>1. Ids(s) \in Seq(UpdateIds) /\ Len(Ids(s)) = Len(s)
      /\ \A i \in 1..Len(s) : Ids(s)[i] = s[i].id
  BY IdsType
<1>2. Len(s) \in Nat \ {0}
  BY EmptySeq
<1>3. Ids(s) # <<>>
  BY <1>1, <1>2, EmptySeq
<1>4. Head(s) = s[1] /\ Head(Ids(s)) = Ids(s)[1]
  OBVIOUS
<1>5. /\ Tail(s) \in Seq(Update) /\ Len(Tail(s)) = Len(s) - 1
      /\ \A i \in 1..Len(Tail(s)) : Tail(s)[i] = s[i + 1]
  BY HeadTailProperties
<1>6. /\ Tail(Ids(s)) \in Seq(UpdateIds) /\ Len(Tail(Ids(s))) = Len(s) - 1
      /\ \A i \in 1..Len(Tail(Ids(s))) : Tail(Ids(s))[i] = Ids(s)[i + 1]
  BY <1>1, <1>3, HeadTailProperties
<1>7. /\ Ids(Tail(s)) \in Seq(UpdateIds) /\ Len(Ids(Tail(s))) = Len(Tail(s))
      /\ \A i \in 1..Len(Tail(s)) : Ids(Tail(s))[i] = Tail(s)[i].id
  BY <1>5, IdsType
<1>8. PICK n \in Nat : n = Len(s) - 1
  BY <1>2
<1>9. \A i \in 1..n : Tail(Ids(s))[i] = Ids(Tail(s))[i]
  <2>1. \A i \in 1..n : i + 1 \in 1..Len(s)
    BY <1>2, <1>8
  <2> QED
    BY <1>1, <1>5, <1>6, <1>7, <1>8, <2>1
<1>10. Tail(Ids(s)) = Ids(Tail(s))
  BY <1>5, <1>6, <1>7, <1>8, <1>9, SeqEqual
<1> QED
  BY <1>1, <1>2, <1>3, <1>4, <1>10

(* Moving the first of a sequence to the end of the one before it.         *)
LEMMA MoveHead ==
  ASSUME NEW S, NEW d \in Seq(S), NEW r \in Seq(S), r # <<>>
  PROVE  /\ Head(r) \in S /\ Tail(r) \in Seq(S)
         /\ Append(d, Head(r)) \o Tail(r) = d \o r
<1>1. Head(r) \in S /\ Tail(r) \in Seq(S)
  BY HeadTailProperties
<1>2. 1 \in 1..Len(r) /\ Len(r) \in 1..Len(r)
  <2>1. Len(r) \in Nat \ {0}
    BY EmptySeq
  <2> QED
    BY <2>1
<1>3. SubSeq(r, 1, Len(r)) = <<r[1]>> \o SubSeq(r, 1 + 1, Len(r))
  BY <1>2, SubSeqRecursiveFirst
<1>4. SubSeq(r, 1, Len(r)) = r
  BY SubSeqFull
<1>5. Tail(r) = SubSeq(r, 2, Len(r))
  BY TailIsSubSeq
<1>6. Head(r) = r[1]
  OBVIOUS
<1>7. r = <<Head(r)>> \o Tail(r)
  BY <1>3, <1>4, <1>5, <1>6
<1>8. Append(d, Head(r)) = d \o <<Head(r)>>
  BY <1>1, AppendIsConcat
<1>9. <<Head(r)>> \in Seq(S)
  BY <1>1
<1>10. (d \o <<Head(r)>>) \o Tail(r) = d \o (<<Head(r)>> \o Tail(r))
  BY <1>1, <1>9, ConcatAssociative
<1> QED
  BY <1>1, <1>7, <1>8, <1>10

LEMMA Associative ==
  ASSUME NEW S, NEW r \in Seq(S), NEW s \in Seq(S), NEW t \in Seq(S)
  PROVE  r \o (s \o t) = r \o s \o t
BY ConcatAssociative, SMTT(30)

LEMMA RangeAppend ==
  ASSUME NEW S, NEW s \in Seq(S), NEW x \in S
  PROVE  Range(Append(s, x)) = Range(s) \cup {x}
<1>1. Append(s, x) = s \o <<x>> /\ <<x>> \in Seq(S)
  BY AppendIsConcat, SMTT(30)
<1>2. Range(<<x>>) = {x}
  BY DEF Range
<1>3. ASSUME NEW t \in Seq(S) PROVE Range(s \o t) = Range(s) \cup Range(t)
  BY RangeConcatenation, SMTT(30)
<1>4. Range(s \o <<x>>) = Range(s) \cup Range(<<x>>)
  BY <1>1, <1>3, Zenon
<1> QED
  BY <1>1, <1>2, <1>4, Zenon
-----------------------------------------------------------------------------
(* Only an update in the queue proper can be rebased, to NoLane.           *)
TypeInv == TypeOK /\ ConcurrentlyUpdatedLanes \subseteq Lanes

LEMMA TypeInit == Init => TypeInv
<1>1. ASSUME NEW S PROVE <<>> \in Seq(S)
  BY EmptySeq
<1>2. Range(<<>>) = {}
  BY DEF Range
<1> QED
  BY <1>1, <1>2, MaxUpdatesAssumption
  DEF Init, TypeInv, TypeOK, InitialFiber, Fiber, State, ConcurrentlyUpdatedLanes

LEMMA FinishQueueingTypes ==
  ASSUME TypeInv, FinishQueueing
  PROVE  /\ concurrentQueues' = <<>> /\ <<>> \in Seq(Update)
         /\ pending' \in Seq(Update)
         /\ current' \in Fiber /\ wip' \in Fiber
         /\ ConcurrentlyUpdatedLanes' = {}
<1>1. <<>> \in Seq(Update) /\ Range(<<>>) = {}
  BY EmptySeq DEF Range
<1>2. pending \o concurrentQueues \in Seq(Update)
  BY ConcatProperties DEF TypeInv, TypeOK
<1> QED
  BY <1>1, <1>2
  DEF TypeInv, TypeOK, FinishQueueing, Fiber, ConcurrentlyUpdatedLanes

LEMMA TypeStep == TypeInv /\ [Next]_vars => TypeInv'
<1> SUFFICES ASSUME TypeInv, [Next]_vars PROVE TypeInv'
  OBVIOUS
<1>0. \A T : <<>> \in Seq(T)
  BY EmptySeq
<1>1. ASSUME NEW lane \in Lanes, EnqueueUpdate(lane) PROVE TypeInv'
  <2> DEFINE new == [id |-> Len(log) + 1, lane |-> lane, callback |-> TRUE]
  <2>1. Len(log) \in Nat /\ Len(log) + 1 \in UpdateIds /\ Len(log) + 1 <= MaxUpdates
    BY <1>1, LenProperties, MaxUpdatesAssumption
    DEF EnqueueUpdate, TypeInv, TypeOK, UpdateIds
  <2>2. new \in Update
    BY <2>1 DEF Update
  <2>3. log' \in Seq(Lanes) /\ Len(log') = Len(log) + 1
    BY <1>1, AppendProperties DEF EnqueueUpdate, TypeInv, TypeOK
  <2>4. /\ concurrentQueues' \in Seq(Update)
        /\ Range(concurrentQueues') = Range(concurrentQueues) \cup {new}
    <3>1. concurrentQueues' = Append(concurrentQueues, new)
      BY <1>1 DEF EnqueueUpdate
    <3>2. concurrentQueues \in Seq(Update)
      BY DEF TypeInv, TypeOK
    <3> HIDE DEF new
    <3> QED
      BY <2>2, <3>1, <3>2, AppendProperties, RangeAppend
  <2>5. ConcurrentlyUpdatedLanes' = ConcurrentlyUpdatedLanes \cup {lane}
    <3>1. new.lane = lane
      OBVIOUS
    <3> HIDE DEF new
    <3> QED
      BY <2>4, <3>1 DEF ConcurrentlyUpdatedLanes
  <2>6. current' \in Fiber /\ wip' \in Fiber
    BY <1>1 DEF EnqueueUpdate, TypeInv, TypeOK, Fiber
  <2>7. sharedLanes' \subseteq TransitionLanes
    BY <1>1 DEF EnqueueUpdate, EntangleTransitions, TypeInv, TypeOK
  <2> QED
    BY <1>1, <2>1, <2>3, <2>4, <2>5, <2>6, <2>7
    DEF EnqueueUpdate, TypeInv, TypeOK, loopVars
<1>2. ASSUME NEW lane \in Lanes, UpdateOther(lane) PROVE TypeInv'
  BY <1>2 DEF UpdateOther, TypeInv, TypeOK, queueVars, loopVars,
              ConcurrentlyUpdatedLanes
<1>3. ASSUME NEW lanes \in SUBSET Lanes, PrepareFreshStack(lanes)
      PROVE  TypeInv'
  BY <1>3, FinishQueueingTypes
  DEF PrepareFreshStack, TypeInv, TypeOK, rootVars, loopVars
<1>4. CASE AbandonRender
  BY <1>4, FinishQueueingTypes
  DEF AbandonRender, TypeInv, TypeOK, rootVars, loopVars
<1>5. CASE OtherRootRenders
  BY <1>5, FinishQueueingTypes
  DEF OtherRootRenders, TypeInv, TypeOK, rootVars, loopVars
<1>6. CASE BailOut
  BY <1>0, <1>6 DEF BailOut, TypeInv, TypeOK, queueVars, rootVars, loopVars,
              ConcurrentlyUpdatedLanes
<1>7. CASE Begin
  <2>1. current.baseUpdates \o pending \in Seq(Update)
    BY ConcatProperties DEF TypeInv, TypeOK, Fiber
  <2>2. current' \in Fiber /\ wip' \in Fiber /\ rest' \in Seq(Update)
        /\ newState' \in State
    BY <1>7, <2>1 DEF Begin, TypeInv, TypeOK, Fiber
  <2> QED
    BY <1>0, <1>7, <2>2
    DEF Begin, TypeInv, TypeOK, State, rootVars, ConcurrentlyUpdatedLanes
<1>8. CASE SkipUpdate
  <2>1. Head(rest) \in Update /\ Tail(rest) \in Seq(Update)
    BY <1>8, HeadTailProperties DEF SkipUpdate, TypeInv, TypeOK
  <2>2. Append(newBase, Head(rest)) \in Seq(Update)
    BY <2>1, AppendProperties DEF TypeInv, TypeOK
  <2>3. Head(rest).lane \in Lanes
    BY <1>8, <2>1 DEF SkipUpdate, Sufficient, Update
  <2> QED
    BY <1>8, <2>1, <2>2, <2>3
    DEF SkipUpdate, TypeInv, TypeOK, queueVars, rootVars,
        ConcurrentlyUpdatedLanes
<1>9. CASE ApplyUpdate
  <2>1. Head(rest) \in Update /\ Tail(rest) \in Seq(Update)
    BY <1>9, HeadTailProperties DEF ApplyUpdate, TypeInv, TypeOK
  <2>2. Rebased(Head(rest)) \in Update /\ Head(rest).id \in UpdateIds
    BY <2>1 DEF Rebased, Update
  <2>3. Append(newBase, Rebased(Head(rest))) \in Seq(Update)
    BY <2>2, AppendProperties DEF TypeInv, TypeOK
  <2>4. Append(newState, Head(rest).id) \in Seq(UpdateIds)
        /\ Append(callbacks, Head(rest).id) \in Seq(UpdateIds)
    BY <2>2, AppendProperties DEF TypeInv, TypeOK, State
  <2>5. newBase' \in Seq(Update) /\ newState' \in State
        /\ callbacks' \in Seq(UpdateIds)
    BY <1>9, <2>3, <2>4 DEF ApplyUpdate, TypeInv, TypeOK, State
  <2> QED
    BY <1>9, <2>1, <2>5
    DEF ApplyUpdate, TypeInv, TypeOK, queueVars, rootVars,
        ConcurrentlyUpdatedLanes
<1>10. CASE FinishProcessing
  <2>1. wip' \in Fiber
    BY <1>10 DEF FinishProcessing, TypeInv, TypeOK, Fiber
  <2> QED
    BY <1>10, <2>1
    DEF FinishProcessing, TypeInv, TypeOK, queueVars, rootVars, loopVars,
        ConcurrentlyUpdatedLanes
<1>11. CASE CompleteRender
  <2>1. childLanes' \subseteq Lanes
    BY <1>11, FinishQueueingTypes DEF CompleteRender, Fiber
  <2> QED
    BY <1>11, <2>1, FinishQueueingTypes
    DEF CompleteRender, TypeInv, TypeOK, rootVars, loopVars
<1>12. CASE Commit
  <2>1. fired' \in Seq(UpdateIds)
    BY <1>12, ConcatProperties DEF Commit, TypeInv, TypeOK
  <2>2. otherLanes' \subseteq Lanes
    BY <1>12 DEF Commit, Unfinished, TypeInv, TypeOK
  <2> QED
    BY <1>0, <1>12, <2>1, <2>2
    DEF Commit, TypeInv, TypeOK, queueVars, loopVars, ConcurrentlyUpdatedLanes
<1>13. CASE UNCHANGED vars
  BY <1>13 DEF vars, TypeInv, TypeOK, queueVars, rootVars, loopVars,
               ConcurrentlyUpdatedLanes
<1> QED
  BY <1>1, <1>2, <1>3, <1>4, <1>5, <1>6, <1>7, <1>8, <1>9, <1>10, <1>11,
     <1>12, <1>13
  DEF Next, ProcessUpdateQueue

(* The queue's fields have their types, and what waits outside the queue   *)
(* has the lane it was scheduled with.                                     *)
THEOREM TypeCorrect == Spec => []TypeOK
<1>1. TypeInv => TypeOK
  BY DEF TypeInv
<1> QED
  BY <1>1, TypeInit, TypeStep, PTL DEF Spec

-----------------------------------------------------------------------------
(* All the updates of a queue, when it changes hands.                      *)
LEMMA WholeType ==
  ASSUME NEW b \in State, NEW u \in Seq(Update), NEW p \in Seq(Update),
         NEW c \in Seq(Update)
  PROVE  Whole(b, u, p, c) \in State
<1>1. Ids(u) \in State /\ Ids(p) \in State /\ Ids(c) \in State
  BY IdsType DEF State
<1>2. b \o Ids(u) \in State
  BY <1>1, ConcatProperties DEF State
<1>3. b \o Ids(u) \o Ids(p) \in State
  BY <1>1, <1>2, ConcatProperties DEF State
<1> QED
  BY <1>1, <1>3, ConcatProperties DEF State, Whole

LEMMA WholeQueued ==
  ASSUME NEW b \in State, NEW u \in Seq(Update), NEW p \in Seq(Update),
         NEW c \in Seq(Update)
  PROVE  /\ Whole(b, u, p \o c, <<>>) = Whole(b, u, p, c)
         /\ Whole(b, u \o p, <<>>, c) = Whole(b, u, p, c)
<1>1. Ids(u) \in State /\ Ids(p) \in State /\ Ids(c) \in State
  BY IdsType DEF State
<1>2. /\ Ids(p \o c) = Ids(p) \o Ids(c) /\ Ids(u \o p) = Ids(u) \o Ids(p)
      /\ Ids(<<>>) = <<>>
  BY IdsConcat, IdsEmpty
<1>3. b \o Ids(u) \in State
  BY <1>1, ConcatProperties DEF State
<1>4. b \o Ids(u) \o Ids(p) \in State /\ Whole(b, u, p, c) \in State
  BY <1>1, <1>3, ConcatProperties, WholeType DEF State
<1>5. /\ b \o Ids(u) \o (Ids(p) \o Ids(c)) = Whole(b, u, p, c)
      /\ b \o (Ids(u) \o Ids(p)) = b \o Ids(u) \o Ids(p)
  <2> DEFINE bu == b \o Ids(u)
  <2>1. bu \in Seq(UpdateIds) /\ b \in Seq(UpdateIds)
        /\ Ids(u) \in Seq(UpdateIds) /\ Ids(p) \in Seq(UpdateIds)
        /\ Ids(c) \in Seq(UpdateIds)
    BY <1>1, <1>3 DEF State
  <2> HIDE DEF bu
  <2>2. ASSUME NEW r \in Seq(UpdateIds), NEW s \in Seq(UpdateIds),
               NEW t \in Seq(UpdateIds)
        PROVE  r \o (s \o t) = r \o s \o t
    BY Associative, SMTT(30)
  <2>3. b \o (Ids(u) \o Ids(p)) = b \o Ids(u) \o Ids(p)
    BY <2>1, <2>2, SMTT(30)
  <2>4. bu \o (Ids(p) \o Ids(c)) = bu \o Ids(p) \o Ids(c)
    BY <2>1, <2>2, SMTT(30)
  <2> QED
    BY <2>3, <2>4, Zenon DEF Whole, bu
<1>6. Whole(b, u, p, c) \o <<>> = Whole(b, u, p, c)
  BY <1>4, ConcatEmptySeq DEF State
<1>7. b \o Ids(u) \o Ids(p) \o <<>> = b \o Ids(u) \o Ids(p)
  BY <1>4, ConcatEmptySeq DEF State
<1>8. Whole(b, u, p \o c, <<>>) = Whole(b, u, p, c)
  BY <1>2, <1>5, <1>6, Zenon DEF Whole
<1>9. Whole(b, u \o p, <<>>, c) = Whole(b, u, p, c)
  BY <1>2, <1>5, <1>7, Zenon DEF Whole
<1> QED
  BY <1>8, <1>9

LEMMA AppendConcat ==
  ASSUME NEW S, NEW s \in Seq(S), NEW t \in Seq(S), NEW x \in S
  PROVE  s \o Append(t, x) = Append(s \o t, x)
<1>1. s \o t \in Seq(S) /\ <<x>> \in Seq(S)
  BY ConcatProperties
<1>2. Append(t, x) = t \o <<x>> /\ Append(s \o t, x) = (s \o t) \o <<x>>
  BY <1>1, AppendIsConcat
<1>3. (s \o t) \o <<x>> = s \o (t \o <<x>>)
  BY <1>1, ConcatAssociative
<1> QED
  BY <1>2, <1>3, Zenon

LEMMA WholeAppend ==
  ASSUME NEW b \in State, NEW u \in Seq(Update), NEW p \in Seq(Update),
         NEW c \in Seq(Update), NEW x \in Update
  PROVE  Whole(b, u, p, Append(c, x)) = Append(Whole(b, u, p, c), x.id)
<1>1. Ids(u) \in State /\ Ids(p) \in State /\ Ids(c) \in State
      /\ x.id \in UpdateIds
  BY IdsType DEF State, Update
<1>2. b \o Ids(u) \in State
  BY <1>1, ConcatProperties DEF State
<1>3. b \o Ids(u) \o Ids(p) \in State
  BY <1>1, <1>2, ConcatProperties DEF State
<1>4. Ids(Append(c, x)) = Append(Ids(c), x.id)
  BY IdsAppend
<1>5. b \o Ids(u) \o Ids(p) \o Append(Ids(c), x.id)
        = Append(b \o Ids(u) \o Ids(p) \o Ids(c), x.id)
  <2> DEFINE bup == b \o Ids(u) \o Ids(p)
  <2>1. bup \in Seq(UpdateIds) /\ Ids(c) \in Seq(UpdateIds)
    BY <1>1, <1>3 DEF State
  <2> HIDE DEF bup
  <2>2. bup \o Append(Ids(c), x.id) = Append(bup \o Ids(c), x.id)
    BY <1>1, <2>1, AppendConcat
  <2> QED
    BY <2>2, Zenon DEF bup
<1> QED
  BY <1>4, <1>5, Zenon DEF Whole

LEMMA WholeStep ==
  ASSUME NEW d \in State, NEW r \in Seq(Update), r # <<>>,
         NEW p \in Seq(Update), NEW c \in Seq(Update)
  PROVE  Whole(Append(d, Head(r).id), Tail(r), p, c) = Whole(d, r, p, c)
<1>1. Ids(r) \in State /\ Ids(r) # <<>>
      /\ Head(Ids(r)) = Head(r).id /\ Tail(Ids(r)) = Ids(Tail(r))
  BY IdsType, IdsHeadTail DEF State
<1>2. Append(d, Head(Ids(r))) \o Tail(Ids(r)) = d \o Ids(r)
  BY <1>1, MoveHead DEF State
<1> QED
  BY <1>1, <1>2, Zenon DEF Whole

LEMMA WholeEmpty ==
  ASSUME NEW b \in State, NEW u \in Seq(Update), NEW p, NEW c
  PROVE  Whole(b \o Ids(u), <<>>, p, c) = Whole(b, u, p, c)
<1>1. b \o Ids(u) \in State
  BY IdsType, ConcatProperties DEF State
<1>2. (b \o Ids(u)) \o Ids(<<>>) = b \o Ids(u)
  BY <1>1, IdsEmpty, ConcatEmptySeq DEF State
<1> QED
  BY <1>2, Zenon DEF Whole

LEMMA OneMoreUpdate ==
  ASSUME NEW s \in State, NEW n \in Nat, FirstUpdates(s, n),
         n + 1 \in UpdateIds
  PROVE  FirstUpdates(Append(s, n + 1), n + 1)
<1>1. /\ Len(Append(s, n + 1)) = n + 1
      /\ \A i \in 1..n : Append(s, n + 1)[i] = s[i]
      /\ Append(s, n + 1)[n + 1] = n + 1
  BY AppendProperties DEF State, FirstUpdates
<1>2. \A i \in 1..(n + 1) : i \in 1..n \/ i = n + 1
  OBVIOUS
<1> QED
  BY <1>1, <1>2 DEF FirstUpdates

(* A skipped update or an applied one: it has been processed.              *)
LEMMA DoneType ==
  ASSUME TypeInv PROVE Done \in State
<1>1. Ids(newBase) \in State
  BY IdsType DEF TypeInv, TypeOK, State
<1> QED
  BY <1>1, ConcatProperties DEF TypeInv, TypeOK, State, Done

LEMMA DoneStep ==
  ASSUME TypeInv, SkipUpdate \/ ApplyUpdate
  PROVE  Done' = Append(Done, Head(rest).id)
<1> DEFINE u == Head(rest)
<1>1. u \in Update /\ Rebased(u) \in Update /\ Rebased(u).id = u.id
      /\ u.id \in UpdateIds
  <2>1. u \in Update
    BY HeadTailProperties DEF SkipUpdate, ApplyUpdate, TypeInv, TypeOK
  <2> HIDE DEF u
  <2> QED
    BY <2>1 DEF Update, Rebased
<1>2. ASSUME NEW v \in Update, v.id = u.id
      PROVE  /\ Append(newBase, v) # <<>>
             /\ Ids(Append(newBase, v)) = Append(Ids(newBase), u.id)
             /\ newBaseState \o Append(Ids(newBase), u.id)
                  = Append(newBaseState \o Ids(newBase), u.id)
             /\ newState \o Append(<<>>, u.id) = Append(newState, u.id)
  <2>1. newBase \in Seq(Update) /\ newBaseState \in Seq(UpdateIds)
        /\ newState \in Seq(UpdateIds) /\ Ids(newBase) \in Seq(UpdateIds)
    BY IdsType DEF TypeInv, TypeOK, State
  <2>2. <<>> \in Seq(UpdateIds) /\ newState \o <<>> = newState
    BY <2>1, EmptySeq, ConcatEmptySeq
  <2> HIDE DEF u
  <2>3. newState \o Append(<<>>, u.id) = Append(newState, u.id)
    <3>1. newState \o Append(<<>>, u.id) = Append(newState \o <<>>, u.id)
      BY <1>1, <2>1, <2>2, AppendConcat
    <3> QED
      BY <2>2, <3>1, Zenon
  <2>4. Append(newBase, v) # <<>>
        /\ Ids(Append(newBase, v)) = Append(Ids(newBase), u.id)
    BY <1>2, <2>1, AppendProperties, IdsAppend
  <2>5. newBaseState \o Append(Ids(newBase), u.id)
          = Append(newBaseState \o Ids(newBase), u.id)
    BY <1>1, <2>1, AppendConcat
  <2> QED
    BY <2>3, <2>4, <2>5
<1> HIDE DEF u
<1>3. CASE SkipUpdate
  <2>1. newBase' = Append(newBase, u) /\ newState' = newState
        /\ newBaseState' = IF newBase = <<>> THEN newState ELSE newBaseState
    BY <1>3 DEF SkipUpdate, u
  <2>2. newBase' # <<>> /\ Ids(newBase') = Append(Ids(newBase), u.id)
    BY <1>1, <1>2, <2>1
  <2>3. Done' = newBaseState' \o Ids(newBase')
    BY <2>2 DEF Done, Ids
  <2>4. CASE newBase = <<>>
    <3>1. Done = newState /\ Ids(newBase) = <<>>
      BY <2>4, IdsEmpty DEF Done
    <3>2. Done' = newState \o Append(<<>>, u.id)
      BY <2>1, <2>2, <2>3, <2>4, <3>1, Zenon
    <3> QED
      BY <1>1, <1>2, <3>1, <3>2, Zenon DEF u
  <2>5. CASE newBase # <<>>
    <3>1. Done = newBaseState \o Ids(newBase)
      BY <2>5 DEF Done
    <3>2. Done' = newBaseState \o Append(Ids(newBase), u.id)
      BY <2>1, <2>2, <2>3, <2>5, Zenon
    <3> QED
      BY <1>1, <1>2, <3>1, <3>2, Zenon DEF u
  <2> QED
    BY <2>4, <2>5
<1>4. CASE ApplyUpdate
  <2>1. /\ newState' = Append(newState, u.id) /\ newBaseState' = newBaseState
        /\ newBase' = IF newBase = <<>> THEN newBase
                      ELSE Append(newBase, Rebased(u))
    BY <1>4 DEF ApplyUpdate, u
  <2>2. CASE newBase = <<>>
    BY <2>1, <2>2, Zenon DEF Done, u
  <2>3. CASE newBase # <<>>
    <3>1. newBase' # <<>> /\ Ids(newBase') = Append(Ids(newBase), u.id)
      BY <1>1, <1>2, <2>1, <2>3
    <3>2. Done' = newBaseState' \o Ids(newBase')
      BY <3>1 DEF Done, Ids
    <3>3. Done' = newBaseState \o Append(Ids(newBase), u.id)
      BY <2>1, <3>1, <3>2, Zenon
    <3>4. Done = newBaseState \o Ids(newBase)
      BY <2>3 DEF Done
    <3> QED
      BY <1>1, <1>2, <3>3, <3>4, Zenon DEF u
  <2> QED
    BY <2>2, <2>3
<1> QED
  BY <1>3, <1>4

-----------------------------------------------------------------------------
LEMMA OrderInit == Init => OrderInv
<1> SUFFICES ASSUME Init PROVE OrderInv
  OBVIOUS
<1>1. <<>> \in State /\ <<>> \in Seq(Update) /\ Len(<<>>) = 0
  BY EmptySeq DEF State
<1>2. Whole(<<>>, <<>>, <<>>, <<>>) = <<>>
  <2>1. <<>> \o <<>> = <<>>
    BY <1>1, ConcatEmptySeq DEF State
  <2> QED
    BY <2>1, IdsEmpty, Zenon DEF Whole
<1>3. WholeOf(current) = <<>> /\ log = <<>> /\ pc = "idle"
  BY <1>2 DEF Init, InitialFiber, WholeOf
<1> QED
  BY <1>1, <1>3 DEF OrderInv, FirstUpdates

(* The updates taken out of concurrentQueues go to the end of the queue.   *)
LEMMA FinishQueueingOrder ==
  ASSUME TypeInv, FinishQueueing
  PROVE  WholeOf(current)' = WholeOf(current) /\ WholeOf(wip)' = WholeOf(wip)
<1>1. concurrentQueues' = <<>> /\ pending' = pending \o concurrentQueues
  BY DEF FinishQueueing
<1>2. /\ current'.baseState = current.baseState
      /\ current'.baseUpdates = current.baseUpdates
      /\ wip'.baseState = wip.baseState /\ wip'.baseUpdates = wip.baseUpdates
  BY DEF FinishQueueing, TypeInv, TypeOK, Fiber
<1>3. ASSUME NEW b \in State, NEW u \in Seq(Update)
      PROVE  Whole(b, u, pending \o concurrentQueues, <<>>)
               = Whole(b, u, pending, concurrentQueues)
  BY WholeQueued DEF TypeInv, TypeOK
<1>4. current.baseState \in State /\ current.baseUpdates \in Seq(Update)
      /\ wip.baseState \in State /\ wip.baseUpdates \in Seq(Update)
  BY DEF TypeInv, TypeOK, Fiber
<1> QED
  BY <1>1, <1>2, <1>3, <1>4 DEF WholeOf

LEMMA OrderStep == TypeInv /\ OrderInv /\ [Next]_vars => OrderInv'
<1> SUFFICES ASSUME TypeInv, OrderInv, [Next]_vars PROVE OrderInv'
  OBVIOUS
<1>0. /\ current.baseState \in State /\ current.baseUpdates \in Seq(Update)
      /\ wip.baseState \in State /\ wip.baseUpdates \in Seq(Update)
      /\ pending \in Seq(Update) /\ concurrentQueues \in Seq(Update)
      /\ rest \in Seq(Update) /\ Done \in State /\ Len(log) \in Nat
  BY DoneType, LenProperties DEF TypeInv, TypeOK, Fiber
<1>1. ASSUME NEW lane \in Lanes, EnqueueUpdate(lane) PROVE OrderInv'
  <2>1. PICK x \in Update : /\ concurrentQueues' = Append(concurrentQueues, x)
                            /\ x.id = Len(log) + 1
    <3> DEFINE new == [id |-> Len(log) + 1, lane |-> lane, callback |-> TRUE]
    <3>1. Len(log) + 1 \in UpdateIds
      BY <1>0, <1>1, MaxUpdatesAssumption DEF EnqueueUpdate, UpdateIds
    <3>2. new \in Update /\ new.id = Len(log) + 1
      BY <3>1 DEF Update
    <3>3. concurrentQueues' = Append(concurrentQueues, new)
      BY <1>1 DEF EnqueueUpdate
    <3> QED
      BY <3>2, <3>3
  <2>2. PICK n \in Nat : n = Len(log)
    BY <1>0
  <2>3. x.id = n + 1 /\ n + 1 \in UpdateIds /\ Len(log') = n + 1
    <3>1. Len(log') = Len(log) + 1
      BY <1>1, AppendProperties DEF EnqueueUpdate, TypeInv, TypeOK
    <3> QED
      BY <2>1, <2>2, <3>1 DEF Update
  <2>4. /\ current'.baseState = current.baseState
        /\ current'.baseUpdates = current.baseUpdates
        /\ wip'.baseState = wip.baseState /\ wip'.baseUpdates = wip.baseUpdates
        /\ pending' = pending /\ pc' = pc /\ pc # "processing"
    BY <1>1 DEF EnqueueUpdate, TypeInv, TypeOK, Fiber
  <2>5. ASSUME NEW b \in State, NEW u \in Seq(Update),
               FirstUpdates(Whole(b, u, pending, concurrentQueues), n)
        PROVE  FirstUpdates(Whole(b, u, pending, concurrentQueues'), n + 1)
    <3>1. Whole(b, u, pending, concurrentQueues')
            = Append(Whole(b, u, pending, concurrentQueues), n + 1)
      <4>1. Whole(b, u, pending, Append(concurrentQueues, x))
              = Append(Whole(b, u, pending, concurrentQueues), x.id)
        <5>1. pending \in Seq(Update) /\ concurrentQueues \in Seq(Update)
          BY <1>0
        <5>2. ASSUME NEW p \in Seq(Update), NEW c \in Seq(Update)
              PROVE  Whole(b, u, p, Append(c, x)) = Append(Whole(b, u, p, c), x.id)
          BY WholeAppend, ZenonT(40)
        <5> QED
          BY <5>1, <5>2, Zenon
      <4> QED
        BY <2>1, <2>3, <4>1, Zenon
    <3>2. Whole(b, u, pending, concurrentQueues) \in State
      BY <1>0, WholeType
    <3> QED
      BY <2>3, <2>5, <3>1, <3>2, OneMoreUpdate
  <2>6. FirstUpdates(WholeOf(current)', n + 1)
    BY <1>0, <2>2, <2>4, <2>5 DEF OrderInv, WholeOf
  <2>7. pc \in {"begun", "rendered"} => FirstUpdates(WholeOf(wip)', n + 1)
    BY <1>0, <2>2, <2>4, <2>5 DEF OrderInv, WholeOf
  <2> QED
    BY <2>3, <2>4, <2>6, <2>7 DEF OrderInv
<1>2. ASSUME NEW lane \in Lanes, UpdateOther(lane) PROVE OrderInv'
  BY <1>2 DEF UpdateOther, OrderInv, WholeOf, Done, queueVars, loopVars
<1>3. ASSUME NEW lanes \in SUBSET Lanes, PrepareFreshStack(lanes)
      PROVE  OrderInv'
  BY <1>3, FinishQueueingOrder DEF PrepareFreshStack, OrderInv
<1>4. CASE AbandonRender
  BY <1>4, FinishQueueingOrder DEF AbandonRender, OrderInv
<1>5. CASE OtherRootRenders
  BY <1>5, FinishQueueingOrder DEF OtherRootRenders, OrderInv
<1>6. CASE BailOut
  BY <1>6 DEF BailOut, OrderInv, WholeOf, queueVars
<1>7. CASE Begin
  <2>1. Whole(current.baseState, current.baseUpdates \o pending, <<>>,
              concurrentQueues) = WholeOf(current)
    BY <1>0, WholeQueued DEF WholeOf
  <2>2. /\ current'.baseState = current.baseState
        /\ current'.baseUpdates = current.baseUpdates \o pending
        /\ wip'.baseState = current.baseState
        /\ wip'.baseUpdates = current.baseUpdates \o pending
        /\ pending' = <<>> /\ concurrentQueues' = concurrentQueues
        /\ rest' = current.baseUpdates \o pending /\ log' = log
        /\ Done' = current.baseState
        /\ pc' \in {"begun", "processing"}
    BY <1>7 DEF Begin, Done, TypeInv, TypeOK, Fiber
  <2>3. /\ WholeOf(current)' = WholeOf(current)
        /\ WholeOf(wip)' = WholeOf(current)
        /\ Whole(Done, rest, pending, concurrentQueues)' = WholeOf(current)
    BY <2>1, <2>2, Zenon DEF WholeOf
  <2> QED
    BY <2>2, <2>3 DEF OrderInv
<1>8. CASE SkipUpdate \/ ApplyUpdate
  <2>1. Done' = Append(Done, Head(rest).id)
    BY <1>8, DoneStep
  <2>2. rest # <<>> /\ rest' = Tail(rest) /\ pc = "processing" /\ pc' = pc
        /\ UNCHANGED <<log, pending, concurrentQueues, current>>
    BY <1>8 DEF SkipUpdate, ApplyUpdate, queueVars
  <2>3. Whole(Append(Done, Head(rest).id), Tail(rest), pending, concurrentQueues)
          = Whole(Done, rest, pending, concurrentQueues)
    BY <1>0, <2>2, WholeStep
  <2>4. Whole(Done, rest, pending, concurrentQueues)'
          = Whole(Done, rest, pending, concurrentQueues)
    BY <2>1, <2>2, <2>3, Zenon
  <2>5. WholeOf(current)' = WholeOf(current)
    BY <2>2 DEF WholeOf
  <2> QED
    BY <2>2, <2>4, <2>5 DEF OrderInv
<1>9. CASE FinishProcessing
  <2>1. /\ wip'.baseState = IF newBase = <<>> THEN newState ELSE newBaseState
        /\ wip'.baseUpdates = newBase /\ pc = "processing" /\ rest = <<>>
        /\ UNCHANGED <<log, pending, concurrentQueues, current>>
        /\ pc' = "begun"
    BY <1>9 DEF FinishProcessing, queueVars
  <2>2. Whole(Done, <<>>, pending, concurrentQueues) = WholeOf(wip)'
    <3>1. CASE newBase = <<>>
      BY <2>1, <3>1, Zenon DEF Done, WholeOf
    <3>2. CASE newBase # <<>>
      <4>1. newBaseState \in State /\ newBase \in Seq(Update)
        BY DEF TypeInv, TypeOK
      <4>2. Whole(newBaseState \o Ids(newBase), <<>>, pending, concurrentQueues)
              = Whole(newBaseState, newBase, pending, concurrentQueues)
        BY <4>1, WholeEmpty
      <4> QED
        BY <2>1, <3>2, <4>2, Zenon DEF Done, WholeOf
    <3> QED
      BY <3>1, <3>2
  <2>3. WholeOf(current)' = WholeOf(current)
    BY <2>1 DEF WholeOf
  <2> QED
    BY <2>1, <2>2, <2>3 DEF OrderInv
<1>10. CASE CompleteRender
  BY <1>10, FinishQueueingOrder DEF CompleteRender, OrderInv
<1>11. CASE Commit
  BY <1>11 DEF Commit, OrderInv, WholeOf, queueVars
<1>12. CASE UNCHANGED vars
  BY <1>12 DEF vars, OrderInv, WholeOf, Done, queueVars, loopVars
<1> QED
  BY <1>1, <1>2, <1>3, <1>4, <1>5, <1>6, <1>7, <1>8, <1>9, <1>10, <1>11, <1>12
  DEF Next, ProcessUpdateQueue

(* No update is lost, repeated or overtaken: the queue and what is applied *)
(* of it are always all the updates in the order of the setState calls.    *)
THEOREM QueueKeepsOrder == Spec => []UpdatesInOrder
<1>1. TypeInv /\ OrderInv => UpdatesInOrder
  BY DEF OrderInv, UpdatesInOrder, WholeOf, Whole
<1> QED
  BY <1>1, TypeInit, TypeStep, OrderInit, OrderStep, PTL DEF Spec

-----------------------------------------------------------------------------
(* Lanes: an update keeps its lane until it is applied, then has none.     *)
Entries(updates) ==
  \A e \in updates : e.id \in 1..Len(log) /\ e.lane \in {NoLane, log[e.id]}

(* What is shown is in the base state or will not be skipped any more.     *)
Kept(shown, base, updates) ==
  \A u \in shown :
    u \in base \/ \E e \in updates : e.id = u /\ e.lane = NoLane

QueuedInv ==
  \A e \in Range(pending) \cup Range(concurrentQueues) :
    e.id \in 1..Len(log) /\ e.lane = log[e.id]

FiberInv(fiber) ==
  /\ Entries(Range(fiber.baseUpdates))
  /\ Range(fiber.baseState) \subseteq Range(fiber.memoizedState)
  /\ Kept(Range(fiber.memoizedState), Range(fiber.baseState),
          Range(fiber.baseUpdates))

LoopInv ==
  /\ pending = <<>>
  /\ Entries(Range(rest)) /\ Entries(Range(newBase))
  /\ Kept(Range(current.memoizedState), Range(newState), Range(rest))
  /\ \A e \in Range(newBase) :
       IF e.lane = NoLane THEN e.id \in Range(newState) ELSE e.lane \in newLanes
  /\ newBase # <<>> =>
       /\ Range(newBaseState) \subseteq Range(newState)
       /\ Kept(Range(newState), Range(newBaseState), Range(newBase))

(* The lanes an attempt leaves for the updates it does not apply.          *)
RemainingLanes ==
  \A u \in 1..Len(log) :
    u \notin Range(wip.memoizedState) =>
      IF pc = "begun"
        THEN log[u] \in wip.lanes \cup ConcurrentlyUpdatedLanes
        ELSE log[u] \in wip.lanes /\ log[u] \in childLanes \cup ConcurrentlyUpdatedLanes

WipInv ==
  /\ FiberInv(wip)
  /\ Range(current.memoizedState) \subseteq Range(wip.memoizedState)
  /\ RemainingLanes

LanesInv ==
  /\ QueuedInv /\ FiberInv(current)
  /\ UpdateLanesArePending /\ TransitionsAreInSharedLanes
  /\ pc = "processing" => LoopInv
  /\ pc \in {"begun", "rendered"} => WipInv

-----------------------------------------------------------------------------
LEMMA RangeOfEmpty == Range(<<>>) = {}
BY DEF Range

LEMMA RangeOfHead ==
  ASSUME NEW S, NEW r \in Seq(S), r # <<>>
  PROVE  Range(r) = {Head(r)} \cup Range(Tail(r))
<1>1. Head(r) \in S /\ Tail(r) \in Seq(S)
  BY HeadTailProperties
<1>2. <<>> \in Seq(S) /\ Append(<<>>, Head(r)) = <<Head(r)>>
  BY EmptySeq
<1>3. <<Head(r)>> \in Seq(S) /\ Range(<<Head(r)>>) = {Head(r)}
  BY <1>1 DEF Range
<1>4. <<Head(r)>> \o Tail(r) = r
  <2>1. Append(<<>>, Head(r)) \o Tail(r) = <<>> \o r
    BY <1>2, MoveHead
  <2>2. <<>> \o r = r
    BY ConcatEmptySeq
  <2> QED
    BY <1>2, <2>1, <2>2
<1>5. Range(<<Head(r)>> \o Tail(r)) = Range(<<Head(r)>>) \cup Range(Tail(r))
  <2>1. ASSUME NEW s \in Seq(S), NEW t \in Seq(S)
        PROVE  Range(s \o t) = Range(s) \cup Range(t)
    BY RangeConcatenation
  <2> QED
    BY <1>1, <1>3, <2>1, Zenon
<1> QED
  BY <1>3, <1>4, <1>5, Zenon

LEMMA RangeOfIds ==
  ASSUME NEW s \in Seq(Update)
  PROVE  Range(Ids(s)) = {e.id : e \in Range(s)}
<1>1. DOMAIN s = 1..Len(s) /\ DOMAIN Ids(s) = 1..Len(s)
      /\ \A i \in 1..Len(s) : Ids(s)[i] = s[i].id
  BY LenProperties, IdsType DEF Ids
<1>2. Range(Ids(s)) = {s[i].id : i \in 1..Len(s)}
  BY <1>1 DEF Range
<1>3. Range(s) = {s[i] : i \in 1..Len(s)}
  BY <1>1 DEF Range
<1> QED
  BY <1>2, <1>3

(* An update of the log is applied, or is in one of the queues.            *)
LEMMA EveryUpdateIsSomewhere ==
  ASSUME NEW b \in State, NEW u \in Seq(Update), NEW p \in Seq(Update),
         NEW c \in Seq(Update), NEW n \in Nat,
         FirstUpdates(Whole(b, u, p, c), n), NEW i \in 1..n
  PROVE  i \in Range(b) \/ \E e \in Range(u) \cup Range(p) \cup Range(c) : e.id = i
<1>1. /\ b \in Seq(UpdateIds) /\ Ids(u) \in Seq(UpdateIds)
      /\ Ids(p) \in Seq(UpdateIds) /\ Ids(c) \in Seq(UpdateIds)
  BY IdsType DEF State
<1>0. ASSUME NEW s \in Seq(UpdateIds), NEW t \in Seq(UpdateIds)
      PROVE  s \o t \in Seq(UpdateIds) /\ Range(s \o t) = Range(s) \cup Range(t)
  BY ConcatProperties, RangeConcatenation
<1>2. b \o Ids(u) \in Seq(UpdateIds)
      /\ Range(b \o Ids(u)) = Range(b) \cup Range(Ids(u))
  BY <1>0, <1>1, Zenon
<1>3. b \o Ids(u) \o Ids(p) \in Seq(UpdateIds)
      /\ Range(b \o Ids(u) \o Ids(p)) = Range(b \o Ids(u)) \cup Range(Ids(p))
  BY <1>0, <1>1, <1>2, Zenon
<1>4. Range(b \o Ids(u) \o Ids(p) \o Ids(c))
        = Range(b \o Ids(u) \o Ids(p)) \cup Range(Ids(c))
  BY <1>0, <1>1, <1>3, Zenon
<1>5. Range(Whole(b, u, p, c))
        = Range(b) \cup Range(Ids(u)) \cup Range(Ids(p)) \cup Range(Ids(c))
  BY <1>2, <1>3, <1>4, Zenon DEF Whole
<1>6. i \in Range(Whole(b, u, p, c))
  <2>1. Whole(b, u, p, c) \in Seq(UpdateIds)
    BY WholeType DEF State
  <2>2. DOMAIN Whole(b, u, p, c) = 1..n /\ Whole(b, u, p, c)[i] = i
    BY <2>1, LenProperties DEF FirstUpdates
  <2> QED
    BY <2>2 DEF Range
<1>7. /\ Range(Ids(u)) = {e.id : e \in Range(u)}
      /\ Range(Ids(p)) = {e.id : e \in Range(p)}
      /\ Range(Ids(c)) = {e.id : e \in Range(c)}
  BY RangeOfIds
<1> QED
  BY <1>5, <1>6, <1>7

LEMMA LanesInit == Init => LanesInv
<1> SUFFICES ASSUME Init PROVE LanesInv
  OBVIOUS
<1>1. /\ Range(<<>>) = {} /\ Len(<<>>) = 0 /\ 1..0 = {}
  BY RangeOfEmpty
<1>2. log = <<>> /\ pending = <<>> /\ concurrentQueues = <<>> /\ pc = "idle"
      /\ current.memoizedState = <<>> /\ current.baseUpdates = <<>>
      /\ current.baseState = <<>>
  BY DEF Init, InitialFiber
<1>3. QueuedInv /\ FiberInv(current)
  BY <1>1, <1>2 DEF QueuedInv, FiberInv, Entries, Kept
<1>4. UpdateLanesArePending /\ TransitionsAreInSharedLanes
  BY <1>1, <1>2 DEF UpdateLanesArePending, TransitionsAreInSharedLanes
<1> QED
  BY <1>2, <1>3, <1>4 DEF LanesInv

LEMMA FinishQueueingLanes ==
  ASSUME TypeInv, FinishQueueing, log' = log
  PROVE  /\ QueuedInv => QueuedInv'
         /\ FiberInv(current) => FiberInv(current)'
         /\ FiberInv(wip) => FiberInv(wip)'
         /\ current'.memoizedState = current.memoizedState
         /\ current'.lanes = current.lanes \cup ConcurrentlyUpdatedLanes
         /\ wip'.memoizedState = wip.memoizedState
         /\ wip'.lanes = wip.lanes \cup ConcurrentlyUpdatedLanes
         /\ ConcurrentlyUpdatedLanes' = {}
<1>1. /\ current'.memoizedState = current.memoizedState
      /\ current'.lanes = current.lanes \cup ConcurrentlyUpdatedLanes
      /\ current'.baseState = current.baseState
      /\ current'.baseUpdates = current.baseUpdates
      /\ wip'.memoizedState = wip.memoizedState
      /\ wip'.lanes = wip.lanes \cup ConcurrentlyUpdatedLanes
      /\ wip'.baseState = wip.baseState
      /\ wip'.baseUpdates = wip.baseUpdates
  BY DEF FinishQueueing, TypeInv, TypeOK, Fiber
<1>2. ConcurrentlyUpdatedLanes' = {}
  BY FinishQueueingTypes
<1>3. /\ Range(pending') = Range(pending) \cup Range(concurrentQueues)
      /\ Range(concurrentQueues') = {}
  <2>1. pending \in Seq(Update) /\ concurrentQueues \in Seq(Update)
    BY DEF TypeInv, TypeOK
  <2>2. pending' = pending \o concurrentQueues /\ concurrentQueues' = <<>>
    BY DEF FinishQueueing
  <2>3. Range(pending \o concurrentQueues) = Range(pending) \cup Range(concurrentQueues)
    BY <2>1, RangeConcatenation
  <2> QED
    BY <2>2, <2>3, RangeOfEmpty, Zenon
<1>4. QueuedInv => QueuedInv'
  BY <1>3 DEF QueuedInv
<1>5. /\ FiberInv(current) => FiberInv(current)'
      /\ FiberInv(wip) => FiberInv(wip)'
  BY <1>1 DEF FiberInv, Entries, Kept
<1> QED
  BY <1>1, <1>2, <1>4, <1>5

LEMMA LanesStep ==
  TypeInv /\ OrderInv /\ LanesInv /\ [Next]_vars => LanesInv'
<1> SUFFICES ASSUME TypeInv, OrderInv, LanesInv, [Next]_vars
             PROVE  LanesInv'
  OBVIOUS
<1> USE DEF LanesInv
<1>0. /\ \A T : <<>> \in Seq(T)
      /\ Range(<<>>) = {} /\ Len(log) \in Nat
  BY EmptySeq, RangeOfEmpty, LenProperties DEF TypeInv, TypeOK
<1>1. ASSUME NEW lane \in Lanes, EnqueueUpdate(lane) PROVE LanesInv'
  <2>1. PICK x \in Update :
          /\ concurrentQueues' = Append(concurrentQueues, x)
          /\ x.id = Len(log) + 1 /\ x.lane = lane
    <3> DEFINE new == [id |-> Len(log) + 1, lane |-> lane, callback |-> TRUE]
    <3>1. Len(log) + 1 \in UpdateIds
      BY <1>0, <1>1, MaxUpdatesAssumption DEF EnqueueUpdate, UpdateIds
    <3>2. new \in Update /\ new.id = Len(log) + 1 /\ new.lane = lane
      BY <3>1 DEF Update
    <3>3. concurrentQueues' = Append(concurrentQueues, new)
      BY <1>1 DEF EnqueueUpdate
    <3> QED
      BY <3>2, <3>3
  <2>2. PICK n \in Nat : n = Len(log)
    BY <1>0
  <2>3. /\ Len(log') = n + 1 /\ log'[n + 1] = lane
        /\ \A u \in 1..n : log'[u] = log[u]
    BY <1>1, <2>2, AppendProperties DEF EnqueueUpdate, TypeInv, TypeOK
  <2>4. \A u \in 1..(n + 1) : u \in 1..n \/ u = n + 1
    OBVIOUS
  <2>5. /\ \A u \in 1..n : u \in 1..(n + 1)
        /\ n + 1 \in 1..(n + 1)
    OBVIOUS
  <2>6. Range(concurrentQueues') = Range(concurrentQueues) \cup {x}
    <3>1. concurrentQueues \in Seq(Update)
      BY DEF TypeInv, TypeOK
    <3>2. Range(Append(concurrentQueues, x)) = Range(concurrentQueues) \cup {x}
      BY <3>1, RangeAppend
    <3> QED
      BY <2>1, <3>2, Zenon
  <2>7. ConcurrentlyUpdatedLanes' = ConcurrentlyUpdatedLanes \cup {lane}
    BY <2>1, <2>6 DEF ConcurrentlyUpdatedLanes
  <2>8. /\ current'.memoizedState = current.memoizedState
        /\ current'.baseState = current.baseState
        /\ current'.baseUpdates = current.baseUpdates
        /\ current'.lanes = current.lanes \cup {lane}
        /\ wip'.memoizedState = wip.memoizedState
        /\ wip'.baseState = wip.baseState
        /\ wip'.baseUpdates = wip.baseUpdates
        /\ wip'.lanes = wip.lanes \cup {lane}
        /\ pending' = pending /\ childLanes' = childLanes
        /\ pc' = pc /\ pc # "processing"
        /\ pendingLanes' = pendingLanes \cup {lane}
        /\ sharedLanes' = IF lane \in TransitionLanes
                            THEN (sharedLanes \cap pendingLanes') \cup {lane}
                            ELSE sharedLanes
    BY <1>1 DEF EnqueueUpdate, EntangleTransitions, TypeInv, TypeOK, Fiber
  <2>9. ASSUME NEW E, Entries(E) PROVE Entries(E)'
    BY <2>2, <2>3, <2>5, <2>9 DEF Entries
  <2>10. QueuedInv'
    <3>1. \A e \in Range(pending) \cup Range(concurrentQueues) :
            e.id \in 1..n /\ e.lane = log[e.id]
      BY <2>2 DEF QueuedInv
    <3> QED
      BY <2>1, <2>2, <2>3, <2>5, <2>6, <2>8, <3>1 DEF QueuedInv
  <2>11. FiberInv(current)'
    BY <2>8, <2>9 DEF FiberInv, Kept
  <2>12. UpdateLanesArePending'
    BY <2>2, <2>3, <2>4, <2>8 DEF UpdateLanesArePending
  <2>13. TransitionsAreInSharedLanes'
    BY <2>2, <2>3, <2>4, <2>8
    DEF UpdateLanesArePending, TransitionsAreInSharedLanes
  <2>14. pc \in {"begun", "rendered"} => WipInv'
    <3> SUFFICES ASSUME pc \in {"begun", "rendered"} PROVE WipInv'
      OBVIOUS
    <3>1. FiberInv(wip)'
      BY <2>8, <2>9 DEF FiberInv, Kept, WipInv
    <3>2. RemainingLanes'
      BY <2>2, <2>3, <2>4, <2>7, <2>8 DEF WipInv, RemainingLanes
    <3> QED
      BY <2>8, <3>1, <3>2 DEF WipInv
  <2> QED
    BY <2>8, <2>10, <2>11, <2>12, <2>13, <2>14
<1>2. ASSUME NEW lane \in Lanes, UpdateOther(lane) PROVE LanesInv'
  BY <1>2 DEF UpdateOther, QueuedInv, FiberInv, Entries, Kept,
     UpdateLanesArePending, TransitionsAreInSharedLanes, LoopInv, WipInv,
     RemainingLanes, ConcurrentlyUpdatedLanes, queueVars, loopVars
<1>3. ASSUME NEW lanes \in SUBSET Lanes, PrepareFreshStack(lanes)
      PROVE  LanesInv'
  BY <1>3, FinishQueueingLanes
  DEF PrepareFreshStack, UpdateLanesArePending, TransitionsAreInSharedLanes,
      rootVars
<1>4. CASE AbandonRender
  BY <1>4, FinishQueueingLanes
  DEF AbandonRender, UpdateLanesArePending, TransitionsAreInSharedLanes,
      rootVars
<1>5. CASE OtherRootRenders
  BY <1>5, FinishQueueingLanes
  DEF OtherRootRenders, UpdateLanesArePending, TransitionsAreInSharedLanes,
      rootVars, WipInv, RemainingLanes
<1>6. CASE BailOut
  <2>1. UNCHANGED <<log, pending, concurrentQueues, sharedLanes, current,
                    pendingLanes>> /\ wip' = current /\ pc' = "begun"
    BY <1>6 DEF BailOut, queueVars, rootVars
  <2>2. FiberInv(wip)' /\ FiberInv(current)'
    BY <2>1 DEF FiberInv, Entries, Kept
  <2>3. RemainingLanes'
    BY <2>1 DEF RemainingLanes, UpdateLanesArePending
  <2> QED
    BY <2>1, <2>2, <2>3
    DEF QueuedInv, UpdateLanesArePending, TransitionsAreInSharedLanes, WipInv
<1>7. CASE Begin
  <2>1. /\ current'.baseState = current.baseState
        /\ current'.baseUpdates = current.baseUpdates \o pending
        /\ current'.memoizedState = current.memoizedState
        /\ current'.lanes = current.lanes
        /\ wip'.baseState = current.baseState
        /\ wip'.baseUpdates = current.baseUpdates \o pending
        /\ wip'.memoizedState = current.memoizedState
        /\ wip'.lanes = {}
        /\ rest' = current.baseUpdates \o pending
        /\ newState' = current.baseState /\ newBase' = <<>>
        /\ pending' = <<>>
        /\ UNCHANGED <<log, concurrentQueues, sharedLanes, pendingLanes>>
        /\ pc' = IF rest' = <<>> THEN "begun" ELSE "processing"
    BY <1>7 DEF Begin, TypeInv, TypeOK, Fiber, rootVars
  <2>2. Range(current.baseUpdates \o pending)
          = Range(current.baseUpdates) \cup Range(pending)
    <3>1. current.baseUpdates \in Seq(Update) /\ pending \in Seq(Update)
      BY DEF TypeInv, TypeOK, Fiber
    <3> QED
      BY <3>1, RangeConcatenation
  <2>3. Entries(Range(current.baseUpdates) \cup Range(pending))
    BY <2>1 DEF FiberInv, Entries, QueuedInv
  <2>4. Kept(Range(current.memoizedState), Range(current.baseState),
             Range(current.baseUpdates) \cup Range(pending))
    BY DEF FiberInv, Kept
  <2>5. QueuedInv'
    BY <1>0, <2>1 DEF QueuedInv
  <2>6. FiberInv(current)' /\ FiberInv(wip)'
    BY <2>1, <2>2, <2>3, <2>4 DEF FiberInv, Entries, Kept
  <2>7. UpdateLanesArePending' /\ TransitionsAreInSharedLanes'
    BY <2>1 DEF UpdateLanesArePending, TransitionsAreInSharedLanes
  <2>8. pc' = "processing" => LoopInv'
    BY <1>0, <2>1, <2>2, <2>3, <2>4 DEF LoopInv, Entries, Kept
  <2>9. pc' # "processing" => RemainingLanes'
    <3> SUFFICES ASSUME pc' # "processing" PROVE RemainingLanes'
      OBVIOUS
    <3>1. pc' = "begun" /\ Range(current.baseUpdates) = {} /\ Range(pending) = {}
      BY <1>0, <2>1, <2>2
    <3>2. ASSUME NEW u \in 1..Len(log), u \notin Range(current.memoizedState)
          PROVE  log[u] \in ConcurrentlyUpdatedLanes
      <4>1. /\ current.baseState \in State /\ current.baseUpdates \in Seq(Update)
            /\ pending \in Seq(Update) /\ concurrentQueues \in Seq(Update)
            /\ FirstUpdates(Whole(current.baseState, current.baseUpdates,
                                  pending, concurrentQueues), Len(log))
        BY DEF TypeInv, TypeOK, Fiber, OrderInv, WholeOf
      <4>2. PICK n \in Nat : n = Len(log)
        BY <1>0
      <4>3. u \in Range(current.baseState) \/
              \E e \in Range(current.baseUpdates) \cup Range(pending)
                         \cup Range(concurrentQueues) : e.id = u
        BY <4>1, <4>2, EveryUpdateIsSomewhere
      <4>4. PICK e \in Range(concurrentQueues) : e.id = u
        BY <3>1, <3>2, <4>3 DEF FiberInv
      <4> QED
        BY <4>4 DEF QueuedInv, ConcurrentlyUpdatedLanes
    <3>3. ConcurrentlyUpdatedLanes' = ConcurrentlyUpdatedLanes
      BY <2>1 DEF ConcurrentlyUpdatedLanes
    <3> QED
      BY <2>1, <3>1, <3>2, <3>3 DEF RemainingLanes
  <2> QED
    BY <2>1, <2>5, <2>6, <2>7, <2>8, <2>9 DEF WipInv
<1>8. CASE SkipUpdate \/ ApplyUpdate
  <2> DEFINE x == Head(rest)
  <2>1. /\ pc = "processing" /\ pc' = pc /\ rest # <<>> /\ rest' = Tail(rest)
        /\ UNCHANGED <<log, pending, concurrentQueues, current, sharedLanes,
                       pendingLanes>>
    BY <1>8 DEF SkipUpdate, ApplyUpdate, queueVars, rootVars
  <2>2. /\ x \in Update /\ x.id \in UpdateIds /\ Rebased(x) \in Update
        /\ Range(rest) = {x} \cup Range(Tail(rest))
        /\ Rebased(x).id = x.id /\ Rebased(x).lane = NoLane
    <3>1. rest \in Seq(Update)
      BY DEF TypeInv, TypeOK
    <3>2. x \in Update /\ Range(rest) = {x} \cup Range(Tail(rest))
      BY <2>1, <3>1, HeadTailProperties, RangeOfHead
    <3> HIDE DEF x
    <3> QED
      BY <3>2 DEF Update, Rebased
  <2>3. \A u \in Update : Range(Append(newBase, u)) = Range(newBase) \cup {u}
                          /\ Append(newBase, u) # <<>>
    BY RangeAppend, AppendProperties DEF TypeInv, TypeOK
  <2>4. Range(Append(newState, x.id)) = Range(newState) \cup {x.id}
    BY <2>2, RangeAppend DEF TypeInv, TypeOK, State
  <2>5. QueuedInv' /\ FiberInv(current)' /\ UpdateLanesArePending'
        /\ TransitionsAreInSharedLanes'
    BY <2>1 DEF QueuedInv, FiberInv, Entries, Kept, UpdateLanesArePending,
                TransitionsAreInSharedLanes
  <2>6. /\ LoopInv /\ x.id \in 1..Len(log) /\ x.lane \in {NoLane, log[x.id]}
        /\ Entries(Range(rest'))
    BY <2>1, <2>2 DEF LoopInv, Entries
  <2>7. ASSUME SkipUpdate PROVE LoopInv'
    <3>1. /\ newBase' = Append(newBase, x) /\ newState' = newState
          /\ newBaseState' = IF newBase = <<>> THEN newState ELSE newBaseState
          /\ newLanes' = newLanes \cup {x.lane} /\ x.lane # NoLane
      BY <2>7 DEF SkipUpdate, Sufficient
    <3> HIDE DEF x
    <3>2. Range(newBase') = Range(newBase) \cup {x} /\ newBase' # <<>>
      BY <2>2, <2>3, <3>1
    <3>3. Entries(Range(newBase'))
      BY <2>1, <2>6, <3>2 DEF LoopInv, Entries
    <3>4. Kept(Range(current.memoizedState), Range(newState), Range(rest))'
      BY <2>1, <2>2, <2>6, <3>1 DEF LoopInv, Kept
    <3>5. \A e \in Range(newBase') :
            IF e.lane = NoLane THEN e.id \in Range(newState')
                               ELSE e.lane \in newLanes'
      BY <2>6, <3>1, <3>2 DEF LoopInv
    <3>6. /\ Range(newBaseState') \subseteq Range(newState')
          /\ Kept(Range(newState'), Range(newBaseState'), Range(newBase'))
      BY <2>6, <3>1, <3>2 DEF LoopInv, Kept
    <3> QED
      BY <2>1, <2>6, <3>3, <3>4, <3>5, <3>6 DEF LoopInv, Entries, Kept
  <2>8. ASSUME ApplyUpdate PROVE LoopInv'
    <3>1. /\ newState' = Append(newState, x.id) /\ newBaseState' = newBaseState
          /\ newBase' = IF newBase = <<>> THEN newBase
                        ELSE Append(newBase, Rebased(x))
          /\ newLanes' = newLanes
      BY <2>8 DEF ApplyUpdate
    <3> HIDE DEF x
    <3>2. Range(newState') = Range(newState) \cup {x.id}
      BY <2>4, <3>1, Zenon
    <3>3. Kept(Range(current.memoizedState), Range(newState), Range(rest))'
      BY <2>1, <2>2, <2>6, <3>2 DEF LoopInv, Kept
    <3>4. CASE newBase = <<>>
      BY <1>0, <2>1, <2>6, <3>1, <3>3, <3>4 DEF LoopInv, Entries, Kept
    <3>5. CASE newBase # <<>>
      <4>1. Range(newBase') = Range(newBase) \cup {Rebased(x)}
        BY <2>2, <2>3, <3>1, <3>5
      <4>2. Entries(Range(newBase'))
        BY <2>1, <2>2, <2>6, <4>1 DEF LoopInv, Entries
      <4>3. \A e \in Range(newBase') :
              IF e.lane = NoLane THEN e.id \in Range(newState')
                                 ELSE e.lane \in newLanes'
        BY <2>2, <2>6, <3>1, <3>2, <4>1 DEF LoopInv
      <4>4. /\ Range(newBaseState') \subseteq Range(newState')
            /\ Kept(Range(newState'), Range(newBaseState'), Range(newBase'))
        BY <2>2, <2>6, <3>1, <3>2, <3>5, <4>1 DEF LoopInv, Kept
      <4> QED
        BY <2>1, <2>6, <3>3, <4>2, <4>3, <4>4 DEF LoopInv, Entries, Kept
    <3> QED
      BY <3>4, <3>5
  <2> QED
    BY <1>8, <2>1, <2>5, <2>7, <2>8
<1>9. CASE FinishProcessing
  <2>1. /\ wip'.baseState = IF newBase = <<>> THEN newState ELSE newBaseState
        /\ wip'.baseUpdates = newBase /\ wip'.memoizedState = newState
        /\ wip'.lanes = newLanes /\ pc = "processing" /\ rest = <<>>
        /\ UNCHANGED <<log, pending, concurrentQueues, current, sharedLanes,
                       pendingLanes>>
        /\ pc' = "begun"
    BY <1>9 DEF FinishProcessing, queueVars, rootVars
  <2>2. QueuedInv' /\ FiberInv(current)' /\ UpdateLanesArePending'
        /\ TransitionsAreInSharedLanes'
    BY <2>1 DEF QueuedInv, FiberInv, Entries, Kept, UpdateLanesArePending,
                TransitionsAreInSharedLanes
  <2>3. LoopInv
    BY <2>1
  <2>4. FiberInv(wip)'
    <3>1. CASE newBase = <<>>
      BY <1>0, <2>1, <3>1 DEF FiberInv, Entries, Kept
    <3>2. CASE newBase # <<>>
      BY <2>1, <2>3, <3>2 DEF FiberInv, Entries, Kept, LoopInv
    <3> QED
      BY <3>1, <3>2
  <2>5. Range(current.memoizedState)' \subseteq Range(wip.memoizedState)'
    BY <1>0, <2>1, <2>3 DEF LoopInv, Kept
  <2>6. ASSUME NEW u \in 1..Len(log), u \notin Range(newState)
        PROVE  log[u] \in newLanes \cup ConcurrentlyUpdatedLanes
    <3>1. PICK n \in Nat : n = Len(log)
      BY <1>0
    <3>2. newBase # <<>> \/ Range(newBase) = {}
      BY <1>0
    <3>3. PICK b \in State : /\ Range(b) \subseteq Range(newState)
                             /\ FirstUpdates(Whole(b, newBase, pending,
                                                   concurrentQueues), n)
      <4>1. newState \in State /\ newBaseState \in State
        BY DEF TypeInv, TypeOK
      <4>2. wip'.baseState \in State
            /\ Range(wip'.baseState) \subseteq Range(newState)
        BY <2>1, <2>3, <4>1 DEF LoopInv
      <4>3. OrderInv'
        BY OrderStep
      <4>4. FirstUpdates(Whole(wip'.baseState, newBase, pending,
                               concurrentQueues), n)
        BY <2>1, <3>1, <4>3 DEF OrderInv, WholeOf
      <4> QED
        BY <4>2, <4>4
    <3>4. u \in Range(b) \/ \E e \in Range(newBase) \cup Range(pending)
                                       \cup Range(concurrentQueues) : e.id = u
      <4>1. newBase \in Seq(Update) /\ pending \in Seq(Update)
            /\ concurrentQueues \in Seq(Update)
        BY DEF TypeInv, TypeOK
      <4> QED
        BY <3>1, <3>3, <4>1, EveryUpdateIsSomewhere
    <3>5. PICK e \in Range(newBase) \cup Range(concurrentQueues) : e.id = u
      BY <1>0, <2>3, <2>6, <3>3, <3>4 DEF LoopInv
    <3>6. CASE e \in Range(newBase)
      BY <2>3, <2>6, <3>5, <3>6 DEF LoopInv, Entries
    <3>7. CASE e \in Range(concurrentQueues)
      BY <3>5, <3>7 DEF QueuedInv, ConcurrentlyUpdatedLanes
    <3> QED
      BY <3>5, <3>6, <3>7
  <2>7. RemainingLanes'
    BY <2>1, <2>6 DEF RemainingLanes, ConcurrentlyUpdatedLanes
  <2> QED
    BY <2>1, <2>2, <2>4, <2>5, <2>7 DEF WipInv
<1>10. CASE CompleteRender
  <2>1. pc = "begun" /\ childLanes' = wip'.lanes /\ pc' = "rendered"
        /\ UNCHANGED <<log, sharedLanes, pendingLanes>> /\ FinishQueueing
    BY <1>10 DEF CompleteRender, rootVars
  <2>2. RemainingLanes'
    BY <2>1, FinishQueueingLanes DEF RemainingLanes, WipInv
  <2> QED
    BY <2>1, <2>2, FinishQueueingLanes
    DEF UpdateLanesArePending, TransitionsAreInSharedLanes, WipInv
<1>11. CASE Commit
  <2>1. /\ current' = wip /\ pc = "rendered" /\ pc' = "idle"
        /\ childLanes \cup ConcurrentlyUpdatedLanes \subseteq pendingLanes'
        /\ UNCHANGED <<log, pending, concurrentQueues, sharedLanes>>
    BY <1>11 DEF Commit, queueVars
  <2>2. QueuedInv' /\ FiberInv(current)'
    BY <2>1 DEF QueuedInv, WipInv, FiberInv, Entries, Kept
  <2>3. UpdateLanesArePending' /\ TransitionsAreInSharedLanes'
    BY <2>1 DEF WipInv, RemainingLanes, UpdateLanesArePending,
                TransitionsAreInSharedLanes
  <2> QED
    BY <2>1, <2>2, <2>3
<1>12. CASE UNCHANGED vars
  BY <1>12 DEF vars, QueuedInv, FiberInv, Entries, Kept,
     UpdateLanesArePending, TransitionsAreInSharedLanes, LoopInv, WipInv,
     RemainingLanes, ConcurrentlyUpdatedLanes, queueVars, loopVars, rootVars
<1> QED
  BY <1>1, <1>2, <1>3, <1>4, <1>5, <1>6, <1>7, <1>8, <1>9, <1>10, <1>11, <1>12
  DEF Next, ProcessUpdateQueue

(* No update is forgotten: its lane stays pending on the root and set on   *)
(* the fiber until it is on the screen, whichever renders were abandoned   *)
(* after they had taken it out of the shared queue.                        *)
THEOREM LanesStayPending == Spec => []UpdateLanesArePending
<1>1. LanesInv => UpdateLanesArePending
  BY DEF LanesInv
<1> QED
  BY <1>1, TypeInit, TypeStep, OrderInit, OrderStep, LanesInit, LanesStep, PTL
  DEF Spec

(* A queue's transitions stay entangled as long as one of them is not on   *)
(* the screen, although shared.lanes is cut down to root.pendingLanes.     *)
THEOREM TransitionsStayEntangled == Spec => []TransitionsAreInSharedLanes
<1>1. LanesInv => TransitionsAreInSharedLanes
  BY DEF LanesInv
<1> QED
  BY <1>1, TypeInit, TypeStep, OrderInit, OrderStep, LanesInit, LanesStep, PTL
  DEF Spec

-----------------------------------------------------------------------------
(* The queue implements UpdateLog: what a commit shows are the updates     *)
(* shown before and the updates of its lanes that were queued when it      *)
(* began, in their order.                                                  *)

(* The screen: an entry of a queue has its lane as long as it is not shown.*)
Matches(updates, shown) ==
  \A e \in updates : e.lane = NoLane <=> e.id \in shown

FiberScreen(fiber) ==
  /\ Log!Increasing(fiber.memoizedState)
  /\ Range(fiber.memoizedState) \subseteq 1..Len(log)
  /\ Matches(Range(fiber.baseUpdates) \cup Range(pending) \cup Range(concurrentQueues),
             Range(fiber.memoizedState))

(* What the loop has applied of the updates it has passed.                 *)
LoopScreen ==
  /\ Log!Increasing(newState)
  /\ Range(newState) = {u \in 1..Len(Done) : u \in Range(current.memoizedState)
                                             \/ log[u] \in renderLanes}
  /\ Matches(Range(newBase), Range(newState))
  /\ Matches(Range(rest), Range(current.memoizedState))

(* A finished attempt has added the updates of its lanes.                  *)
WipScreen ==
  /\ FiberScreen(wip)
  /\ \E lanes \in SUBSET Lanes, n \in 0..Len(log) :
       Range(wip.memoizedState)
         = Range(current.memoizedState) \cup {u \in 1..n : log[u] \in lanes}

ScreenInv ==
  /\ FiberScreen(current)
  /\ pc = "processing" => LoopScreen
  /\ pc \in {"begun", "rendered"} => WipScreen

-----------------------------------------------------------------------------
LEMMA FirstOfFirst ==
  ASSUME NEW s \in Seq(UpdateIds), NEW t \in Seq(UpdateIds), NEW n \in Nat,
         FirstUpdates(s \o t, n)
  PROVE  \E m \in 0..n : FirstUpdates(s, m) /\ Range(t) \subseteq (m + 1)..n
<1>1. PICK m \in Nat : m = Len(s)
  BY LenProperties
<1>2. PICK k \in Nat : k = Len(t)
  BY LenProperties
<1>3. Len(s \o t) = m + k
      /\ \A i \in 1..(m + k) : (s \o t)[i] = IF i <= m THEN s[i] ELSE t[i - m]
  BY <1>1, <1>2, ConcatProperties
<1>4. n = m + k /\ \A i \in 1..n : (s \o t)[i] = i
  BY <1>3 DEF FirstUpdates
<1>5. \A i \in 1..m : i \in 1..n /\ i <= m
  BY <1>4
<1>6. FirstUpdates(s, m)
  BY <1>1, <1>3, <1>4, <1>5 DEF FirstUpdates
<1>7. ASSUME NEW j \in 1..k PROVE t[j] = m + j
  <2>1. m + j \in 1..n /\ ~(m + j <= m) /\ (m + j) - m = j
    BY <1>4
  <2> QED
    BY <1>3, <1>4, <2>1
<1>8. Range(t) = {t[j] : j \in 1..k}
  BY <1>2, LenProperties DEF Range
<1>9. \A j \in 1..k : m + j \in (m + 1)..n
  BY <1>4
<1>10. Range(t) \subseteq (m + 1)..n
  BY <1>7, <1>8, <1>9
<1>11. m \in 0..n
  BY <1>4
<1> QED
  BY <1>6, <1>10, <1>11, Zenon

(* The updates applied are the first ones, those that are queued come next.*)
LEMMA AppliedFirst ==
  ASSUME NEW d \in State, NEW r \in Seq(Update), NEW p \in Seq(Update),
         NEW c \in Seq(Update), NEW n \in Nat,
         FirstUpdates(Whole(d, r, p, c), n)
  PROVE  \E m \in 0..n :
           /\ FirstUpdates(d, m) /\ Range(d) = 1..m
           /\ \A e \in Range(r) \cup Range(p) \cup Range(c) : e.id \in (m + 1)..n
<1>1. /\ d \in Seq(UpdateIds) /\ Ids(r) \in Seq(UpdateIds)
      /\ Ids(p) \in Seq(UpdateIds) /\ Ids(c) \in Seq(UpdateIds)
  BY IdsType DEF State
<1>2. d \o Ids(r) \in Seq(UpdateIds) /\ d \o Ids(r) \o Ids(p) \in Seq(UpdateIds)
  BY <1>1, ConcatProperties
<1>3. PICK m3 \in 0..n : /\ FirstUpdates(d \o Ids(r) \o Ids(p), m3)
                         /\ Range(Ids(c)) \subseteq (m3 + 1)..n
  <2> DEFINE s == d \o Ids(r) \o Ids(p)
  <2>1. s \in Seq(UpdateIds) /\ FirstUpdates(s \o Ids(c), n)
    BY <1>2 DEF Whole
  <2> HIDE DEF s
  <2>2. \E m \in 0..n : FirstUpdates(s, m) /\ Range(Ids(c)) \subseteq (m + 1)..n
    BY <1>1, <2>1, FirstOfFirst
  <2> QED
    BY <2>2 DEF s
<1>4. PICK m2 \in 0..m3 : /\ FirstUpdates(d \o Ids(r), m2)
                          /\ Range(Ids(p)) \subseteq (m2 + 1)..m3
  <2> DEFINE s == d \o Ids(r)
  <2>1. s \in Seq(UpdateIds) /\ FirstUpdates(s \o Ids(p), m3)
    BY <1>2, <1>3
  <2> HIDE DEF s
  <2>2. \E m \in 0..m3 : FirstUpdates(s, m) /\ Range(Ids(p)) \subseteq (m + 1)..m3
    BY <1>1, <2>1, FirstOfFirst
  <2> QED
    BY <2>2 DEF s
<1>5. PICK m \in 0..m2 : /\ FirstUpdates(d, m)
                         /\ Range(Ids(r)) \subseteq (m + 1)..m2
  BY <1>1, <1>4, FirstOfFirst
<1>6. /\ Range(Ids(r)) = {e.id : e \in Range(r)}
      /\ Range(Ids(p)) = {e.id : e \in Range(p)}
      /\ Range(Ids(c)) = {e.id : e \in Range(c)}
  BY RangeOfIds
<1>7. \A e \in Range(r) \cup Range(p) \cup Range(c) : e.id \in (m + 1)..n
  <2>1. /\ \A e \in Range(r) : e.id \in (m + 1)..m2
        /\ \A e \in Range(p) : e.id \in (m2 + 1)..m3
        /\ \A e \in Range(c) : e.id \in (m3 + 1)..n
    BY <1>3, <1>4, <1>5, <1>6, Zenon
  <2>2. /\ (m + 1)..m2 \subseteq (m + 1)..n
        /\ (m2 + 1)..m3 \subseteq (m + 1)..n
        /\ (m3 + 1)..n \subseteq (m + 1)..n
    OBVIOUS
  <2> QED
    BY <2>1, <2>2, Zenon
<1>8. Range(d) = 1..m
  <2>1. DOMAIN d = 1..m /\ \A i \in 1..m : d[i] = i
    BY <1>1, <1>5, LenProperties DEF FirstUpdates
  <2>2. Range(d) = {d[i] : i \in 1..m}
    BY <2>1 DEF Range
  <2> QED
    BY <2>1, <2>2
<1> QED
  BY <1>5, <1>7, <1>8

(* The next update that the loop comes to is the one after those it has done.*)
LEMMA NextUpdate ==
  ASSUME TypeInv, OrderInv, pc = "processing", rest # <<>>
  PROVE  \E m \in 0..Len(log) : /\ Range(Done) = 1..m /\ Len(Done) = m
                                /\ Head(rest).id = m + 1 /\ m + 1 \in 1..Len(log)
<1> DEFINE next == Head(rest).id
<1>1. PICK n \in Nat : n = Len(log)
  BY LenProperties DEF TypeInv, TypeOK
<1>2. /\ Done \in State /\ rest \in Seq(Update) /\ pending \in Seq(Update)
      /\ concurrentQueues \in Seq(Update)
      /\ FirstUpdates(Whole(Done, rest, pending, concurrentQueues), n)
  BY <1>1, DoneType DEF TypeInv, TypeOK, OrderInv
<1>3. PICK m \in 0..n : FirstUpdates(Done, m) /\ Range(Done) = 1..m
  BY <1>2, AppliedFirst, SMTT(40)
<1>4. next \in UpdateIds /\ Tail(rest) \in Seq(Update)
  <2>1. Head(rest) \in Update /\ Tail(rest) \in Seq(Update)
    BY <1>2, HeadTailProperties
  <2> QED
    BY <2>1 DEF Update
<1>5. /\ Append(Done, next) \in State /\ Len(Append(Done, next)) = m + 1
      /\ Append(Done, next)[m + 1] = next /\ Len(Done) = m
  <2> HIDE DEF next
  <2> QED
    BY <1>2, <1>3, <1>4, AppendProperties DEF FirstUpdates, State
<1>6. FirstUpdates(Whole(Append(Done, next), Tail(rest), pending,
                         concurrentQueues), n)
  <2>1. Whole(Append(Done, Head(rest).id), Tail(rest), pending, concurrentQueues)
          = Whole(Done, rest, pending, concurrentQueues)
    BY <1>2, WholeStep
  <2> QED
    BY <1>2, <2>1, Zenon
<1> HIDE DEF next
<1>7. PICK k \in 0..n : FirstUpdates(Append(Done, next), k)
  BY <1>2, <1>4, <1>5, <1>6, AppliedFirst, ZenonT(40)
<1>8. k = m + 1 /\ next = m + 1 /\ m + 1 \in 1..n
  BY <1>5, <1>7 DEF FirstUpdates
<1> QED
  BY <1>1, <1>3, <1>5, <1>8 DEF next

(* The next update keeps what is shown in order.                           *)
LEMMA IncreasingAppend ==
  ASSUME NEW s \in State, NEW m \in Nat, Range(s) \subseteq 1..m,
         Log!Increasing(s), m + 1 \in UpdateIds
  PROVE  Log!Increasing(Append(s, m + 1))
<1>1. PICK k \in Nat : k = Len(s)
  BY LenProperties DEF State
<1>2. /\ Len(Append(s, m + 1)) = k + 1
      /\ \A i \in 1..k : Append(s, m + 1)[i] = s[i]
      /\ Append(s, m + 1)[k + 1] = m + 1
  BY <1>1, AppendProperties DEF State
<1>3. \A i \in 1..k : s[i] \in 1..m
  BY <1>1, LenProperties DEF State, Range
<1>4. \A i \in 1..(k - 1) : s[i] < s[i + 1]
  BY <1>1 DEF Log!Increasing
<1>5. ASSUME NEW i \in 1..((k + 1) - 1)
      PROVE  Append(s, m + 1)[i] < Append(s, m + 1)[i + 1]
  <2>1. CASE i = k
    BY <1>2, <1>3, <2>1
  <2>2. CASE i # k
    <3>1. i \in 1..(k - 1) /\ i \in 1..k /\ i + 1 \in 1..k
      BY <2>2
    <3> QED
      BY <1>2, <1>4, <3>1
  <2> QED
    BY <2>1, <2>2
<1> QED
  BY <1>2, <1>5 DEF Log!Increasing

LEMMA IncreasingFirst ==
  ASSUME NEW s \in State, NEW m \in Nat, FirstUpdates(s, m)
  PROVE  Log!Increasing(s)
BY DEF Log!Increasing, FirstUpdates

LEMMA ScreenInit == Init => ScreenInv
<1> SUFFICES ASSUME Init PROVE ScreenInv
  OBVIOUS
<1>1. /\ pending = <<>> /\ concurrentQueues = <<>> /\ pc = "idle"
      /\ current.memoizedState = <<>> /\ current.baseUpdates = <<>>
  BY DEF Init, InitialFiber
<1>2. Log!Increasing(<<>>)
  BY DEF Log!Increasing
<1> QED
  BY <1>1, <1>2, RangeOfEmpty DEF ScreenInv, FiberScreen, Matches

LEMMA FinishQueueingScreen ==
  ASSUME TypeInv, FinishQueueing, log' = log
  PROVE  /\ FiberScreen(current) => FiberScreen(current)'
         /\ FiberScreen(wip) => FiberScreen(wip)'
         /\ current'.memoizedState = current.memoizedState
         /\ wip'.memoizedState = wip.memoizedState
<1>1. /\ current'.memoizedState = current.memoizedState
      /\ current'.baseUpdates = current.baseUpdates
      /\ wip'.memoizedState = wip.memoizedState
      /\ wip'.baseUpdates = wip.baseUpdates
  BY DEF FinishQueueing, TypeInv, TypeOK, Fiber
<1>2. /\ Range(pending') = Range(pending) \cup Range(concurrentQueues)
      /\ Range(concurrentQueues') = {}
  <2>1. pending \in Seq(Update) /\ concurrentQueues \in Seq(Update)
    BY DEF TypeInv, TypeOK
  <2>2. pending' = pending \o concurrentQueues /\ concurrentQueues' = <<>>
    BY DEF FinishQueueing
  <2>3. Range(pending \o concurrentQueues) = Range(pending) \cup Range(concurrentQueues)
    BY <2>1, RangeConcatenation
  <2> QED
    BY <2>2, <2>3, RangeOfEmpty, Zenon
<1> QED
  BY <1>1, <1>2 DEF FiberScreen, Matches

(* Neither the log nor a fiber's queue has changed: nor has the screen.    *)
LEMMA SameAttempt ==
  ASSUME WipScreen, FiberScreen(wip)', log' = log,
         wip'.memoizedState = wip.memoizedState,
         current'.memoizedState = current.memoizedState
  PROVE  WipScreen'
<1>1. PICK lanes \in SUBSET Lanes, n \in 0..Len(log) :
        Range(wip.memoizedState)
          = Range(current.memoizedState) \cup {u \in 1..n : log[u] \in lanes}
  BY DEF WipScreen
<1>2. /\ n \in 0..Len(log')
      /\ Range(wip'.memoizedState)
           = Range(current'.memoizedState) \cup {u \in 1..n : log'[u] \in lanes}
  BY <1>1, Zenon
<1> QED
  BY <1>2 DEF WipScreen

LEMMA ScreenUnchanged ==
  ASSUME ScreenInv, UNCHANGED <<log, queueVars, current, wip, renderLanes,
                                loopVars, pc>>
  PROVE  ScreenInv'
<1>1. FiberScreen(current)' = FiberScreen(current)
      /\ FiberScreen(wip)' = FiberScreen(wip)
  BY DEF FiberScreen, Matches, queueVars
<1>2. LoopScreen' = LoopScreen
  BY Zenon DEF LoopScreen, Matches, Done, loopVars
<1>3. WipScreen => WipScreen'
  BY <1>1, SameAttempt DEF WipScreen
<1> QED
  BY <1>1, <1>2, <1>3 DEF ScreenInv

LEMMA ScreenStep ==
  TypeInv /\ OrderInv /\ LanesInv /\ ScreenInv /\ [Next]_vars => ScreenInv'
<1> SUFFICES ASSUME TypeInv, OrderInv, LanesInv, ScreenInv, [Next]_vars
             PROVE  ScreenInv'
  OBVIOUS
<1>0. /\ Range(<<>>) = {} /\ Len(log) \in Nat
      /\ FiberScreen(current)
      /\ pc = "processing" => LoopScreen
      /\ pc \in {"begun", "rendered"} => WipScreen
      /\ OrderInv'
  BY RangeOfEmpty, LenProperties, OrderStep DEF TypeInv, TypeOK, ScreenInv
<1>1. ASSUME NEW lane \in Lanes, EnqueueUpdate(lane) PROVE ScreenInv'
  <2>1. PICK n \in Nat : n = Len(log)
    BY <1>0
  <2>2. PICK x \in Update :
          /\ concurrentQueues' = Append(concurrentQueues, x)
          /\ x.id = n + 1 /\ x.lane = lane
    <3> DEFINE new == [id |-> Len(log) + 1, lane |-> lane, callback |-> TRUE]
    <3>1. Len(log) + 1 \in UpdateIds
      BY <1>0, <1>1, MaxUpdatesAssumption DEF EnqueueUpdate, UpdateIds
    <3>2. new \in Update /\ new.id = Len(log) + 1 /\ new.lane = lane
      BY <3>1 DEF Update
    <3>3. concurrentQueues' = Append(concurrentQueues, new)
      BY <1>1 DEF EnqueueUpdate
    <3> QED
      BY <2>1, <3>2, <3>3
  <2>3. /\ Len(log') = n + 1
        /\ \A u \in 1..n : log'[u] = log[u]
    BY <1>1, <2>1, AppendProperties DEF EnqueueUpdate, TypeInv, TypeOK
  <2>4. Range(concurrentQueues') = Range(concurrentQueues) \cup {x}
    <3>1. concurrentQueues \in Seq(Update)
      BY DEF TypeInv, TypeOK
    <3>2. Range(Append(concurrentQueues, x)) = Range(concurrentQueues) \cup {x}
      BY <3>1, RangeAppend
    <3> QED
      BY <2>2, <3>2, Zenon
  <2>5. /\ current'.memoizedState = current.memoizedState
        /\ current'.baseUpdates = current.baseUpdates
        /\ wip'.memoizedState = wip.memoizedState
        /\ wip'.baseUpdates = wip.baseUpdates
        /\ pending' = pending /\ pc' = pc /\ pc # "processing"
    BY <1>1 DEF EnqueueUpdate, TypeInv, TypeOK, Fiber
  <2>6. lane # NoLane /\ n + 1 \notin 1..n /\ 1..n \subseteq 1..(n + 1)
    BY LanesAssumption
  <2>7. FiberScreen(current)'
    BY <1>0, <2>1, <2>2, <2>3, <2>4, <2>5, <2>6 DEF FiberScreen, Matches
  <2>8. pc \in {"begun", "rendered"} => WipScreen'
    <3> SUFFICES ASSUME pc \in {"begun", "rendered"} PROVE WipScreen'
      OBVIOUS
    <3>1. FiberScreen(wip)'
      BY <1>0, <2>1, <2>2, <2>3, <2>4, <2>5, <2>6
      DEF WipScreen, FiberScreen, Matches
    <3>2. PICK lanes \in SUBSET Lanes, k \in 0..n :
            Range(wip.memoizedState)
              = Range(current.memoizedState) \cup {u \in 1..k : log[u] \in lanes}
      BY <1>0, <2>1 DEF WipScreen
    <3>3. /\ {u \in 1..k : log'[u] \in lanes} = {u \in 1..k : log[u] \in lanes}
          /\ k \in 0..(n + 1)
      BY <2>3
    <3> QED
      BY <2>3, <2>5, <3>1, <3>2, <3>3 DEF WipScreen
  <2> QED
    BY <2>5, <2>7, <2>8 DEF ScreenInv
<1>2. ASSUME NEW lane \in Lanes, UpdateOther(lane) PROVE ScreenInv'
  <2>1. UNCHANGED <<log, queueVars, current, wip, renderLanes, loopVars, pc>>
    BY <1>2 DEF UpdateOther
  <2> QED
    BY <1>0, <2>1, ScreenUnchanged, Zenon
<1>3. ASSUME NEW lanes \in SUBSET Lanes, PrepareFreshStack(lanes)
      PROVE  ScreenInv'
  BY <1>0, <1>3, FinishQueueingScreen DEF PrepareFreshStack, ScreenInv
<1>4. CASE AbandonRender
  BY <1>0, <1>4, FinishQueueingScreen DEF AbandonRender, ScreenInv
<1>5. CASE OtherRootRenders
  <2>1. /\ FinishQueueing /\ log' = log /\ pc' = pc /\ pc # "processing"
        /\ pc # "begun"
    BY <1>5 DEF OtherRootRenders
  <2>2. pc = "rendered" => WipScreen'
    BY <1>0, <2>1, FinishQueueingScreen, SameAttempt DEF WipScreen
  <2> QED
    BY <1>0, <2>1, <2>2, FinishQueueingScreen DEF ScreenInv
<1>6. CASE BailOut
  <2>1. UNCHANGED <<log, pending, concurrentQueues, current>>
        /\ wip' = current /\ pc' = "begun"
    BY <1>6 DEF BailOut, queueVars
  <2>2. FiberScreen(current)' /\ FiberScreen(wip)'
    BY <1>0, <2>1 DEF FiberScreen, Matches
  <2>3. /\ {} \in SUBSET Lanes /\ 0 \in 0..Len(log)
        /\ {u \in 1..0 : log[u] \in {}} = {}
    BY <1>0
  <2>4. WipScreen'
    BY <2>1, <2>2, <2>3 DEF WipScreen
  <2> QED
    BY <2>1, <2>2, <2>4 DEF ScreenInv
<1>7. CASE Begin
  <2>1. /\ current'.baseUpdates = current.baseUpdates \o pending
        /\ current'.memoizedState = current.memoizedState
        /\ wip'.baseUpdates = current.baseUpdates \o pending
        /\ wip'.memoizedState = current.memoizedState
        /\ rest' = current.baseUpdates \o pending
        /\ newState' = current.baseState /\ newBase' = <<>>
        /\ Done' = current.baseState
        /\ pending' = <<>>
        /\ UNCHANGED <<log, concurrentQueues, renderLanes>>
        /\ pc' = IF rest' = <<>> THEN "begun" ELSE "processing"
    BY <1>7 DEF Begin, TypeInv, TypeOK, Fiber, Done
  <2>2. Range(current.baseUpdates \o pending)
          = Range(current.baseUpdates) \cup Range(pending)
    <3>1. current.baseUpdates \in Seq(Update) /\ pending \in Seq(Update)
      BY DEF TypeInv, TypeOK, Fiber
    <3> QED
      BY <3>1, RangeConcatenation
  <2>3. FiberScreen(current)' /\ FiberScreen(wip)'
    BY <1>0, <2>1, <2>2 DEF FiberScreen, Matches
  <2>4. LoopScreen'
    <3>1. PICK n \in Nat : n = Len(log)
      BY <1>0
    <3>2. /\ current.baseState \in State /\ current.baseUpdates \in Seq(Update)
          /\ pending \in Seq(Update) /\ concurrentQueues \in Seq(Update)
          /\ FirstUpdates(Whole(current.baseState, current.baseUpdates,
                                pending, concurrentQueues), n)
      BY <3>1 DEF TypeInv, TypeOK, Fiber, OrderInv, WholeOf
    <3>3. PICK m \in 0..n : /\ FirstUpdates(current.baseState, m)
                            /\ Range(current.baseState) = 1..m
      BY <3>2, AppliedFirst, SMTT(40)
    <3>4. Log!Increasing(current.baseState) /\ Len(current.baseState) = m
      BY <3>2, <3>3, IncreasingFirst DEF FirstUpdates
    <3>5. 1..m \subseteq Range(current.memoizedState)
      BY <3>3 DEF LanesInv, FiberInv
    <3>6. Matches(Range(rest)', Range(current.memoizedState)')
      BY <1>0, <2>1, <2>2 DEF FiberScreen, Matches
    <3>7. Matches(Range(newBase)', Range(newState)')
      BY <1>0, <2>1 DEF Matches
    <3> QED
      BY <2>1, <3>3, <3>4, <3>5, <3>6, <3>7 DEF LoopScreen
  <2>5. WipScreen'
    <3>1. /\ {} \in SUBSET Lanes /\ 0 \in 0..Len(log)
          /\ {u \in 1..0 : log[u] \in {}} = {}
      BY <1>0
    <3> QED
      BY <2>1, <2>3, <3>1 DEF WipScreen
  <2> QED
    BY <2>1, <2>3, <2>4, <2>5 DEF ScreenInv
<1>8. CASE SkipUpdate \/ ApplyUpdate
  <2> DEFINE x == Head(rest)
  <2>1. /\ pc = "processing" /\ pc' = pc /\ rest # <<>> /\ rest' = Tail(rest)
        /\ UNCHANGED <<log, pending, concurrentQueues, current, renderLanes>>
        /\ LoopScreen /\ Done' = Append(Done, x.id)
    BY <1>0, <1>8, DoneStep DEF SkipUpdate, ApplyUpdate, queueVars
  <2>2. /\ x \in Update /\ x.id \in UpdateIds /\ Rebased(x) \in Update
        /\ Range(rest) = {x} \cup Range(Tail(rest))
        /\ Rebased(x).id = x.id /\ Rebased(x).lane = NoLane
    <3>1. rest \in Seq(Update)
      BY DEF TypeInv, TypeOK
    <3>2. x \in Update /\ Range(rest) = {x} \cup Range(Tail(rest))
      BY <2>1, <3>1, HeadTailProperties, RangeOfHead
    <3> HIDE DEF x
    <3> QED
      BY <3>2 DEF Update, Rebased
  <2>3. \A u \in Update : Range(Append(newBase, u)) = Range(newBase) \cup {u}
    BY RangeAppend DEF TypeInv, TypeOK
  <2>4. Range(Append(newState, x.id)) = Range(newState) \cup {x.id}
    BY <2>2, RangeAppend DEF TypeInv, TypeOK, State
  <2>5. PICK n \in Nat : n = Len(log)
    BY <1>0
  <2>6. newState \in State /\ Done \in State
    BY DoneType DEF TypeInv, TypeOK
  <2>7. PICK m \in 0..n : /\ Range(Done) = 1..m /\ Len(Done) = m
                          /\ x.id = m + 1 /\ m + 1 \in 1..n
    BY <2>1, <2>5, NextUpdate
  <2>8. Len(Done) = m /\ Len(Done') = m + 1 /\ x.id = m + 1 /\ m + 1 \in 1..n
    <3> HIDE DEF x
    <3> QED
      BY <2>1, <2>2, <2>6, <2>7, AppendProperties DEF State
  <2>9. ASSUME NEW e \in Range(newBase) PROVE e.id # m + 1
    <3>1. newBase # <<>> /\ newBase \in Seq(Update) /\ newBaseState \in State
      BY <1>0, <2>9 DEF TypeInv, TypeOK
    <3>2. Done = newBaseState \o Ids(newBase)
      BY <3>1 DEF Done
    <3>3. Range(newBaseState \o Ids(newBase)) = Range(newBaseState) \cup Range(Ids(newBase))
      BY <3>1, IdsType, RangeConcatenation DEF State
    <3>4. e.id \in Range(Ids(newBase))
      BY <3>1, RangeOfIds
    <3> QED
      BY <2>7, <3>2, <3>3, <3>4
  <2>10. /\ Range(newState) \subseteq 1..m
         /\ \A u \in 1..(m + 1) : u \in 1..m \/ u = m + 1
         /\ 1..m \subseteq 1..(m + 1) /\ m + 1 \in 1..(m + 1) /\ m + 1 \notin 1..m
    BY <2>1, <2>8 DEF LoopScreen
  <2>11. /\ x.lane \in {NoLane, log[m + 1]}
         /\ x.lane = NoLane <=> m + 1 \in Range(current.memoizedState)
    BY <2>1, <2>2, <2>8 DEF LanesInv, LoopInv, Entries, LoopScreen, Matches
  <2>12. log[m + 1] # NoLane
    <3>1. log[m + 1] \in Lanes
      BY <2>5, <2>8, ElementOfSeq DEF TypeInv, TypeOK
    <3> QED
      BY <3>1, LanesAssumption
  <2>13. /\ FiberScreen(current)'
         /\ Matches(Range(rest), Range(current.memoizedState))'
    BY <1>0, <2>1, <2>2 DEF FiberScreen, LoopScreen, Matches
  <2>14. ASSUME SkipUpdate PROVE LoopScreen'
    <3>1. /\ newBase' = Append(newBase, x) /\ newState' = newState
          /\ x.lane # NoLane /\ x.lane \notin renderLanes
      BY <2>14 DEF SkipUpdate, Sufficient
    <3> HIDE DEF x
    <3>2. Range(newBase') = Range(newBase) \cup {x}
      BY <2>2, <2>3, <3>1
    <3>3. Matches(Range(newBase), Range(newState))'
      BY <2>1, <2>8, <2>10, <3>1, <3>2 DEF LoopScreen, Matches
    <3>4. ~(m + 1 \in Range(current.memoizedState) \/ log[m + 1] \in renderLanes)
      BY <2>11, <3>1
    <3>5. {u \in 1..(m + 1) : u \in Range(current.memoizedState)
                              \/ log[u] \in renderLanes}
            = {u \in 1..m : u \in Range(current.memoizedState)
                            \/ log[u] \in renderLanes}
      BY <2>10, <3>4
    <3>6. Range(newState') = {u \in 1..Len(Done') :
             u \in Range(current'.memoizedState) \/ log'[u] \in renderLanes'}
      BY <2>1, <2>8, <3>1, <3>5, Zenon DEF LoopScreen
    <3> QED
      BY <2>1, <2>13, <3>1, <3>3, <3>6 DEF LoopScreen
  <2>15. ASSUME ApplyUpdate PROVE LoopScreen'
    <3>1. /\ newState' = Append(newState, x.id)
          /\ newBase' = IF newBase = <<>> THEN newBase
                        ELSE Append(newBase, Rebased(x))
          /\ x.lane = NoLane \/ x.lane \in renderLanes
      BY <2>15 DEF ApplyUpdate, Sufficient
    <3> HIDE DEF x
    <3>2. Range(newState') = Range(newState) \cup {m + 1}
      BY <2>4, <2>8, <3>1, Zenon
    <3>3. Matches(Range(newBase), Range(newState))'
      <4>1. CASE newBase = <<>>
        BY <1>0, <3>1, <4>1 DEF Matches
      <4>2. CASE newBase # <<>>
        <5>1. Range(newBase') = Range(newBase) \cup {Rebased(x)}
          BY <2>2, <2>3, <3>1, <4>2
        <5> QED
          BY <2>1, <2>2, <2>8, <2>9, <3>2, <5>1 DEF LoopScreen, Matches
      <4> QED
        BY <4>1, <4>2
    <3>4. m + 1 \in Range(current.memoizedState) \/ log[m + 1] \in renderLanes
      BY <2>11, <3>1
    <3>5. {u \in 1..(m + 1) : u \in Range(current.memoizedState)
                              \/ log[u] \in renderLanes}
            = {u \in 1..m : u \in Range(current.memoizedState)
                            \/ log[u] \in renderLanes} \cup {m + 1}
      BY <2>10, <3>4
    <3>6. Range(newState') = {u \in 1..Len(Done') :
             u \in Range(current'.memoizedState) \/ log'[u] \in renderLanes'}
      BY <2>1, <2>8, <3>2, <3>5, Zenon DEF LoopScreen
    <3>7. Log!Increasing(newState')
      <4>1. Log!Increasing(Append(newState, m + 1))
        BY <2>1, <2>2, <2>6, <2>8, <2>10, IncreasingAppend DEF LoopScreen
      <4> QED
        BY <2>8, <3>1, <4>1
    <3> QED
      BY <2>13, <3>3, <3>6, <3>7 DEF LoopScreen
  <2> QED
    BY <1>8, <2>1, <2>13, <2>14, <2>15 DEF ScreenInv
<1>9. CASE FinishProcessing
  <2>1. /\ wip'.baseUpdates = newBase /\ wip'.memoizedState = newState
        /\ pc = "processing" /\ rest = <<>> /\ pc' = "begun"
        /\ UNCHANGED <<log, pending, concurrentQueues, current>>
        /\ LoopScreen /\ LoopInv
    BY <1>0, <1>9 DEF FinishProcessing, queueVars, LanesInv
  <2>2. PICK n \in Nat : n = Len(log)
    BY <1>0
  <2>3. /\ Done \in State /\ rest \in Seq(Update) /\ pending \in Seq(Update)
        /\ concurrentQueues \in Seq(Update)
        /\ FirstUpdates(Whole(Done, rest, pending, concurrentQueues), n)
    BY <2>1, <2>2, DoneType DEF TypeInv, TypeOK, OrderInv
  <2>4. PICK m \in 0..n :
          /\ FirstUpdates(Done, m)
          /\ \A e \in Range(rest) \cup Range(pending) \cup Range(concurrentQueues) :
               e.id \in (m + 1)..n
    BY <2>3, AppliedFirst, SMTT(40)
  <2>5. /\ Len(Done) = m /\ 1..m \subseteq 1..n
        /\ Range(newState) \subseteq 1..m
        /\ \A e \in Range(concurrentQueues) : e.id \notin 1..m
    BY <2>1, <2>4 DEF FirstUpdates, LoopScreen
  <2>6. \A e \in Range(concurrentQueues) : e.lane # NoLane
    <3>1. \A e \in Range(concurrentQueues) : e.lane \in Lanes
      BY DEF TypeInv, ConcurrentlyUpdatedLanes
    <3> QED
      BY <3>1, LanesAssumption
  <2>7. FiberScreen(wip)'
    <3>1. Matches(Range(newBase) \cup Range(pending) \cup Range(concurrentQueues),
                  Range(newState))
      BY <1>0, <2>1, <2>5, <2>6 DEF LoopScreen, LoopInv, Matches
    <3>2. Range(newState) \subseteq 1..Len(log) /\ Log!Increasing(newState)
      BY <2>1, <2>2, <2>5 DEF LoopScreen
    <3> QED
      BY <2>1, <3>1, <3>2 DEF FiberScreen
  <2>8. FiberScreen(current)'
    BY <1>0, <2>1 DEF FiberScreen
  <2>9. Range(newState) = Range(current.memoizedState)
                            \cup {u \in 1..m : log[u] \in renderLanes}
    <3>1. Range(newState) = {u \in 1..m : u \in Range(current.memoizedState)
                                          \/ log[u] \in renderLanes}
      BY <2>1, <2>5, Zenon DEF LoopScreen
    <3>2. Range(current.memoizedState) \subseteq Range(newState)
      BY <1>0, <2>1 DEF LoopInv, Kept
    <3> QED
      BY <2>5, <3>1, <3>2
  <2>10. WipScreen'
    <3>1. /\ renderLanes \in SUBSET Lanes /\ m \in 0..Len(log')
          /\ Range(wip'.memoizedState) = Range(current'.memoizedState)
                                           \cup {u \in 1..m : log'[u] \in renderLanes}
      BY <2>1, <2>2, <2>9 DEF TypeInv, TypeOK
    <3> QED
      BY <2>7, <3>1 DEF WipScreen
  <2> QED
    BY <2>1, <2>8, <2>10 DEF ScreenInv
<1>10. CASE CompleteRender
  <2>1. /\ FinishQueueing /\ log' = log /\ pc = "begun" /\ pc' = "rendered"
    BY <1>10 DEF CompleteRender
  <2>2. WipScreen'
    BY <1>0, <2>1, FinishQueueingScreen, SameAttempt DEF WipScreen
  <2> QED
    BY <1>0, <2>1, <2>2, FinishQueueingScreen DEF ScreenInv
<1>11. CASE Commit
  <2>1. /\ current' = wip /\ pc = "rendered" /\ pc' = "idle"
        /\ UNCHANGED <<log, pending, concurrentQueues>>
    BY <1>11 DEF Commit, queueVars
  <2>2. FiberScreen(current)'
    BY <1>0, <2>1 DEF WipScreen, FiberScreen
  <2> QED
    BY <2>1, <2>2 DEF ScreenInv
<1>12. CASE UNCHANGED vars
  BY <1>12, ScreenUnchanged DEF vars
<1> QED
  BY <1>1, <1>2, <1>3, <1>4, <1>5, <1>6, <1>7, <1>8, <1>9, <1>10, <1>11, <1>12
  DEF Next, ProcessUpdateQueue

-----------------------------------------------------------------------------
LEMMA ShowsNothing ==
  ASSUME UNCHANGED <<log, current>> \/ (FinishQueueing /\ log' = log), TypeInv
  PROVE  UNCHANGED <<log, current.memoizedState>>
BY FinishQueueingScreen

LEMMA SeqIntoRange ==
  ASSUME NEW s \in State, NEW n, Range(s) \subseteq 1..n
  PROVE  s \in Seq(1..n)
<1>1. s \in [1..Len(s) -> UpdateIds] /\ Len(s) \in Nat
  BY LenProperties DEF State
<1>2. \A i \in 1..Len(s) : s[i] \in 1..n
  BY <1>1 DEF Range
<1>3. s \in [1..Len(s) -> 1..n]
  BY <1>1, <1>2
<1> QED
  BY <1>1, <1>3, SeqDef

(* The step of UpdateLog that a step of the queue is.                      *)
LEMMA StepRefines ==
  TypeInv /\ ScreenInv /\ [Next]_vars
    => [Log!Next]_<<log, current.memoizedState>>
<1> SUFFICES ASSUME TypeInv, ScreenInv, [Next]_vars
             PROVE  Log!Next \/ UNCHANGED <<log, current.memoizedState>>
  OBVIOUS
<1>1. ASSUME NEW lane \in Lanes, EnqueueUpdate(lane) PROVE Log!Next
  <2>1. log' = Append(log, lane) /\ current'.memoizedState = current.memoizedState
    BY <1>1 DEF EnqueueUpdate, TypeInv, TypeOK, Fiber
  <2>2. Log!Queue(lane)
    BY <2>1 DEF Log!Queue
  <2> QED
    BY <2>2 DEF Log!Next
<1>2. CASE Commit
  <2>1. /\ current'.memoizedState = wip.memoizedState /\ log' = log
        /\ WipScreen
    BY <1>2 DEF Commit, ScreenInv
  <2>2. PICK lanes \in SUBSET Lanes, n \in 0..Len(log) :
          Range(wip.memoizedState)
            = Range(current.memoizedState) \cup {u \in 1..n : log[u] \in lanes}
    BY <2>1 DEF WipScreen
  <2>3. wip.memoizedState \in Seq(Log!Updates)
    <3>1. wip.memoizedState \in State /\ Len(log) \in Nat
      BY LenProperties DEF TypeInv, TypeOK, Fiber
    <3>2. Range(wip.memoizedState) \subseteq 1..Len(log)
      BY <2>1 DEF WipScreen, FiberScreen
    <3>3. wip.memoizedState \in Seq(1..Len(log))
      BY <3>1, <3>2, SeqIntoRange
    <3> QED
      BY <3>3 DEF Log!Updates
  <2>4. Log!Commit(lanes, n)
    <3>1. \A f : Log!Range(f) = Range(f)
      BY DEF Log!Range, Range
    <3> QED
      BY <2>1, <2>2, <2>3, <3>1 DEF Log!Commit, WipScreen, FiberScreen
  <2> QED
    BY <2>2, <2>4 DEF Log!Next
<1>3. ASSUME NEW lane \in Lanes, UpdateOther(lane)
      PROVE  UNCHANGED <<log, current.memoizedState>>
  BY <1>3 DEF UpdateOther
<1>4. ASSUME NEW lanes \in SUBSET Lanes, PrepareFreshStack(lanes)
      PROVE  UNCHANGED <<log, current.memoizedState>>
  BY <1>4, ShowsNothing DEF PrepareFreshStack
<1>5. CASE AbandonRender \/ OtherRootRenders \/ CompleteRender
  BY <1>5, ShowsNothing DEF AbandonRender, OtherRootRenders, CompleteRender
<1>6. CASE Begin
  BY <1>6 DEF Begin, TypeInv, TypeOK, Fiber
<1>7. CASE BailOut \/ SkipUpdate \/ ApplyUpdate \/ FinishProcessing
  BY <1>7 DEF BailOut, SkipUpdate, ApplyUpdate, FinishProcessing
<1>8. CASE UNCHANGED vars
  BY <1>8 DEF vars
<1> QED
  BY <1>1, <1>2, <1>3, <1>4, <1>5, <1>6, <1>7, <1>8 DEF Next, ProcessUpdateQueue

(* The component's state on the screen is what UpdateLog promises: updates *)
(* in the order of the setState calls, nothing that was shown undone, and  *)
(* each commit adds the updates of its lanes, however renders were cut     *)
(* short, restarted with other lanes, or had updates arrive in the middle. *)
THEOREM QueueImplementsUpdateLog == Spec => ImplementsUpdateLog
<1>1. Init => Log!Init
  BY DEF Init, InitialFiber, Log!Init
<1>2. TypeInv /\ ScreenInv /\ [Next]_vars
        => [Log!Next]_<<log, current.memoizedState>>
  BY StepRefines
<1> QED
  BY <1>1, <1>2, TypeInit, TypeStep, OrderInit, OrderStep, LanesInit, LanesStep,
     ScreenInit, ScreenStep, PTL
  DEF Spec, ImplementsUpdateLog, Log!LogSpec

-----------------------------------------------------------------------------
(***************************************************************************)
(* The callback of a setState call is called once, with the commit that    *)
(* shows its update, whatever the lanes and however many updates there are.*)
(***************************************************************************)
Distinct(s) == \A i, j \in DOMAIN s : s[i] = s[j] => i = j

(* Rebasing an update takes its lane and its callback, both or neither.    *)
CallbackWithLane(updates) == \A e \in updates : e.callback <=> e.lane # NoLane

EntriesCallBack ==
  /\ CallbackWithLane(Range(pending)) /\ CallbackWithLane(Range(concurrentQueues))
  /\ CallbackWithLane(Range(current.baseUpdates))
  /\ CallbackWithLane(Range(wip.baseUpdates))
  /\ CallbackWithLane(Range(rest)) /\ CallbackWithLane(Range(newBase))

(* A render has collected the callbacks of the updates it adds to the screen.*)
Collected(state) ==
  /\ Distinct(state) /\ Distinct(callbacks)
  /\ Range(callbacks) = Range(state) \ Range(current.memoizedState)

CallbackInv ==
  /\ EntriesCallBack
  /\ Distinct(current.memoizedState)
  /\ Distinct(fired) /\ Range(fired) = Range(current.memoizedState)
  /\ pc = "processing" => Collected(newState)
  /\ pc \in {"begun", "rendered"} => Collected(wip.memoizedState)

-----------------------------------------------------------------------------
LEMMA DistinctConcat ==
  ASSUME NEW s \in State, NEW t \in State, Distinct(s), Distinct(t),
         Range(s) \cap Range(t) = {}
  PROVE  Distinct(s \o t)
<1>1. PICK m \in Nat : m = Len(s)
  BY LenProperties DEF State
<1>2. PICK n \in Nat : n = Len(t)
  BY LenProperties DEF State
<1>3. /\ DOMAIN s = 1..m /\ DOMAIN t = 1..n /\ DOMAIN (s \o t) = 1..(m + n)
      /\ \A i \in 1..(m + n) : (s \o t)[i] = IF i <= m THEN s[i] ELSE t[i - m]
  <2>1. s \in Seq(UpdateIds) /\ t \in Seq(UpdateIds)
    BY DEF State
  <2>2. s \o t \in Seq(UpdateIds) /\ Len(s \o t) = m + n
    BY <1>1, <1>2, <2>1, ConcatProperties
  <2> QED
    BY <1>1, <1>2, <2>1, <2>2, ConcatProperties, LenProperties
<1>4. ASSUME NEW i \in 1..(m + n), NEW j \in 1..(m + n), (s \o t)[i] = (s \o t)[j]
      PROVE  i = j
  <2>1. \A k \in 1..m : s[k] \in Range(s)
    BY <1>3 DEF Range
  <2>2. \A k \in 1..n : t[k] \in Range(t)
    BY <1>3 DEF Range
  <2>3. \A k \in 1..(m + n) : \/ k \in 1..m /\ k <= m
                              \/ ~(k <= m) /\ k - m \in 1..n
    OBVIOUS
  <2>4. CASE i <= m /\ j <= m
    BY <1>3, <1>4, <2>3, <2>4 DEF Distinct
  <2>5. CASE ~(i <= m) /\ ~(j <= m)
    <3>1. t[i - m] = t[j - m] /\ i - m \in 1..n /\ j - m \in 1..n
      BY <1>3, <1>4, <2>3, <2>5
    <3>2. i - m = j - m
      BY <1>3, <3>1 DEF Distinct
    <3> QED
      BY <3>2
  <2>6. CASE i <= m /\ ~(j <= m)
    BY <1>3, <1>4, <2>1, <2>2, <2>3, <2>6
  <2>7. CASE ~(i <= m) /\ j <= m
    BY <1>3, <1>4, <2>1, <2>2, <2>3, <2>7
  <2> QED
    BY <2>4, <2>5, <2>6, <2>7
<1> QED
  BY <1>3, <1>4 DEF Distinct

LEMMA DistinctLength ==
  ASSUME NEW s \in State, Distinct(s)
  PROVE  Len(s) = Cardinality(Range(s))
<1>1. Len(s) \in Nat /\ s \in [1..Len(s) -> UpdateIds] /\ DOMAIN s = 1..Len(s)
  BY LenProperties DEF State
<1>2. s \in Injection(1..Len(s), Range(s))
  BY <1>1 DEF Injection, IsInjective, Distinct, Range
<1>3. s \in Surjection(1..Len(s), Range(s))
  BY <1>1 DEF Surjection, Range
<1>4. ExistsBijection(1..Len(s), Range(s))
  BY <1>2, <1>3 DEF ExistsBijection, Bijection
<1> QED
  BY <1>1, <1>4, FS_CountingElements

LEMMA DistinctAppend ==
  ASSUME NEW s \in State, NEW x \in UpdateIds, Distinct(s), x \notin Range(s)
  PROVE  Distinct(Append(s, x))
<1>1. s \in Seq(UpdateIds) /\ Len(s) \in Nat /\ DOMAIN s = 1..Len(s)
  BY LenProperties DEF State
<1>2. /\ DOMAIN Append(s, x) = 1..(Len(s) + 1)
      /\ \A i \in 1..Len(s) : Append(s, x)[i] = s[i] /\ s[i] \in Range(s)
      /\ Append(s, x)[Len(s) + 1] = x
  <2>1. /\ Append(s, x) \in Seq(UpdateIds) /\ Len(Append(s, x)) = Len(s) + 1
        /\ \A i \in 1..Len(s) : Append(s, x)[i] = s[i]
        /\ Append(s, x)[Len(s) + 1] = x
    BY <1>1, AppendProperties
  <2> QED
    BY <1>1, <2>1, LenProperties DEF Range
<1>3. ASSUME NEW i \in 1..(Len(s) + 1), NEW j \in 1..(Len(s) + 1),
             Append(s, x)[i] = Append(s, x)[j]
      PROVE  i = j
  <2>1. /\ i \in 1..Len(s) \/ i = Len(s) + 1
        /\ j \in 1..Len(s) \/ j = Len(s) + 1
    BY <1>1
  <2>2. CASE i \in 1..Len(s) /\ j \in 1..Len(s)
    BY <1>1, <1>2, <1>3, <2>2, Zenon DEF Distinct
  <2> QED
    BY <1>2, <1>3, <2>1, <2>2, Zenon
<1> QED
  BY <1>2, <1>3 DEF Distinct

LEMMA DistinctFirst ==
  ASSUME NEW s \in State, NEW n \in Nat, FirstUpdates(s, n)
  PROVE  Distinct(s)
BY LenProperties DEF FirstUpdates, Distinct, State

LEMMA CallbackInit == Init => CallbackInv
<1> SUFFICES ASSUME Init PROVE CallbackInv
  OBVIOUS
<1>1. /\ pending = <<>> /\ concurrentQueues = <<>> /\ rest = <<>> /\ newBase = <<>>
      /\ current.baseUpdates = <<>> /\ wip.baseUpdates = <<>>
      /\ current.memoizedState = <<>> /\ fired = <<>> /\ pc = "idle"
  BY DEF Init, InitialFiber
<1>2. Distinct(<<>>)
  BY DEF Distinct
<1> QED
  BY <1>1, <1>2, RangeOfEmpty DEF CallbackInv, EntriesCallBack, CallbackWithLane

LEMMA FinishQueueingCallbacks ==
  ASSUME TypeInv, EntriesCallBack, FinishQueueing, UNCHANGED <<rest, newBase>>
  PROVE  /\ EntriesCallBack'
         /\ current'.memoizedState = current.memoizedState
         /\ wip'.memoizedState = wip.memoizedState
<1>1. /\ current'.memoizedState = current.memoizedState
      /\ current'.baseUpdates = current.baseUpdates
      /\ wip'.memoizedState = wip.memoizedState
      /\ wip'.baseUpdates = wip.baseUpdates
      /\ pending' = pending \o concurrentQueues /\ concurrentQueues' = <<>>
  BY DEF FinishQueueing, TypeInv, TypeOK, Fiber
<1>2. Range(pending \o concurrentQueues) = Range(pending) \cup Range(concurrentQueues)
  <2>1. pending \in Seq(Update) /\ concurrentQueues \in Seq(Update)
    BY DEF TypeInv, TypeOK
  <2> QED
    BY <2>1, RangeConcatenation
<1>3. Range(pending') = Range(pending) \cup Range(concurrentQueues)
      /\ Range(concurrentQueues') = {}
  BY <1>1, <1>2, RangeOfEmpty, Zenon
<1> QED
  BY <1>1, <1>3 DEF EntriesCallBack, CallbackWithLane

LEMMA CallbackStep ==
  TypeInv /\ OrderInv /\ LanesInv /\ ScreenInv /\ CallbackInv /\ [Next]_vars
    => CallbackInv'
<1> SUFFICES ASSUME TypeInv, OrderInv, LanesInv, ScreenInv, CallbackInv, [Next]_vars
             PROVE  CallbackInv'
  OBVIOUS
<1>0. /\ EntriesCallBack /\ Distinct(<<>>) /\ Range(<<>>) = {}
      /\ Distinct(current.memoizedState)
      /\ Distinct(fired) /\ Range(fired) = Range(current.memoizedState)
      /\ pc = "processing" => Collected(newState)
      /\ pc \in {"begun", "rendered"} => Collected(wip.memoizedState)
  BY RangeOfEmpty DEF CallbackInv, Distinct
<1>1. ASSUME NEW lane \in Lanes, EnqueueUpdate(lane) PROVE CallbackInv'
  <2>1. PICK x \in Update : /\ concurrentQueues' = Append(concurrentQueues, x)
                            /\ x.callback /\ x.lane # NoLane
    <3> DEFINE new == [id |-> Len(log) + 1, lane |-> lane, callback |-> TRUE]
    <3>1. Len(log) + 1 \in UpdateIds
      BY <1>1, LenProperties, MaxUpdatesAssumption
      DEF EnqueueUpdate, UpdateIds, TypeInv, TypeOK
    <3>2. new \in Update /\ new.callback /\ new.lane # NoLane
      BY <3>1, LanesAssumption DEF Update
    <3>3. concurrentQueues' = Append(concurrentQueues, new)
      BY <1>1 DEF EnqueueUpdate
    <3> QED
      BY <3>2, <3>3
  <2>2. Range(Append(concurrentQueues, x)) = Range(concurrentQueues) \cup {x}
    BY RangeAppend DEF TypeInv, TypeOK
  <2>3. /\ current'.memoizedState = current.memoizedState
        /\ current'.baseUpdates = current.baseUpdates
        /\ wip'.memoizedState = wip.memoizedState
        /\ wip'.baseUpdates = wip.baseUpdates
        /\ UNCHANGED <<pending, rest, newBase, newState, callbacks, fired, pc>>
    BY <1>1 DEF EnqueueUpdate, TypeInv, TypeOK, Fiber, loopVars
  <2>4. EntriesCallBack'
    BY <1>0, <2>1, <2>2, <2>3 DEF EntriesCallBack, CallbackWithLane
  <2> QED
    BY <1>0, <2>3, <2>4 DEF CallbackInv, Collected
<1>2. ASSUME NEW lane \in Lanes, UpdateOther(lane) PROVE CallbackInv'
  BY <1>0, <1>2 DEF UpdateOther, queueVars, loopVars, CallbackInv, EntriesCallBack,
                    CallbackWithLane, Collected
<1>3. ASSUME NEW lanes \in SUBSET Lanes, PrepareFreshStack(lanes)
      PROVE  CallbackInv'
  <2>1. FinishQueueing /\ pc' = "started" /\ UNCHANGED <<rest, newBase, fired>>
    BY <1>3 DEF PrepareFreshStack, loopVars
  <2> QED
    BY <1>0, <2>1, FinishQueueingCallbacks DEF CallbackInv
<1>4. CASE AbandonRender
  <2>1. FinishQueueing /\ pc' = "idle" /\ UNCHANGED <<rest, newBase, fired>>
    BY <1>4 DEF AbandonRender, loopVars
  <2> QED
    BY <1>0, <2>1, FinishQueueingCallbacks DEF CallbackInv
<1>5. CASE OtherRootRenders \/ CompleteRender
  <2>1. /\ FinishQueueing /\ UNCHANGED <<rest, newBase, newState, callbacks, fired>>
        /\ pc # "processing" /\ pc' # "processing"
        /\ pc' \in {"begun", "rendered"} => pc \in {"begun", "rendered"}
    BY <1>5 DEF OtherRootRenders, CompleteRender, loopVars
  <2>2. Collected(wip.memoizedState) => Collected(wip.memoizedState)'
    BY <1>0, <2>1, FinishQueueingCallbacks DEF Collected
  <2> QED
    BY <1>0, <2>1, <2>2, FinishQueueingCallbacks DEF CallbackInv
<1>6. CASE BailOut
  <2>1. /\ UNCHANGED <<pending, concurrentQueues, current, rest, newBase, fired>>
        /\ wip' = current /\ callbacks' = <<>> /\ pc' = "begun"
    BY <1>6 DEF BailOut, queueVars, loopVars
  <2>2. EntriesCallBack'
    BY <1>0, <2>1 DEF EntriesCallBack
  <2>3. Collected(wip.memoizedState)'
    BY <1>0, <2>1 DEF Collected
  <2> QED
    BY <1>0, <2>1, <2>2, <2>3 DEF CallbackInv
<1>7. CASE Begin
  <2>1. /\ current'.baseUpdates = current.baseUpdates \o pending
        /\ current'.memoizedState = current.memoizedState
        /\ wip'.baseUpdates = current.baseUpdates \o pending
        /\ wip'.memoizedState = current.memoizedState
        /\ rest' = current.baseUpdates \o pending
        /\ newState' = current.baseState /\ newBase' = <<>>
        /\ pending' = <<>> /\ callbacks' = <<>>
        /\ UNCHANGED <<concurrentQueues, fired>>
    BY <1>7 DEF Begin, TypeInv, TypeOK, Fiber
  <2>2. Range(current.baseUpdates \o pending)
          = Range(current.baseUpdates) \cup Range(pending)
    <3>1. current.baseUpdates \in Seq(Update) /\ pending \in Seq(Update)
      BY DEF TypeInv, TypeOK, Fiber
    <3> QED
      BY <3>1, RangeConcatenation
  <2>3. EntriesCallBack'
    BY <1>0, <2>1, <2>2 DEF EntriesCallBack, CallbackWithLane
  <2>4. Collected(wip.memoizedState)'
    BY <1>0, <2>1 DEF Collected
  <2>5. Collected(newState)'
    <3>1. PICK n \in Nat : n = Len(log)
      BY LenProperties DEF TypeInv, TypeOK
    <3>2. /\ current.baseState \in State /\ current.baseUpdates \in Seq(Update)
          /\ pending \in Seq(Update) /\ concurrentQueues \in Seq(Update)
          /\ FirstUpdates(Whole(current.baseState, current.baseUpdates,
                                pending, concurrentQueues), n)
      BY <3>1 DEF TypeInv, TypeOK, Fiber, OrderInv, WholeOf
    <3>3. PICK m \in 0..n : FirstUpdates(current.baseState, m)
      BY <3>2, AppliedFirst, SMTT(40)
    <3>4. Distinct(current.baseState)
      BY <3>2, <3>3, DistinctFirst
    <3>5. Range(current.baseState) \subseteq Range(current.memoizedState)
      BY DEF LanesInv, FiberInv
    <3> QED
      BY <1>0, <2>1, <3>4, <3>5 DEF Collected
  <2> QED
    BY <1>0, <2>1, <2>3, <2>4, <2>5 DEF CallbackInv
<1>8. CASE SkipUpdate \/ ApplyUpdate
  <2> DEFINE x == Head(rest)
  <2>1. /\ pc = "processing" /\ pc' = pc /\ rest # <<>> /\ rest' = Tail(rest)
        /\ UNCHANGED <<pending, concurrentQueues, current, wip, fired>>
        /\ LoopScreen /\ Collected(newState)
    BY <1>0, <1>8 DEF SkipUpdate, ApplyUpdate, queueVars, ScreenInv
  <2>2. /\ x \in Update /\ Range(rest) = {x} \cup Range(Tail(rest))
    BY <2>1, HeadTailProperties, RangeOfHead DEF TypeInv, TypeOK
  <2>3. /\ x.id \in UpdateIds /\ Rebased(x) \in Update
        /\ Rebased(x).lane = NoLane /\ ~Rebased(x).callback
    <3> HIDE DEF x
    <3> QED
      BY <2>2 DEF Update, Rebased
  <2>4. \A u \in Update : Range(Append(newBase, u)) = Range(newBase) \cup {u}
    BY RangeAppend DEF TypeInv, TypeOK
  <2>5. x.callback <=> x.lane # NoLane
    BY <1>0, <2>2 DEF EntriesCallBack, CallbackWithLane
  <2>6. ASSUME NEW u \in Update, u.callback <=> u.lane # NoLane,
               newBase' = newBase \/ newBase' = Append(newBase, u)
        PROVE  EntriesCallBack'
    <3> HIDE DEF x
    <3>1. CallbackWithLane(Range(newBase'))
      <4>1. \A e \in Range(newBase') : e \in Range(newBase) \/ e = u
        BY <2>4, <2>6
      <4> QED
        BY <1>0, <2>6, <4>1, Zenon DEF EntriesCallBack, CallbackWithLane
    <3>2. CallbackWithLane(Range(rest'))
      <4>1. Range(rest') \subseteq Range(rest)
        BY <2>1, <2>2, Zenon
      <4> QED
        BY <1>0, <4>1, Zenon DEF EntriesCallBack, CallbackWithLane
    <3> QED
      BY <1>0, <2>1, <3>1, <3>2 DEF EntriesCallBack, CallbackWithLane
  <2>7. CASE SkipUpdate
    <3>1. /\ newBase' = Append(newBase, x)
          /\ UNCHANGED <<newState, callbacks>>
      BY <2>7 DEF SkipUpdate
    <3> HIDE DEF x
    <3>2. EntriesCallBack'
      BY <2>2, <2>5, <2>6, <3>1
    <3>3. Collected(newState)'
      BY <2>1, <3>1 DEF Collected
    <3> QED
      BY <1>0, <2>1, <3>2, <3>3 DEF CallbackInv
  <2>8. CASE ApplyUpdate
    <3>1. /\ newBase' = newBase \/ newBase' = Append(newBase, Rebased(x))
          /\ newState' = Append(newState, x.id)
          /\ callbacks' = IF x.callback THEN Append(callbacks, x.id) ELSE callbacks
      BY <2>8 DEF ApplyUpdate
    <3>2. EntriesCallBack'
      <4> HIDE DEF x
      <4> QED
        BY <2>3, <2>6, <3>1
    <3>3. x.id \notin Range(newState)
      <4>1. PICK m \in 0..Len(log) : Len(Done) = m /\ x.id = m + 1
        BY <2>1, NextUpdate
      <4>2. Range(newState) \subseteq 1..m
        BY <2>1, <4>1 DEF LoopScreen
      <4> HIDE DEF x
      <4> QED
        BY <4>1, <4>2
    <3>4. x.callback <=> x.id \notin Range(current.memoizedState)
      BY <2>1, <2>2, <2>5 DEF LoopScreen, Matches
    <3> HIDE DEF x
    <3>5. newState \in State /\ callbacks \in State
      BY DEF TypeInv, TypeOK, State
    <3>6. /\ Range(Append(newState, x.id)) = Range(newState) \cup {x.id}
          /\ Range(Append(callbacks, x.id)) = Range(callbacks) \cup {x.id}
      BY <2>3, <3>5, RangeAppend DEF State
    <3>7. /\ Distinct(Append(newState, x.id))
          /\ x.callback => Distinct(Append(callbacks, x.id))
      BY <2>1, <2>3, <3>3, <3>5, DistinctAppend DEF Collected
    <3>8. Collected(newState)'
      <4>1. CASE x.callback
        BY <2>1, <3>1, <3>4, <3>6, <3>7, <4>1 DEF Collected
      <4>2. CASE ~x.callback
        BY <2>1, <3>1, <3>4, <3>6, <3>7, <4>2 DEF Collected
      <4> QED
        BY <4>1, <4>2
    <3> QED
      BY <1>0, <2>1, <3>2, <3>8 DEF CallbackInv
  <2> QED
    BY <1>8, <2>7, <2>8
<1>9. CASE FinishProcessing
  <2>1. /\ wip'.baseUpdates = newBase /\ wip'.memoizedState = newState
        /\ pc = "processing" /\ pc' = "begun"
        /\ UNCHANGED <<pending, concurrentQueues, current, rest, newBase,
                       callbacks, fired>>
    BY <1>9 DEF FinishProcessing, queueVars, loopVars
  <2>2. EntriesCallBack'
    BY <1>0, <2>1 DEF EntriesCallBack
  <2>3. Collected(wip.memoizedState)'
    BY <1>0, <2>1 DEF Collected
  <2> QED
    BY <1>0, <2>1, <2>2, <2>3 DEF CallbackInv
<1>10. CASE Commit
  <2>1. /\ current' = wip /\ wip' = current /\ fired' = fired \o callbacks
        /\ pc = "rendered" /\ pc' = "idle"
        /\ UNCHANGED <<pending, concurrentQueues, rest, newBase>>
    BY <1>10 DEF Commit, queueVars, loopVars
  <2>2. Collected(wip.memoizedState)
    BY <1>0, <2>1
  <2>3. Range(current.memoizedState) \subseteq Range(wip.memoizedState)
    <3>1. WipScreen
      BY <2>1 DEF ScreenInv
    <3>2. PICK lanes \in SUBSET Lanes, n \in 0..Len(log) :
            Range(wip.memoizedState)
              = Range(current.memoizedState) \cup {u \in 1..n : log[u] \in lanes}
      BY <3>1 DEF WipScreen
    <3> QED
      BY <3>2
  <2>4. fired \in State /\ callbacks \in State
    BY DEF TypeInv, TypeOK, State
  <2>5. Range(fired \o callbacks) = Range(fired) \cup Range(callbacks)
    BY <2>4, RangeConcatenation DEF State
  <2>6. Range(fired \o callbacks) = Range(wip.memoizedState)
    BY <1>0, <2>2, <2>3, <2>5 DEF Collected
  <2>7. Distinct(fired \o callbacks)
    BY <1>0, <2>2, <2>4, DistinctConcat DEF Collected
  <2>8. EntriesCallBack'
    BY <1>0, <2>1 DEF EntriesCallBack
  <2> QED
    BY <2>1, <2>2, <2>6, <2>7, <2>8 DEF CallbackInv, Collected
<1>11. CASE UNCHANGED vars
  BY <1>0, <1>11 DEF vars, queueVars, loopVars, CallbackInv, EntriesCallBack,
                     CallbackWithLane, Collected
<1> QED
  BY <1>1, <1>2, <1>3, <1>4, <1>5, <1>6, <1>7, <1>8, <1>9, <1>10, <1>11
  DEF Next, ProcessUpdateQueue

LEMMA CallbacksCounted ==
  ASSUME TypeInv, CallbackInv
  PROVE  CallbacksFireOnce
<1>1. fired \in State /\ current.memoizedState \in State
  BY DEF TypeInv, TypeOK, Fiber, State
<1>2. /\ Len(fired) = Cardinality(Range(fired))
      /\ Len(current.memoizedState) = Cardinality(Range(current.memoizedState))
  BY <1>1, DistinctLength DEF CallbackInv
<1> QED
  BY <1>2 DEF CallbackInv, CallbacksFireOnce

(* The callbacks called are those of the updates on the screen, each called*)
(* once, although commitCallbacks calls what a render collected and renders*)
(* are abandoned, and updates rebased and applied again.                   *)
THEOREM CallbacksAreCalledOnce == Spec => []CallbacksFireOnce
<1>1. TypeInv /\ CallbackInv => CallbacksFireOnce
  BY CallbacksCounted
<1> QED
  BY <1>1, TypeInit, TypeStep, OrderInit, OrderStep, LanesInit, LanesStep,
     ScreenInit, ScreenStep, CallbackInit, CallbackStep, PTL DEF Spec
=============================================================================
