-------------------------- MODULE HookQueueProofs --------------------------
(***************************************************************************)
(* The update queues of a function component, whatever the lanes of the    *)
(* events, the number of transition lanes, of updates and of actions.      *)
(***************************************************************************)
EXTENDS HookQueue, LaneProofs, SequenceTheorems

(* Induction up to k, on a set.                                            *)
LEMMA InductionUpTo ==
  ASSUME NEW k \in Nat, NEW S, 0 \in S, \A i \in 1..k : i - 1 \in S => i \in S
  PROVE  0..k \subseteq S
<1>. DEFINE Out == {i \in 0..k : i \notin S}
<1>1. SUFFICES ASSUME Out # {} PROVE FALSE
  OBVIOUS
<1>2. Out \in SUBSET Nat
  OBVIOUS
<1>. HIDE DEF Out
<1>3. PICK m \in Out : \A i \in Out : m <= i
  BY <1>1, <1>2, LeastExists
<1>4. m \in 0..k /\ m \notin S
  BY <1>3 DEF Out
<1>5. m \in 1..k /\ m - 1 \in 0..k
  BY <1>4
<1>6. m - 1 \notin Out
  BY <1>3, <1>4
<1>7. m - 1 \in S
  BY <1>5, <1>6 DEF Out
<1>. QED  BY <1>4, <1>5, <1>7

(* What is computed along a sequence.                                      *)
IsFold(f, G, base, s) ==
  \A n \in 0..Len(s) : f[n] = IF n = 0 THEN base ELSE G[<<f[n - 1], s[n]>>]

LEMMA FoldExists ==
  ASSUME NEW R, NEW U, NEW G \in [R \X U -> R], NEW base \in R, NEW s \in Seq(U)
  PROVE  \E f \in [0..Len(s) -> R] : IsFold(f, G, base, s)
<1>. DEFINE Upto(k, f) ==
       \A n \in 0..k : f[n] = IF n = 0 THEN base ELSE G[<<f[n - 1], s[n]>>]
     S == {k \in 0..Len(s) : \E f \in [0..k -> R] : Upto(k, f)}
<1>1. Len(s) \in Nat /\ \A i \in 1..Len(s) : s[i] \in U
  BY LenProperties, ElementOfSeq
<1>2. 0 \in S
  <2>1. [n \in 0..0 |-> base] \in [0..0 -> R] /\ Upto(0, [n \in 0..0 |-> base])
    OBVIOUS
  <2>2. 0 \in 0..Len(s)
    BY <1>1
  <2>. QED  BY <2>1, <2>2, Zenon
<1>3. ASSUME NEW k \in 1..Len(s), k - 1 \in S PROVE k \in S
  <2>1. PICK f \in [0..(k - 1) -> R] : Upto(k - 1, f)
    BY <1>3
  <2>2. k - 1 \in 0..(k - 1) /\ k \notin 0..(k - 1) /\ k \in 0..Len(s)
        /\ \A n \in 0..k : n # k => n \in 0..(k - 1) /\ (n # 0 => n - 1 \in 0..(k - 1))
    BY <1>1
  <2>3. PICK v \in R : v = G[<<f[k - 1], s[k]>>]
    BY <1>1, <2>1, <2>2
  <2>4. PICK g : g = [n \in 0..k |-> IF n = k THEN v ELSE f[n]]
    OBVIOUS
  <2>5. g \in [0..k -> R]
    BY <2>1, <2>2, <2>3, <2>4
  <2>6. Upto(k, g)
    <3>1. ASSUME NEW n \in 0..k, n # k
          PROVE  g[n] = IF n = 0 THEN base ELSE G[<<g[n - 1], s[n]>>]
      <4>1. g[n] = f[n] /\ (n # 0 => g[n - 1] = f[n - 1])
        BY <2>2, <2>4, <3>1
      <4>. QED  BY <2>1, <2>2, <3>1, <4>1
    <3>2. g[k] = v /\ g[k - 1] = f[k - 1] /\ k # 0
      BY <2>2, <2>4
    <3>. QED  BY <2>3, <3>1, <3>2
  <2>. QED  BY <2>2, <2>5, <2>6
<1>4. 0..Len(s) \subseteq S
  <2>. HIDE DEF S
  <2>. QED  BY <1>1, <1>2, <1>3, InductionUpTo
<1>. QED  BY <1>1, <1>4 DEF IsFold

-----------------------------------------------------------------------------
(* The operators on queues.                                                *)
Computed ==
  [state : State, baseState : State, baseQueue : Seq(Update),
   lanes : SUBSET UsedLanes, didReadFromAction : BOOLEAN]

LEMMA ResultType ==
  ASSUME NEW s \in State, NEW u \in Update
  PROVE  Result(s, u) \in State
<1>1. u.id \in 1..MaxUpdates /\ u.kind \in {"add", "keep", "reset"}
      /\ u.eagerState \subseteq State
  BY DEF Update
<1>2. CASE u.eagerState = {}
  <2>1. Append(s, u.id) \in State /\ <<>> \in State
    BY <1>1, AppendProperties, EmptySeq DEF State
  <2>. QED  BY <1>1, <1>2, <2>1 DEF Result, Reduce
<1>3. CASE u.eagerState # {}
  <2>1. PICK e : e = CHOOSE eager \in u.eagerState : TRUE
    OBVIOUS
  <2>2. e \in u.eagerState
    BY <1>3, <2>1
  <2>. QED  BY <1>1, <1>3, <2>1, <2>2 DEF Result
<1>. QED  BY <1>2, <1>3

LEMMA KeepType ==
  ASSUME NEW r \in Computed, NEW u \in Update, NEW lane \in UsedLanes
  PROVE  Keep(r, u, lane) \in Computed
<1>1. Append(r.baseQueue, u) \in Seq(Update)
  BY AppendProperties DEF Computed
<1>. QED  BY <1>1 DEF Keep, Computed

LEMMA ApplyType ==
  ASSUME NEW r \in Computed, NEW u \in Update
  PROVE  Apply(r, u) \in Computed
<1>1. Result(r.state, u) \in State
  BY ResultType DEF Computed
<1>. QED  BY <1>1 DEF Apply, Computed

LEMMA ProcessType ==
  ASSUME NEW r \in Computed, NEW u \in Update
  PROVE  Process(r, u) \in Computed
<1>. DEFINE applied == [u EXCEPT !.lane = NoLane]
            Reads(lane) ==
              [r EXCEPT !.didReadFromAction = @ \/ lane = scope.lane]
<1>1. /\ applied \in Update
      /\ u.lane # NoLane => u.lane \in UsedLanes
      /\ u.revertLane # NoLane => u.revertLane \in UsedLanes
  BY DEF Update, UsedLanes
<1>2. \A lane : Reads(lane) \in Computed
  BY DEF Computed
<1>3. ASSUME NEW lane
      PROVE  [Reads(lane) EXCEPT !.baseQueue = IF @ = <<>> THEN @ ELSE Append(@, applied)]
               \in Computed
  <2>1. PICK q \in Computed : q = Reads(lane)
    BY <1>2
  <2>2. Append(q.baseQueue, applied) \in Seq(Update)
    BY <1>1, AppendProperties DEF Computed
  <2>3. [q EXCEPT !.baseQueue = IF @ = <<>> THEN @ ELSE Append(@, applied)] \in Computed
    BY <2>2 DEF Computed
  <2>. QED  BY <2>1, <2>3
<1>. HIDE DEF applied, Reads
<1>4. CASE u.lane \notin renderLanes \cup {NoLane}
  <2>1. Process(r, u) = Keep(r, u, u.lane)
    BY <1>4 DEF Process
  <2>. QED  BY <1>1, <1>4, <2>1, KeepType
<1>5. CASE u.lane \in renderLanes \cup {NoLane} /\ u.revertLane = NoLane
  <2>1. Process(r, u) = Apply([Reads(u.lane) EXCEPT !.baseQueue =
                                 IF @ = <<>> THEN @ ELSE Append(@, applied)], u)
    BY <1>5 DEF Process, Reads, applied
  <2>. QED  BY <1>3, <2>1, ApplyType
<1>6. CASE /\ u.lane \in renderLanes \cup {NoLane} /\ u.revertLane # NoLane
           /\ u.revertLane \in renderLanes
  <2>1. Process(r, u) = Reads(u.revertLane)
    BY <1>6 DEF Process, Reads
  <2>. QED  BY <1>2, <2>1
<1>7. CASE /\ u.lane \in renderLanes \cup {NoLane} /\ u.revertLane # NoLane
           /\ u.revertLane \notin renderLanes
  <2>1. Process(r, u) = Apply(Keep(r, applied, u.revertLane), u)
    BY <1>7 DEF Process, applied
  <2>. QED  BY <1>1, <1>7, <2>1, KeepType, ApplyType
<1>. QED  BY <1>4, <1>5, <1>6, <1>7

Start(base) ==
  [state |-> base, baseState |-> base, baseQueue |-> <<>>, lanes |-> {},
   didReadFromAction |-> FALSE]

(* ProcessQueue goes through the queue, update by update.                  *)
LEMMA ProcessQueueSteps ==
  ASSUME NEW updates \in Seq(Update), NEW base \in State
  PROVE  \E after \in [0..Len(updates) -> Computed] :
           /\ after[0] = Start(base)
           /\ \A n \in 1..Len(updates) : after[n] = Process(after[n - 1], updates[n])
           /\ ProcessQueue(updates, base) = after[Len(updates)]
<1>. DEFINE G == [p \in Computed \X Update |-> Process(p[1], p[2])]
            Step(f) == [n \in 0..Len(updates) |->
                          IF n = 0 THEN Start(base) ELSE Process(f[n - 1], updates[n])]
<1>1. Len(updates) \in Nat /\ \A n \in 1..Len(updates) : updates[n] \in Update
  BY LenProperties, ElementOfSeq
<1>2. Start(base) \in Computed
  BY EmptySeq DEF Start, Computed
<1>3. G \in [Computed \X Update -> Computed]
  BY ProcessType
<1>4. PICK f \in [0..Len(updates) -> Computed] :
        \A n \in 0..Len(updates) :
          f[n] = IF n = 0 THEN Start(base) ELSE G[<<f[n - 1], updates[n]>>]
  <2>. HIDE DEF G
  <2>1. \E f \in [0..Len(updates) -> Computed] : IsFold(f, G, Start(base), updates)
    BY <1>2, <1>3, FoldExists, Zenon
  <2>. QED  BY <2>1 DEF IsFold
<1>5. \A n \in 1..Len(updates) : n # 0 /\ n - 1 \in 0..Len(updates) /\ n \in 0..Len(updates)
  BY <1>1
<1>6. f[0] = Start(base)
      /\ \A n \in 1..Len(updates) : f[n] = Process(f[n - 1], updates[n])
  <2>1. f[0] = Start(base)
    <3>1. 0 \in 0..Len(updates)
      BY <1>1
    <3>. HIDE DEF G
    <3>. QED  BY <1>4, <3>1
  <2>2. ASSUME NEW n \in 1..Len(updates) PROVE f[n] = Process(f[n - 1], updates[n])
    <3>1. f[n - 1] \in Computed /\ updates[n] \in Update
      BY <1>1, <1>4, <1>5
    <3>2. f[n] = G[<<f[n - 1], updates[n]>>]
      BY <1>4, <1>5
    <3>. QED  BY <3>1, <3>2
  <2>. QED  BY <2>1, <2>2
<1>7. f = Step(f)
  <2>1. \A n \in 0..Len(updates) :
          f[n] = IF n = 0 THEN Start(base) ELSE Process(f[n - 1], updates[n])
    <3>1. \A n \in 0..Len(updates) : n # 0 => n \in 1..Len(updates)
      BY <1>1
    <3>. QED  BY <1>6, <3>1
  <2>. QED  BY <1>4, <2>1
<1>. DEFINE g == CHOOSE after : after = Step(after)
<1>8. g = Step(g)
  BY <1>7, Zenon
<1>9. ProcessQueue(updates, base) = g[Len(updates)]
  BY Zenon DEF ProcessQueue, Start
<1>. HIDE DEF g, G
<1>10. 0..Len(updates) \subseteq {n \in 0..Len(updates) : g[n] = f[n]}
  <2>. DEFINE S == {n \in 0..Len(updates) : g[n] = f[n]}
  <2>1. 0 \in S
    BY <1>1, <1>6, <1>8
  <2>2. ASSUME NEW n \in 1..Len(updates), n - 1 \in S PROVE n \in S
    <3>1. g[n] = Process(g[n - 1], updates[n])
      BY <1>5, <1>8
    <3>. QED  BY <1>5, <1>6, <2>2, <3>1
  <2>. HIDE DEF S
  <2>3. 0..Len(updates) \subseteq S
    BY <1>1, <2>1, <2>2, InductionUpTo
  <2>. QED  BY <2>3 DEF S
<1>. QED  BY <1>1, <1>6, <1>9, <1>10

Enqueue(queues, update) ==
  [queues EXCEPT ![update.hook] = Append(@, update)]

LEMMA EnqueueType ==
  ASSUME NEW queues \in [Hooks -> Seq(Update)], NEW u \in Update
  PROVE  Enqueue(queues, u) \in [Hooks -> Seq(Update)]
<1>1. CASE u.hook \in Hooks
  <2>1. Append(queues[u.hook], u) \in Seq(Update)
    BY <1>1, AppendProperties
  <2>. QED  BY <1>1, <2>1 DEF Enqueue
<1>2. CASE u.hook \notin Hooks
  <2>1. Enqueue(queues, u) = queues
    BY <1>2 DEF Enqueue
  <2>. QED  BY <2>1
<1>. QED  BY <1>1, <1>2

(* finishQueueingConcurrentUpdates goes through the updates, one by one.   *)
LEMMA EnqueuedSteps ==
  ASSUME NEW queues \in [Hooks -> Seq(Update)], NEW updates \in Seq(Update)
  PROVE  \E after \in [0..Len(updates) -> [Hooks -> Seq(Update)]] :
           /\ after[0] = queues
           /\ \A n \in 1..Len(updates) : after[n] = Enqueue(after[n - 1], updates[n])
           /\ Enqueued(queues, updates) = after[Len(updates)]
<1>. DEFINE R == [Hooks -> Seq(Update)]
            G == [p \in R \X Update |-> Enqueue(p[1], p[2])]
            Step(f) == [n \in 0..Len(updates) |->
                          IF n = 0 THEN queues ELSE Enqueue(f[n - 1], updates[n])]
<1>1. Len(updates) \in Nat /\ \A n \in 1..Len(updates) : updates[n] \in Update
  BY LenProperties, ElementOfSeq
<1>3. G \in [R \X Update -> R]
  BY EnqueueType
<1>4. PICK f \in [0..Len(updates) -> R] :
        \A n \in 0..Len(updates) :
          f[n] = IF n = 0 THEN queues ELSE G[<<f[n - 1], updates[n]>>]
  <2>1. queues \in R
    OBVIOUS
  <2>. HIDE DEF G, R
  <2>2. \E f \in [0..Len(updates) -> R] : IsFold(f, G, queues, updates)
    BY <1>3, <2>1, FoldExists, Zenon
  <2>. QED  BY <2>2 DEF IsFold
<1>5. \A n \in 1..Len(updates) : n # 0 /\ n - 1 \in 0..Len(updates) /\ n \in 0..Len(updates)
  BY <1>1
<1>6. f[0] = queues
      /\ \A n \in 1..Len(updates) : f[n] = Enqueue(f[n - 1], updates[n])
  <2>1. f[0] = queues
    <3>1. 0 \in 0..Len(updates)
      BY <1>1
    <3>. HIDE DEF G
    <3>. QED  BY <1>4, <3>1
  <2>2. ASSUME NEW n \in 1..Len(updates) PROVE f[n] = Enqueue(f[n - 1], updates[n])
    <3>1. f[n - 1] \in R /\ updates[n] \in Update
      BY <1>1, <1>4, <1>5
    <3>2. f[n] = G[<<f[n - 1], updates[n]>>]
      BY <1>4, <1>5
    <3>. HIDE DEF R
    <3>. QED  BY <3>1, <3>2
  <2>. QED  BY <2>1, <2>2
<1>7. f = Step(f)
  <2>1. \A n \in 0..Len(updates) :
          f[n] = IF n = 0 THEN queues ELSE Enqueue(f[n - 1], updates[n])
    <3>1. \A n \in 0..Len(updates) : n # 0 => n \in 1..Len(updates)
      BY <1>1
    <3>. QED  BY <1>6, <3>1
  <2>. HIDE DEF R
  <2>. QED  BY <1>4, <2>1
<1>. DEFINE g == CHOOSE after : after = Step(after)
<1>8. g = Step(g)
  BY <1>7, Zenon
<1>9. Enqueued(queues, updates) = g[Len(updates)]
  BY Zenon DEF Enqueued, Enqueue
<1>. HIDE DEF g, G, R
<1>10. 0..Len(updates) \subseteq {n \in 0..Len(updates) : g[n] = f[n]}
  <2>. DEFINE S == {n \in 0..Len(updates) : g[n] = f[n]}
  <2>1. 0 \in S
    BY <1>1, <1>6, <1>8
  <2>2. ASSUME NEW n \in 1..Len(updates), n - 1 \in S PROVE n \in S
    <3>1. g[n] = Enqueue(g[n - 1], updates[n])
      BY <1>5, <1>8
    <3>. QED  BY <1>5, <1>6, <2>2, <3>1
  <2>. HIDE DEF S
  <2>3. 0..Len(updates) \subseteq S
    BY <1>1, <2>1, <2>2, InductionUpTo
  <2>. QED  BY <2>3 DEF S
<1>11. g[Len(updates)] = f[Len(updates)]
  BY <1>1, <1>10
<1>. QED  BY <1>4, <1>6, <1>9, <1>11 DEF R

LEMMA EnqueuedType ==
  ASSUME NEW queues \in [Hooks -> Seq(Update)], NEW updates \in Seq(Update)
  PROVE  Enqueued(queues, updates) \in [Hooks -> Seq(Update)]
<1>1. Len(updates) \in 0..Len(updates)
  BY LenProperties
<1>. QED  BY <1>1, EnqueuedSteps

LEMMA ProcessQueueType ==
  ASSUME NEW updates \in Seq(Update), NEW base \in State
  PROVE  ProcessQueue(updates, base) \in Computed
<1>1. Len(updates) \in 0..Len(updates)
  BY LenProperties
<1>. QED  BY <1>1, ProcessQueueSteps

LEMMA LanesOfType ==
  ASSUME NEW updates \in Seq(Update)
  PROVE  LanesOf(updates) \in SUBSET UsedLanes
<1>1. \A u \in ToSet(updates) : u.lane \in UsedLanes \cup {NoLane}
  <2>1. \A i \in 1..Len(updates) : updates[i] \in Update
    BY ElementOfSeq
  <2>. QED  BY <2>1, LenProperties DEF ToSet, Update
<1>. QED  BY <1>1 DEF LanesOf

LEMMA MarkType ==
  ASSUME NEW fiber \in Fiber, NEW lanes \in SUBSET UsedLanes
  PROVE  Mark(fiber, lanes) \in Fiber /\ Mark(fiber, lanes).hooks = fiber.hooks
BY DEF Mark, Fiber

LEMMA MarkRootEntangledType ==
  ASSUME NEW L, NEW rec \in RootRecord(L), NEW lanes \in SUBSET L
  PROVE  MarkRootEntangled(rec, lanes) \in RootRecord(L)
<1>1. DOMAIN rec.entanglements = L /\ \A l \in L : rec.entanglements[l] \subseteq L
  BY DEF RootRecord
<1>. QED  BY <1>1 DEF MarkRootEntangled, RootRecord

-----------------------------------------------------------------------------
(* The types, and what they rest on: updates to other components wait for  *)
(* a lane, and the scope is open as long as an action is pending.          *)
Scopes ==
  [lane : UsedTransitionLanes \cup {NoLane}, pendingCount : 0..MaxActions,
   listeners : SUBSET (SUBSET UsedLanes)]

TypeInv ==
  /\ TypeOK
  /\ root \in RootRecord(UsedLanes)
  /\ scope \in Scopes
  /\ \A u \in DOMAIN log : log[u].hook = "other" => log[u].lane # NoLane
  /\ IF IsOpen(scope) THEN scope.pendingCount \in 1..actions ELSE scope = NoScope

LEMMA LanesInUse ==
  /\ UsedLanes \in SUBSET (SyncLane..IdleLane)
  /\ UsedTransitionLanes \subseteq UsedLanes /\ UsedTransitionLanes \subseteq TransitionLanes
  /\ EventLanes \subseteq UsedLanes /\ SyncLane \in UsedLanes
  /\ NoLane \notin UsedLanes /\ IdleLane \notin UsedLanes
  /\ UsedLanes \cap TransitionLanes = UsedTransitionLanes
  /\ 7 \in UsedTransitionLanes /\ SyncLane \notin TransitionLanes
BY EventLanesAssumption, TransitionAssumption
   DEF UsedLanes, UsedTransitionLanes, TransitionLanes, SyncUpdateLanes, SyncLane,
       InputContinuousLane, DefaultLane, IdleLane, NoLane

LEMMA ClaimType ==
  ASSUME nextTransitionLane \in UsedTransitionLanes, ClaimNextTransitionLane
  PROVE  nextTransitionLane' \in UsedTransitionLanes
BY TransitionAssumption DEF ClaimNextTransitionLane, UsedTransitionLanes, TransitionLanes

LEMMA RequestedLaneType ==
  ASSUME TypeOK
  PROVE  RequestedLane \in UsedTransitionLanes
BY DEF TypeOK, RequestedLane

LEMMA RequestType ==
  ASSUME TypeOK, RequestTransitionLane
  PROVE  /\ currentEventTransitionLane' \in UsedTransitionLanes \cup {NoLane}
         /\ nextTransitionLane' \in UsedTransitionLanes
<1>1. currentEventTransitionLane' \in UsedTransitionLanes
  BY RequestedLaneType DEF RequestTransitionLane
<1>2. nextTransitionLane' \in UsedTransitionLanes
  <2>1. nextTransitionLane \in UsedTransitionLanes
    BY DEF TypeOK
  <2>2. CASE currentEventTransitionLane = NoLane
    BY <2>1, <2>2, ClaimType DEF RequestTransitionLane
  <2>3. CASE currentEventTransitionLane # NoLane
    BY <2>1, <2>3 DEF RequestTransitionLane
  <2>. QED  BY <2>2, <2>3
<1>. QED  BY <1>1, <1>2

LEMMA UpdateLaneType ==
  ASSUME TypeInv, NEW eventLane \in EventLanes
  PROVE  UpdateLane(eventLane) \in UsedLanes
<1>1. RequestedLane \in UsedLanes /\ eventLane \in UsedLanes
  BY RequestedLaneType, LanesInUse DEF TypeInv
<1>2. IsOpen(scope) => scope.lane \in UsedLanes
  BY LanesInUse DEF TypeInv, Scopes, IsOpen
<1>. QED  BY <1>1, <1>2 DEF UpdateLane

(* The types of the log.                                                   *)
LogOK ==
  /\ log \in Seq(Update) /\ Len(log) <= MaxUpdates
  /\ status \in Seq({"queued", "shown", "dropped"}) /\ Len(status) = Len(log)
  /\ seen \in 0..Len(log) /\ inScope \subseteq DOMAIN log
  /\ \A u \in DOMAIN log : log[u].hook = "other" => log[u].lane # NoLane

QueuesOK ==
  /\ concurrentQueues \in Seq(Update) /\ pending \in [Hooks -> Seq(Update)]
  /\ queueLanes \subseteq UsedTransitionLanes /\ lastRenderedState \in State
  /\ current \in Fiber /\ wip \in Fiber

LanesOK ==
  /\ root \in RootRecord(UsedLanes)
  /\ root.entanglements \in [UsedLanes -> SUBSET UsedTransitionLanes]
  /\ wipLanes \subseteq UsedLanes /\ renderLanes \subseteq UsedLanes
  /\ touched \subseteq UsedLanes /\ pc \in {"idle", "started", "begun", "skipped"}
  /\ microtask \in BOOLEAN

TransitionsOK ==
  /\ inTransition \in BOOLEAN
  /\ currentEventTransitionLane \in UsedTransitionLanes \cup {NoLane}
  /\ nextTransitionLane \in UsedTransitionLanes

ScopeOK ==
  /\ scope \in Scopes /\ actions \in 0..MaxActions
  /\ IF IsOpen(scope) THEN scope.pendingCount \in 1..actions ELSE scope = NoScope

LEMMA TypeInvParts ==
  TypeInv <=> LogOK /\ QueuesOK /\ LanesOK /\ TransitionsOK /\ ScopeOK
<1>1. root \in RootRecord(UsedLanes)
        => /\ root.pendingLanes \subseteq UsedLanes
           /\ root.suspendedLanes \subseteq UsedLanes /\ root.pingedLanes \subseteq UsedLanes
  BY DEF RootRecord
<1>2. scope \in Scopes
        => /\ scope.lane \in UsedTransitionLanes \cup {NoLane}
           /\ scope.listeners \subseteq SUBSET UsedLanes
           /\ scope.pendingCount \in 0..MaxActions
  BY DEF Scopes
<1>. QED  BY <1>1, <1>2, Zenon
  DEF TypeInv, TypeOK, LogOK, QueuesOK, LanesOK, TransitionsOK, ScopeOK

LEMMA TypeInvPartsNext ==
  ASSUME LogOK', QueuesOK', LanesOK', TransitionsOK', ScopeOK'
  PROVE  TypeInv'
<1>1. root' \in RootRecord(UsedLanes)
        => /\ root.pendingLanes' \subseteq UsedLanes
           /\ root.suspendedLanes' \subseteq UsedLanes /\ root.pingedLanes' \subseteq UsedLanes
  BY DEF RootRecord
<1>2. scope' \in Scopes
        => /\ scope.lane' \in UsedTransitionLanes \cup {NoLane}
           /\ scope.listeners' \subseteq SUBSET UsedLanes
           /\ scope.pendingCount' \in 0..MaxActions
  BY DEF Scopes
<1>. QED  BY <1>1, <1>2, Zenon
  DEF TypeInv, TypeOK, LogOK, QueuesOK, LanesOK, TransitionsOK, ScopeOK

LEMMA TypeInit == Init => TypeInv
<1>. SUFFICES ASSUME Init PROVE TypeInv
  OBVIOUS
<1>1. LogOK
  BY EmptySeq, BoundsAssumption DEF Init, LogOK
<1>2. QueuesOK
  BY EmptySeq DEF Init, QueuesOK, InitialFiber, InitialHook, Fiber, Hook, State
<1>3. LanesOK
  BY LanesInUse DEF Init, LanesOK, InitialRoot, RootRecord
<1>4. TransitionsOK
  BY LanesInUse DEF Init, TransitionsOK
<1>5. ScopeOK
  BY BoundsAssumption DEF Init, ScopeOK, Scopes, NoScope, IsOpen
<1>. QED  BY <1>1, <1>2, <1>3, <1>4, <1>5, TypeInvParts

-----------------------------------------------------------------------------
(* Every step keeps the types: first the events.                           *)
LEMMA MarkRootEntangledTransitions ==
  ASSUME NEW rec \in RootRecord(UsedLanes), NEW lanes \in SUBSET UsedTransitionLanes,
         rec.entanglements \in [UsedLanes -> SUBSET UsedTransitionLanes]
  PROVE  MarkRootEntangled(rec, lanes).entanglements
           \in [UsedLanes -> SUBSET UsedTransitionLanes]
<1>1. DOMAIN rec.entanglements = UsedLanes
  BY DEF RootRecord
<1>. QED  BY <1>1 DEF MarkRootEntangled, RootRecord

LEMMA ScheduleType ==
  ASSUME TypeInv, NEW u \in Update, u.lane \in UsedLanes,
         NEW entangled \in SUBSET UsedTransitionLanes, Schedule(u, entangled),
         UNCHANGED <<wipLanes, renderLanes, pc>>
  PROVE  /\ concurrentQueues' \in Seq(Update) /\ pending' \in [Hooks -> Seq(Update)]
         /\ current' \in Fiber /\ wip' \in Fiber /\ LanesOK'
<1>1. LanesOK /\ QueuesOK
  BY TypeInvParts
<1>2. concurrentQueues' \in Seq(Update) /\ pending' \in [Hooks -> Seq(Update)]
  BY <1>1, AppendProperties DEF Schedule, QueuesOK
<1>3. current' \in Fiber /\ wip' \in Fiber
  BY <1>1, MarkType DEF Schedule, QueuesOK
<1>. DEFINE updated == MarkRootUpdated(root, u.lane)
<1>4. /\ updated \in RootRecord(UsedLanes)
      /\ updated.entanglements \in [UsedLanes -> SUBSET UsedTransitionLanes]
  <2>1. updated.entanglements = root.entanglements
    BY <1>1 DEF MarkRootUpdated, LanesOK, RootRecord
  <2>. HIDE DEF updated
  <2>2. updated \in RootRecord(UsedLanes)
    BY <1>1, MarkRootUpdatedType DEF LanesOK, updated
  <2>. QED  BY <1>1, <2>1, <2>2 DEF LanesOK
<1>5. /\ root' \in RootRecord(UsedLanes)
      /\ root.entanglements' \in [UsedLanes -> SUBSET UsedTransitionLanes]
  <2>. HIDE DEF updated
  <2>1. CASE entangled = {}
    BY <1>4, <2>1 DEF Schedule, updated
  <2>2. CASE entangled # {}
    <3>1. root' = MarkRootEntangled(updated, entangled)
      BY <2>2 DEF Schedule, updated
    <3>2. entangled \in SUBSET UsedLanes
      BY LanesInUse
    <3>3. MarkRootEntangled(updated, entangled) \in RootRecord(UsedLanes)
      BY <1>4, <3>2, MarkRootEntangledType
    <3>4. MarkRootEntangled(updated, entangled).entanglements
            \in [UsedLanes -> SUBSET UsedTransitionLanes]
      BY <1>4, MarkRootEntangledTransitions
    <3>. QED  BY <3>1, <3>3, <3>4
  <2>. QED  BY <2>1, <2>2
<1>6. touched' \subseteq UsedLanes /\ microtask' \in BOOLEAN
  BY <1>1 DEF Schedule, LanesOK
<1>. QED  BY <1>1, <1>2, <1>3, <1>5, <1>6 DEF LanesOK

LEMMA FinishQueueingType ==
  ASSUME TypeInv, NEW updates \in Seq(Update), FinishQueueing(updates)
  PROVE  /\ concurrentQueues' \in Seq(Update) /\ pending' \in [Hooks -> Seq(Update)]
         /\ current' \in Fiber /\ wip' \in Fiber
<1>1. QueuesOK
  BY TypeInvParts
<1>2. LanesOf(updates) \in SUBSET UsedLanes
  BY LanesOfType
<1>3. Enqueued(pending, updates) \in [Hooks -> Seq(Update)]
  BY <1>1, EnqueuedType DEF QueuesOK
<1>4. Mark(current, LanesOf(updates)) \in Fiber /\ Mark(wip, LanesOf(updates)) \in Fiber
  BY <1>1, <1>2, MarkType DEF QueuesOK
<1>. QED  BY <1>3, <1>4, EmptySeq DEF FinishQueueing

LEMMA AppendLogType ==
  ASSUME TypeInv, Len(log) < MaxUpdates, NEW u \in Update,
         u.hook = "other" => u.lane # NoLane, log' = Append(log, u),
         NEW st \in {"queued", "shown", "dropped"}, status' = Append(status, st),
         seen' = seen, inScope' \subseteq inScope \cup {Len(log) + 1}
  PROVE  LogOK'
<1>1. LogOK
  BY TypeInvParts
<1>2. PICK n \in Nat : n = Len(log) /\ n = Len(status)
  BY <1>1, LenProperties DEF LogOK
<1>3. /\ log' \in Seq(Update) /\ Len(log') = n + 1
      /\ \A i \in 1..n : log'[i] = log[i]
      /\ log'[n + 1] = u /\ DOMAIN log' = 1..(n + 1) /\ DOMAIN log = 1..n
  BY <1>1, <1>2, AppendProperties, LenProperties DEF LogOK
<1>4. status' \in Seq({"queued", "shown", "dropped"}) /\ Len(status') = n + 1
  BY <1>1, <1>2, AppendProperties DEF LogOK
<1>5. /\ seen' \in 0..Len(log') /\ inScope' \subseteq DOMAIN log'
      /\ Len(log') <= MaxUpdates
  BY <1>1, <1>2, <1>3, BoundsAssumption DEF LogOK
<1>6. ASSUME NEW i \in 1..(n + 1), log'[i].hook = "other"
      PROVE  log'[i].lane # NoLane
  <2>1. CASE i = n + 1
    BY <1>3, <1>6, <2>1
  <2>2. CASE i \in 1..n
    <3>1. i \in DOMAIN log /\ log[i].hook = "other"
      BY <1>3, <1>6, <2>2
    <3>. QED  BY <1>1, <1>3, <2>2, <3>1 DEF LogOK
  <2>3. i \in 1..n \/ i = n + 1
    BY <1>2
  <2>. QED  BY <2>1, <2>2, <2>3
<1>. QED  BY <1>3, <1>4, <1>5, <1>6, <1>2 DEF LogOK

LEMMA EventTransitionsType ==
  ASSUME TypeInv, inTransition' = inTransition,
         RequestTransitionLane \/ UNCHANGED transitionVars
  PROVE  TransitionsOK'
<1>1. TransitionsOK /\ TypeOK
  BY TypeInvParts DEF TypeInv
<1>2. CASE RequestTransitionLane
  BY <1>1, <1>2, RequestType DEF TransitionsOK
<1>3. CASE UNCHANGED transitionVars
  BY <1>1, <1>3 DEF TransitionsOK, transitionVars
<1>. QED  BY <1>2, <1>3

LEMMA DispatchSetStateType ==
  ASSUME TypeInv, NEW kind \in Kinds, NEW eventLane \in EventLanes,
         DispatchSetState(kind, eventLane)
  PROVE  TypeInv'
<1>. DEFINE lane == UpdateLane(eventLane)
            plain == [id |-> Len(log) + 1, hook |-> "state", kind |-> kind,
                      lane |-> lane, revertLane |-> NoLane, eagerState |-> {}]
            eager == Reduce(lastRenderedState, plain)
            update == [plain EXCEPT !.eagerState = IF NoLanesOnFibers THEN {eager} ELSE {}]
            quiet == [update EXCEPT !.lane = NoLane]
<1>1. LogOK /\ QueuesOK /\ LanesOK /\ TransitionsOK /\ ScopeOK
  BY TypeInvParts
<1>2. lane \in UsedLanes
  BY UpdateLaneType
<1>3. kind \in {"add", "keep", "reset"} /\ Len(log) + 1 \in 1..MaxUpdates
  BY <1>1, KindsAssumption, BoundsAssumption, LenProperties DEF LogOK, DispatchSetState
<1>. HIDE DEF lane
<1>4. plain \in Update
  BY <1>2, <1>3 DEF Update, Hooks
<1>5. eager \in State
  <2>1. plain.eagerState = {}
    OBVIOUS
  <2>2. eager = Result(lastRenderedState, plain)
    BY <2>1 DEF Result
  <2>. QED  BY <1>1, <1>4, <2>2, ResultType DEF QueuesOK
<1>6. update \in Update /\ quiet \in Update /\ update.lane = lane
      /\ update.hook = "state" /\ quiet.hook = "state"
  BY <1>4, <1>5 DEF Update
<1>7. TransitionsOK' /\ ScopeOK'
  <2>1. RequestTransitionLane \/ UNCHANGED transitionVars
    BY DEF DispatchSetState
  <2>2. ScopeOK' /\ inTransition' = inTransition
    BY <1>1 DEF DispatchSetState, ScopeOK, actionVars
  <2>. QED  BY <2>1, <2>2, EventTransitionsType
<1>8. CASE update.eagerState = {lastRenderedState}
  <2>. HIDE DEF update
  <2>1. /\ EagerlyBailOut(quiet) /\ log' = Append(log, quiet)
        /\ status' = Append(status, "shown") /\ UNCHANGED queueLanes
    BY <1>8 DEF DispatchSetState, update, eager, plain, lane
  <2>. HIDE DEF quiet
  <2>2. LogOK'
    BY <1>6, <2>1, AppendLogType DEF DispatchSetState
  <2>3. /\ concurrentQueues' \in Seq(Update) /\ pending' \in [Hooks -> Seq(Update)]
        /\ current' \in Fiber /\ wip' \in Fiber
    <3>1. Append(concurrentQueues, quiet) \in Seq(Update)
      BY <1>1, <1>6, AppendProperties DEF QueuesOK
    <3>2. CASE IsRendering
      BY <1>1, <2>1, <3>1, <3>2 DEF EagerlyBailOut, QueuesOK
    <3>3. CASE ~IsRendering
      BY <2>1, <3>1, <3>3, FinishQueueingType DEF EagerlyBailOut
    <3>. QED  BY <3>2, <3>3
  <2>4. QueuesOK'
    BY <1>1, <2>1, <2>3 DEF QueuesOK, DispatchSetState
  <2>5. LanesOK'
    BY <1>1, <2>1 DEF LanesOK, EagerlyBailOut, DispatchSetState
  <2>. QED  BY <1>7, <2>2, <2>4, <2>5, TypeInvPartsNext
<1>9. CASE update.eagerState # {lastRenderedState}
  <2>. DEFINE entangled == IF lane \in TransitionLanes THEN QueueLanes(lane) ELSE {}
  <2>. HIDE DEF update
  <2>1. /\ Schedule(update, entangled) /\ log' = Append(log, update)
        /\ status' = Append(status, "queued")
        /\ queueLanes' = IF lane \in TransitionLanes THEN QueueLanes(lane) ELSE queueLanes
    BY <1>9 DEF DispatchSetState, update, eager, plain, lane
  <2>2. entangled \in SUBSET UsedTransitionLanes /\ queueLanes' \subseteq UsedTransitionLanes
    BY <1>1, <1>2, <2>1, LanesInUse DEF QueueLanes, QueuesOK
  <2>. HIDE DEF entangled
  <2>3. LogOK'
    BY <1>6, <2>1, AppendLogType DEF DispatchSetState
  <2>4. /\ concurrentQueues' \in Seq(Update) /\ pending' \in [Hooks -> Seq(Update)]
        /\ current' \in Fiber /\ wip' \in Fiber /\ LanesOK'
    BY <1>2, <1>6, <2>1, <2>2, ScheduleType DEF DispatchSetState
  <2>5. QueuesOK'
    BY <1>1, <2>2, <2>4 DEF QueuesOK, DispatchSetState
  <2>. QED  BY <1>7, <2>3, <2>4, <2>5, TypeInvPartsNext
<1>. QED  BY <1>8, <1>9

LEMMA DispatchOptimisticSetStateType ==
  ASSUME TypeInv, DispatchOptimisticSetState
  PROVE  TypeInv'
<1>. DEFINE update == [id |-> Len(log) + 1, hook |-> "optimistic", kind |-> "add",
                       lane |-> SyncLane, revertLane |-> RequestedLane,
                       eagerState |-> {}]
<1>1. LogOK /\ QueuesOK /\ LanesOK /\ TransitionsOK /\ ScopeOK
  BY TypeInvParts
<1>2. update \in Update /\ update.lane \in UsedLanes /\ update.hook # "other"
  <2>1. Len(log) + 1 \in 1..MaxUpdates
    BY <1>1, BoundsAssumption, LenProperties DEF LogOK, DispatchOptimisticSetState
  <2>2. RequestedLane \in UsedTransitionLanes
    BY RequestedLaneType DEF TypeInv
  <2>. QED  BY <2>1, <2>2, LanesInUse DEF Update, Hooks
<1>3. /\ Schedule(update, {}) /\ log' = Append(log, update)
      /\ status' = Append(status, "queued")
  BY DEF DispatchOptimisticSetState
<1>. HIDE DEF update
<1>4. LogOK'
  BY <1>2, <1>3, AppendLogType DEF DispatchOptimisticSetState
<1>5. /\ concurrentQueues' \in Seq(Update) /\ pending' \in [Hooks -> Seq(Update)]
      /\ current' \in Fiber /\ wip' \in Fiber /\ LanesOK'
  BY <1>2, <1>3, ScheduleType DEF DispatchOptimisticSetState
<1>6. QueuesOK'
  BY <1>1, <1>5 DEF QueuesOK, DispatchOptimisticSetState
<1>7. TransitionsOK'
  BY EventTransitionsType DEF DispatchOptimisticSetState
<1>8. ScopeOK'
  BY <1>1 DEF DispatchOptimisticSetState, ScopeOK, actionVars
<1>. QED  BY <1>4, <1>5, <1>6, <1>7, <1>8, TypeInvPartsNext

LEMMA UpdateOtherType ==
  ASSUME TypeInv, NEW eventLane \in EventLanes, UpdateOther(eventLane)
  PROVE  TypeInv'
<1>. DEFINE lane == UpdateLane(eventLane)
            update == [id |-> Len(log) + 1, hook |-> "other", kind |-> "keep",
                       lane |-> lane, revertLane |-> NoLane, eagerState |-> {}]
<1>1. LogOK /\ QueuesOK /\ LanesOK /\ TransitionsOK /\ ScopeOK
  BY TypeInvParts
<1>2. lane \in UsedLanes /\ lane # NoLane
  BY UpdateLaneType, LanesInUse
<1>3. /\ log' = Append(log, update) /\ status' = Append(status, "queued")
      /\ root' = MarkRootUpdated(root, lane)
      /\ touched' = IF IsRendering THEN touched \cup {lane} ELSE touched
      /\ microtask' = TRUE
  BY DEF UpdateOther
<1>. HIDE DEF lane
<1>4. LogOK'
  <2>1. update.lane # NoLane
    BY <1>2
  <2>. HIDE DEF update
  <2>2. inScope' \subseteq inScope \cup {Len(log) + 1} /\ seen' = seen /\ Len(log) < MaxUpdates
    BY DEF UpdateOther
  <2>3. update \in Update
    <3>1. Len(log) + 1 \in 1..MaxUpdates
      BY <1>1, <2>2, BoundsAssumption, LenProperties DEF LogOK
    <3>. QED  BY <1>2, <3>1 DEF Update, Hooks, update
  <2>. QED  BY <1>3, <2>1, <2>2, <2>3, AppendLogType
<1>5. QueuesOK'
  BY <1>1 DEF QueuesOK, UpdateOther, queueVars, fiberVars
<1>6. LanesOK'
  <2>1. MarkRootUpdated(root, lane) \in RootRecord(UsedLanes)
        /\ MarkRootUpdated(root, lane).entanglements = root.entanglements
    <3>1. MarkRootUpdated(root, lane).entanglements = root.entanglements
      BY <1>1 DEF MarkRootUpdated, LanesOK, RootRecord
    <3>. QED  BY <1>1, <1>2, <3>1, MarkRootUpdatedType DEF LanesOK
  <2>2. touched' \subseteq UsedLanes
    BY <1>1, <1>2, <1>3 DEF LanesOK
  <2>. QED  BY <1>1, <1>3, <2>1, <2>2 DEF LanesOK, UpdateOther
<1>7. TransitionsOK'
  <2>1. RequestTransitionLane \/ UNCHANGED transitionVars
    BY DEF UpdateOther
  <2>. QED  BY <2>1, EventTransitionsType DEF UpdateOther
<1>8. ScopeOK'
  BY <1>1 DEF UpdateOther, ScopeOK, actionVars
<1>. QED  BY <1>4, <1>5, <1>6, <1>7, <1>8, TypeInvPartsNext

LEMMA TransitionStepsType ==
  ASSUME TypeInv, StartTransition \/ FinishTransition \/ ProcessRootSchedule
  PROVE  TypeInv'
<1>1. LogOK /\ QueuesOK /\ LanesOK /\ TransitionsOK /\ ScopeOK
  BY TypeInvParts
<1>2. CASE StartTransition
  <2>1. LogOK'
    BY <1>1, <1>2 DEF LogOK, StartTransition, historyVars
  <2>2. QueuesOK'
    BY <1>1, <1>2 DEF QueuesOK, StartTransition, queueVars, fiberVars
  <2>3. LanesOK'
    BY <1>1, <1>2 DEF LanesOK, StartTransition, renderVars
  <2>4. TransitionsOK'
    BY <1>1, <1>2 DEF TransitionsOK, StartTransition, transitionVars
  <2>5. ScopeOK'
    BY <1>1, <1>2 DEF ScopeOK, StartTransition, actionVars
  <2>. QED  BY <2>1, <2>2, <2>3, <2>4, <2>5, TypeInvPartsNext
<1>3. CASE FinishTransition
  <2>1. LogOK'
    BY <1>1, <1>3 DEF LogOK, FinishTransition
  <2>2. QueuesOK'
    BY <1>1, <1>3 DEF QueuesOK, FinishTransition, queueVars, fiberVars
  <2>3. LanesOK'
    BY <1>1, <1>3 DEF LanesOK, FinishTransition, renderVars
  <2>4. TransitionsOK'
    BY <1>1, <1>3 DEF TransitionsOK, FinishTransition, transitionVars
  <2>5. ScopeOK'
    BY <1>1, <1>3 DEF ScopeOK, FinishTransition, actionVars
  <2>. QED  BY <2>1, <2>2, <2>3, <2>4, <2>5, TypeInvPartsNext
<1>4. CASE ProcessRootSchedule
  <2>1. LogOK'
    BY <1>1, <1>4 DEF LogOK, ProcessRootSchedule, historyVars
  <2>2. QueuesOK'
    BY <1>1, <1>4 DEF QueuesOK, ProcessRootSchedule, queueVars, fiberVars
  <2>3. LanesOK'
    BY <1>1, <1>4 DEF LanesOK, ProcessRootSchedule, renderVars
  <2>4. TransitionsOK'
    BY <1>1, <1>4 DEF TransitionsOK, ProcessRootSchedule
  <2>5. ScopeOK'
    BY <1>1, <1>4 DEF ScopeOK, ProcessRootSchedule, actionVars
  <2>. QED  BY <2>1, <2>2, <2>3, <2>4, <2>5, TypeInvPartsNext
<1>. QED  BY <1>2, <1>3, <1>4

LEMMA FinishActionType ==
  ASSUME TypeInv, FinishAction
  PROVE  TypeInv'
<1>1. LogOK /\ QueuesOK /\ LanesOK /\ TransitionsOK /\ ScopeOK
  BY TypeInvParts
<1>2. RequestedLane \in UsedTransitionLanes /\ RequestedLane # NoLane
  BY RequestedLaneType, LanesInUse DEF TypeInv
<1>3. LogOK'
  BY <1>1 DEF LogOK, FinishAction, historyVars
<1>4. QueuesOK'
  BY <1>1 DEF QueuesOK, FinishAction, queueVars, fiberVars
<1>5. LanesOK'
  BY <1>1 DEF LanesOK, FinishAction, renderVars
<1>6. TransitionsOK'
  <2>1. inTransition' \in BOOLEAN
    BY DEF FinishAction
  <2>2. CASE IsOpen(scope)
    BY <1>1, <2>1, <2>2 DEF FinishAction, TransitionsOK, transitionVars
  <2>3. CASE ~IsOpen(scope)
    BY <2>1, <2>3, RequestType DEF FinishAction, TransitionsOK, TypeInv
  <2>. QED  BY <2>2, <2>3
<1>7. ScopeOK'
  <2>1. actions' \in 0..MaxActions /\ actions' = actions + 1 /\ actions \in Nat
        /\ MaxActions \in Nat
    BY <1>1, BoundsAssumption DEF FinishAction, ScopeOK
  <2>2. CASE IsOpen(scope)
    <3>1. scope' = [scope EXCEPT !.pendingCount = @ + 1]
      BY <2>2 DEF FinishAction, EntangleAsyncAction
    <3>2. scope.pendingCount \in 1..actions
      BY <1>1, <2>2 DEF ScopeOK
    <3>3. scope'.pendingCount \in 1..actions' /\ scope' \in Scopes /\ scope'.lane = scope.lane
      BY <1>1, <2>1, <3>1, <3>2 DEF ScopeOK, Scopes
    <3>. QED  BY <2>1, <2>2, <3>3 DEF ScopeOK, IsOpen
  <2>3. CASE ~IsOpen(scope)
    <3>1. scope' = [lane |-> RequestedLane, pendingCount |-> 1, listeners |-> {}]
      BY <2>3 DEF FinishAction, EntangleAsyncAction
    <3>2. 1 \in 1..actions' /\ 1 \in 0..MaxActions
      BY <1>1, <2>1 DEF ScopeOK
    <3>3. scope' \in Scopes /\ scope'.lane # NoLane /\ scope'.pendingCount \in 1..actions'
      BY <1>2, <3>1, <3>2 DEF Scopes
    <3>. QED  BY <2>1, <3>3 DEF ScopeOK, IsOpen
  <2>. QED  BY <2>2, <2>3
<1>. QED  BY <1>3, <1>4, <1>5, <1>6, <1>7, TypeInvPartsNext

LEMMA SettleActionType ==
  ASSUME TypeInv, SettleAction
  PROVE  TypeInv'
<1>1. LogOK /\ QueuesOK /\ LanesOK /\ TransitionsOK /\ ScopeOK
  BY TypeInvParts
<1>. DEFINE pinged == IF IsOpen(scope') THEN {} ELSE scope.listeners
<1>2. LogOK'
  BY <1>1 DEF LogOK, SettleAction
<1>3. QueuesOK'
  BY <1>1 DEF QueuesOK, SettleAction, queueVars, fiberVars
<1>4. LanesOK'
  <2>1. root' = MarkRootPinged(root, UNION pinged)
    BY DEF SettleAction
  <2>2. root' \in RootRecord(UsedLanes)
    BY <1>1, <2>1, MarkRootPingedType DEF LanesOK
  <2>3. root'.entanglements = root.entanglements
    BY <1>1, <2>1 DEF LanesOK, RootRecord, MarkRootPinged
  <2>4. touched' \subseteq touched \cup UNION {l \in pinged : l \subseteq wipLanes}
    BY DEF SettleAction
  <2>5. touched' \subseteq UsedLanes
    BY <1>1, <2>4 DEF LanesOK
  <2>6. microtask' \in BOOLEAN
    BY DEF SettleAction
  <2>. QED  BY <1>1, <2>2, <2>3, <2>5, <2>6 DEF LanesOK, SettleAction
<1>5. TransitionsOK'
  BY <1>1 DEF TransitionsOK, SettleAction, transitionVars
<1>6. ScopeOK'
  <2>1. scope.pendingCount \in 1..actions /\ actions \in Nat
    BY <1>1 DEF ScopeOK, SettleAction
  <2>2. CASE scope.pendingCount = 1
    <3>1. scope' = NoScope
      BY <2>2 DEF SettleAction, PingEntangledActionScope
    <3>2. NoScope \in Scopes /\ ~IsOpen(NoScope)
      BY BoundsAssumption DEF Scopes, NoScope, IsOpen
    <3>. QED  BY <1>1, <3>1, <3>2 DEF ScopeOK, SettleAction
  <2>3. CASE scope.pendingCount # 1
    <3>1. scope' = [scope EXCEPT !.pendingCount = @ - 1]
      BY <2>3 DEF SettleAction, PingEntangledActionScope
    <3>2. scope.pendingCount - 1 \in 1..actions /\ scope.pendingCount - 1 \in 0..MaxActions
      BY <1>1, <2>1, <2>3, BoundsAssumption DEF ScopeOK
    <3>3. scope'.pendingCount = scope.pendingCount - 1 /\ scope' \in Scopes
          /\ scope'.lane = scope.lane
      BY <1>1, <3>1, <3>2 DEF ScopeOK, Scopes
    <3>. QED  BY <1>1, <3>2, <3>3 DEF ScopeOK, SettleAction, IsOpen
  <2>. QED  BY <2>2, <2>3
<1>. QED  BY <1>2, <1>3, <1>4, <1>5, <1>6, TypeInvPartsNext

-----------------------------------------------------------------------------
(* Then the renders.                                                       *)
LEMMA NextLanesInUse ==
  ASSUME TypeInv
  PROVE  NextLanes \in SUBSET UsedLanes
<1>1. LanesOK
  BY TypeInvParts
<1>. QED  BY <1>1, LanesInUse, NextLanesType DEF LanesOK, NextLanes

LEMMA PrepareFreshStackType ==
  ASSUME TypeInv, PrepareFreshStack
  PROVE  TypeInv'
<1>1. LogOK /\ QueuesOK /\ LanesOK /\ TransitionsOK /\ ScopeOK
  BY TypeInvParts
<1>2. LogOK'
  BY <1>1, LenProperties DEF LogOK, PrepareFreshStack
<1>3. QueuesOK'
  <2>1. concurrentQueues \in Seq(Update) /\ FinishQueueing(concurrentQueues)
    BY <1>1 DEF QueuesOK, PrepareFreshStack
  <2>2. /\ concurrentQueues' \in Seq(Update) /\ pending' \in [Hooks -> Seq(Update)]
        /\ current' \in Fiber /\ wip' \in Fiber
    BY <2>1, FinishQueueingType
  <2>. QED  BY <1>1, <2>2 DEF QueuesOK, PrepareFreshStack
<1>4. LanesOK'
  <2>1. NextLanes \in SUBSET UsedLanes
    BY NextLanesInUse
  <2>2. GetEntangledLanes(root, NextLanes) \in SUBSET UsedLanes
    BY <1>1, <2>1, GetEntangledLanesType DEF LanesOK
  <2>. QED  BY <1>1, <2>1, <2>2 DEF LanesOK, PrepareFreshStack
<1>5. TransitionsOK'
  BY <1>1 DEF TransitionsOK, PrepareFreshStack, transitionVars
<1>6. ScopeOK'
  BY <1>1 DEF ScopeOK, PrepareFreshStack, actionVars
<1>. QED  BY <1>2, <1>3, <1>4, <1>5, <1>6, TypeInvPartsNext

LEMMA BailOutType ==
  ASSUME TypeInv, BailOut
  PROVE  TypeInv'
<1>1. LogOK /\ QueuesOK /\ LanesOK /\ TransitionsOK /\ ScopeOK
  BY TypeInvParts
<1>2. LogOK'
  BY <1>1 DEF LogOK, BailOut, historyVars
<1>3. QueuesOK'
  BY <1>1 DEF QueuesOK, BailOut, queueVars
<1>4. LanesOK'
  BY <1>1 DEF LanesOK, BailOut
<1>5. TransitionsOK'
  BY <1>1 DEF TransitionsOK, BailOut, transitionVars
<1>6. ScopeOK'
  BY <1>1 DEF ScopeOK, BailOut, actionVars
<1>. QED  BY <1>2, <1>3, <1>4, <1>5, <1>6, TypeInvPartsNext

LEMMA MergedType ==
  ASSUME TypeInv, NEW h \in Hooks
  PROVE  /\ Merged(h) \in Seq(Update)
         /\ current.hooks[h] \in Hook /\ pending[h] \in Seq(Update)
<1>1. pending[h] \in Seq(Update) /\ current.hooks[h] \in Hook
  BY TypeInvParts DEF QueuesOK, Fiber
<1>2. current.hooks[h].baseQueue \in Seq(Update)
  BY <1>1 DEF Hook
<1>. QED  BY <1>1, <1>2, ConcatProperties DEF Merged

LEMMA NewHookType ==
  ASSUME NEW result \in Computed
  PROVE  NewHook(result) \in Hook
BY DEF NewHook, Computed, Hook

(* What a suspended render leaves behind.                                  *)
LEMMA SuspendType ==
  ASSUME TypeInv, NEW hooks \in SUBSET Hooks, NEW lanes \in SUBSET UsedLanes,
         Suspend(hooks, lanes), IsOpen(scope),
         UNCHANGED <<historyVars, inTransition, microtask, transitionVars, actions>>,
         queueLanes' \subseteq UsedTransitionLanes, lastRenderedState' \in State
  PROVE  TypeInv'
<1>1. LogOK /\ QueuesOK /\ LanesOK /\ TransitionsOK /\ ScopeOK
  BY TypeInvParts
<1>2. LogOK'
  BY <1>1 DEF LogOK, historyVars
<1>3. QueuesOK'
  <2>1. concurrentQueues' \in Seq(Update)
    BY EmptySeq DEF Suspend
  <2>2. LanesOf(concurrentQueues) \in SUBSET UsedLanes
    BY <1>1, LanesOfType DEF QueuesOK
  <2>. DEFINE left == [h \in Hooks |-> IF h \in hooks THEN <<>> ELSE pending[h]]
              marked == Mark(current, LanesOf(concurrentQueues))
              newHooks == [h \in Hooks |->
                 IF h \in hooks THEN [marked.hooks[h] EXCEPT !.baseQueue = Merged(h)]
                 ELSE marked.hooks[h]]
  <2>3. pending' \in [Hooks -> Seq(Update)]
    <3>1. left \in [Hooks -> Seq(Update)]
      BY MergedType, EmptySeq
    <3>2. pending' = Enqueued(left, concurrentQueues)
      BY DEF Suspend
    <3>. HIDE DEF left
    <3>. QED  BY <1>1, <3>1, <3>2, EnqueuedType DEF QueuesOK
  <2>4. current' \in Fiber
    <3>1. marked \in Fiber
      BY <1>1, <2>2, MarkType DEF QueuesOK
    <3>2. current' = [marked EXCEPT !.hooks = newHooks]
      BY DEF Suspend
    <3>. HIDE DEF marked
    <3>3. \A h \in Hooks : marked.hooks[h] \in Hook /\ Merged(h) \in Seq(Update)
      BY <3>1, MergedType DEF Fiber
    <3>4. newHooks \in [Hooks -> Hook]
      BY <3>3 DEF Hook
    <3>. HIDE DEF newHooks
    <3>. QED  BY <3>1, <3>2, <3>4 DEF Fiber
  <2>5. wip' \in Fiber
    BY <1>1, <2>2 DEF Suspend, QueuesOK, Fiber
  <2>. QED  BY <2>1, <2>3, <2>4, <2>5 DEF QueuesOK
<1>4. LanesOK'
  <2>1. root' = MarkRootSuspended(root, wipLanes \ touched)
    BY DEF Suspend
  <2>2. (wipLanes \ touched) \cap UsedLanes = wipLanes \ touched
    BY <1>1 DEF LanesOK
  <2>3. root' \in RootRecord(UsedLanes)
    BY <1>1, <2>1, <2>2, MarkRootSuspendedType DEF LanesOK
  <2>4. root'.entanglements = root.entanglements
    BY <1>1, <2>1 DEF LanesOK, RootRecord, MarkRootSuspended
  <2>. QED  BY <1>1, <2>3, <2>4 DEF LanesOK, Suspend
<1>5. TransitionsOK'
  BY <1>1 DEF TransitionsOK, transitionVars
<1>6. ScopeOK'
  <2>1. scope' = [scope EXCEPT !.listeners = @ \cup {wipLanes}]
    BY DEF Suspend, Listen
  <2>2. scope' \in Scopes /\ scope'.lane = scope.lane
        /\ scope'.pendingCount = scope.pendingCount
    BY <1>1, <2>1 DEF ScopeOK, Scopes, LanesOK
  <2>. QED  BY <1>1, <2>2 DEF ScopeOK, IsOpen
<1>. QED  BY <1>2, <1>3, <1>4, <1>5, <1>6, TypeInvPartsNext

LEMMA CompleteType ==
  ASSUME TypeInv, NEW state \in Computed, NEW optimistic \in Computed,
         NEW newProps \in BOOLEAN, Complete(state, optimistic, newProps),
         UNCHANGED <<historyVars, inTransition, microtask, transitionVars, actions>>,
         queueLanes' \subseteq UsedTransitionLanes, lastRenderedState' \in State
  PROVE  TypeInv'
<1>1. LogOK /\ QueuesOK /\ LanesOK /\ TransitionsOK /\ ScopeOK
  BY TypeInvParts
<1>2. LogOK'
  BY <1>1 DEF LogOK, historyVars
<1>3. QueuesOK'
  <2>. DEFINE hooks == [h \in Hooks |-> [current.hooks[h] EXCEPT !.baseQueue = Merged(h)]]
              result == [state |-> state, optimistic |-> optimistic]
  <2>1. hooks \in [Hooks -> Hook]
    BY MergedType DEF Hook
  <2>2. [h \in Hooks |-> NewHook(result[h])] \in [Hooks -> Hook]
    <3>1. \A h \in Hooks : result[h] \in Computed
      BY DEF Hooks
    <3>. HIDE DEF result
    <3>. QED  BY <3>1, NewHookType
  <2>3. current' \in Fiber
    <3>1. current'.lanes \subseteq current.lanes /\ current' = [lanes |-> current'.lanes, hooks |-> hooks]
      BY DEF Complete
    <3>. HIDE DEF hooks
    <3>. QED  BY <1>1, <2>1, <3>1 DEF QueuesOK, Fiber
  <2>4. wip' \in Fiber
    <3>1. wip' = [lanes |-> state.lanes \cup optimistic.lanes,
                  hooks |-> [h \in Hooks |-> NewHook(result[h])]]
      BY DEF Complete
    <3>2. state.lanes \cup optimistic.lanes \in SUBSET UsedLanes
      BY DEF Computed
    <3>. QED  BY <2>2, <3>1, <3>2 DEF Fiber
  <2>5. pending' \in [Hooks -> Seq(Update)] /\ concurrentQueues' = concurrentQueues
    BY EmptySeq DEF Complete
  <2>. QED  BY <1>1, <2>3, <2>4, <2>5 DEF QueuesOK
<1>4. LanesOK'
  BY <1>1 DEF LanesOK, Complete
<1>5. TransitionsOK'
  BY <1>1 DEF TransitionsOK, transitionVars
<1>6. ScopeOK'
  BY <1>1 DEF ScopeOK, Complete
<1>. QED  BY <1>2, <1>3, <1>4, <1>5, <1>6, TypeInvPartsNext

LEMMA RenderComponentType ==
  ASSUME TypeInv, NEW newProps \in BOOLEAN, RenderComponent(newProps)
  PROVE  TypeInv'
<1>. DEFINE state == ProcessQueue(Merged("state"), current.hooks["state"].baseState)
            optimistic == ProcessQueue(Merged("optimistic"), PassthroughBase(state.state))
<1>1. QueuesOK
  BY TypeInvParts
<1>2. state \in Computed
  <2>1. Merged("state") \in Seq(Update) /\ current.hooks["state"] \in Hook
    BY MergedType DEF Hooks
  <2>2. current.hooks["state"].baseState \in State
    BY <2>1 DEF Hook
  <2>. QED  BY <2>1, <2>2, ProcessQueueType
<1>3. optimistic \in Computed
  <2>1. Merged("optimistic") \in Seq(Update)
    BY MergedType DEF Hooks
  <2>2. PassthroughBase(state.state) \in State
    BY <1>2 DEF PassthroughBase, Computed
  <2>. QED  BY <2>1, <2>2, ProcessQueueType
<1>4. UNCHANGED <<historyVars, inTransition, microtask, transitionVars, actions>>
  BY DEF RenderComponent
<1>5. \/ /\ Suspends("state", state) /\ Suspend({"state"}, {})
         /\ UNCHANGED <<lastRenderedState, queueLanes>>
      \/ /\ Suspends("optimistic", optimistic)
         /\ Suspend(Hooks, {}) /\ FinishStateHook(state)
      \/ Complete(state, optimistic, newProps) /\ FinishStateHook(state)
  BY DEF RenderComponent
<1>. HIDE DEF state, optimistic
<1>6. FinishStateHook(state)
        => queueLanes' \subseteq UsedTransitionLanes /\ lastRenderedState' \in State
  <2>1. state.state \in State
    BY <1>2 DEF Computed
  <2>. QED  BY <1>1, <2>1 DEF FinishStateHook, QueuesOK
<1>7. CASE /\ Suspends("state", state) /\ Suspend({"state"}, {})
           /\ UNCHANGED <<lastRenderedState, queueLanes>>
  <2>1. IsOpen(scope) /\ {"state"} \in SUBSET Hooks /\ {} \in SUBSET UsedLanes
    BY <1>7 DEF Suspends, Hooks
  <2>. QED  BY <1>1, <1>4, <1>7, <2>1, SuspendType DEF QueuesOK
<1>8. CASE /\ Suspends("optimistic", optimistic)
           /\ Suspend(Hooks, {}) /\ FinishStateHook(state)
  <2>1. IsOpen(scope) /\ Hooks \in SUBSET Hooks /\ {} \in SUBSET UsedLanes
    BY <1>8 DEF Suspends
  <2>. QED  BY <1>4, <1>6, <1>8, <2>1, SuspendType
<1>9. CASE Complete(state, optimistic, newProps) /\ FinishStateHook(state)
  BY <1>2, <1>3, <1>4, <1>6, <1>9, CompleteType
<1>. QED  BY <1>5, <1>7, <1>8, <1>9

LEMMA SuspendInOtherType ==
  ASSUME TypeInv, SuspendInOther
  PROVE  TypeInv'
<1>1. QueuesOK
  BY TypeInvParts
<1>2. IsOpen(scope) /\ {} \in SUBSET Hooks /\ wip.lanes \in SUBSET UsedLanes
  BY <1>1 DEF SuspendInOther, OtherSuspends, QueuesOK, Fiber
<1>. QED  BY <1>1, <1>2, SuspendType DEF SuspendInOther, QueuesOK

LEMMA CommitType ==
  ASSUME TypeInv, Commit
  PROVE  TypeInv'
<1>1. LogOK /\ QueuesOK /\ LanesOK /\ TransitionsOK /\ ScopeOK
  BY TypeInvParts
<1>2. DOMAIN status = DOMAIN log /\ DOMAIN log = 1..Len(log) /\ Len(log) \in Nat
      /\ \A u \in DOMAIN status : status[u] \in {"queued", "shown", "dropped"}
  BY <1>1, LenProperties, ElementOfSeq DEF LogOK
<1>3. LogOK'
  <2>1. \A u \in DOMAIN status : StatusAfter(u) \in {"queued", "shown", "dropped"}
    BY <1>2 DEF StatusAfter
  <2>2. status' \in [1..Len(log) -> {"queued", "shown", "dropped"}]
    BY <1>2, <2>1 DEF Commit
  <2>3. status' \in Seq({"queued", "shown", "dropped"})
    BY <1>2, <2>2, SeqDef
  <2>4. Len(status') = Len(log)
    BY <1>2, <2>2, <2>3, LenProperties
  <2>. QED  BY <1>1, <2>3, <2>4 DEF LogOK, Commit
<1>4. LanesOf(concurrentQueues) \in SUBSET UsedLanes
  BY <1>1, LanesOfType DEF QueuesOK
<1>5. QueuesOK'
  <2>1. Enqueued(pending, concurrentQueues) \in [Hooks -> Seq(Update)]
    BY <1>1, EnqueuedType DEF QueuesOK
  <2>2. current' \in Fiber /\ wip' \in Fiber
    BY <1>1, <1>4, MarkType DEF Commit, QueuesOK
  <2>. QED  BY <1>1, <2>1, <2>2, EmptySeq DEF Commit, QueuesOK
<1>6. LanesOK'
  <2>1. current'.lanes \in SUBSET UsedLanes
    BY <1>5 DEF QueuesOK, Fiber
  <2>2. OtherLanes(status') \in SUBSET UsedLanes
    <3>1. \A u \in DOMAIN log : log[u] \in Update
      BY <1>1, <1>2, ElementOfSeq DEF LogOK
    <3>2. \A u \in DOMAIN log : log[u].hook = "other" => log[u].lane \in UsedLanes
      BY <1>1, <3>1 DEF LogOK, Update
    <3>. QED  BY <3>2 DEF OtherLanes
  <2>3. PICK lanes \in SUBSET UsedLanes : root' = MarkRootFinished(root, lanes)
    <3>1. root' = MarkRootFinished(root, current'.lanes \cup OtherLanes(status'))
      BY DEF Commit, OtherLanes
    <3>. QED  BY <2>1, <2>2, <3>1
  <2>4. root' \in RootRecord(UsedLanes)
    BY <1>1, <2>3, MarkRootFinishedType DEF LanesOK
  <2>5. root'.entanglements \in [UsedLanes -> SUBSET UsedTransitionLanes]
    BY <1>1, <2>3 DEF LanesOK, RootRecord, MarkRootFinished
  <2>. QED  BY <1>1, <2>4, <2>5 DEF LanesOK, Commit
<1>7. TransitionsOK'
  BY <1>1 DEF TransitionsOK, Commit
<1>8. ScopeOK'
  BY <1>1 DEF ScopeOK, Commit, actionVars
<1>. QED  BY <1>3, <1>5, <1>6, <1>7, <1>8, TypeInvPartsNext

LEMMA TypeStep == TypeInv /\ [Next]_vars => TypeInv'
<1>. SUFFICES ASSUME TypeInv, [Next]_vars PROVE TypeInv'
  OBVIOUS
<1>1. ASSUME NEW kind \in Kinds, NEW lane \in EventLanes, DispatchSetState(kind, lane)
      PROVE  TypeInv'
  BY <1>1, DispatchSetStateType
<1>2. ASSUME NEW lane \in EventLanes, UpdateOther(lane) PROVE TypeInv'
  BY <1>2, UpdateOtherType
<1>3. CASE DispatchOptimisticSetState
  BY <1>3, DispatchOptimisticSetStateType
<1>4. CASE StartTransition \/ FinishTransition \/ ProcessRootSchedule
  BY <1>4, TransitionStepsType
<1>5. CASE FinishAction
  BY <1>5, FinishActionType
<1>6. CASE SettleAction
  BY <1>6, SettleActionType
<1>7. CASE Render
  <2>1. CASE PrepareFreshStack
    BY <2>1, PrepareFreshStackType
  <2>2. CASE BailOut
    BY <2>2, BailOutType
  <2>3. CASE SuspendInOther
    BY <2>3, SuspendInOtherType
  <2>4. CASE Commit
    BY <2>4, CommitType
  <2>5. CASE \E newProps \in BOOLEAN : RenderComponent(newProps)
    BY <2>5, RenderComponentType
  <2>. QED  BY <1>7, <2>1, <2>2, <2>3, <2>4, <2>5 DEF Render
<1>8. CASE UNCHANGED vars
  <2>1. LogOK /\ QueuesOK /\ LanesOK /\ TransitionsOK /\ ScopeOK
    BY TypeInvParts
  <2>2. LogOK' /\ QueuesOK' /\ LanesOK' /\ TransitionsOK' /\ ScopeOK'
    BY <1>8, <2>1 DEF vars, historyVars, queueVars, fiberVars, renderVars,
       transitionVars, actionVars, LogOK, QueuesOK, LanesOK, TransitionsOK, ScopeOK
  <2>. QED  BY <2>2, TypeInvPartsNext
<1>. QED  BY <1>1, <1>2, <1>3, <1>4, <1>5, <1>6, <1>7, <1>8 DEF Next

(* The queues, the fibers, the lanes and the scope have their types,       *)
(* whatever the lanes, the kinds of updates and how many there are.        *)
THEOREM HookQueueTypeOK == Spec => []TypeOK
<1>1. TypeInv => TypeOK
  BY DEF TypeInv
<1>. QED  BY <1>1, TypeInit, TypeStep, PTL DEF Spec

-----------------------------------------------------------------------------
(* The updates of an async action wait for its end.                        *)

(* The updates of the state have no lane once they are taken for shown;    *)
(* the optimistic ones have SyncLane and are reverted with a transition.   *)
UpdatesByHook ==
  \A u \in DOMAIN log :
    /\ log[u].id = u
    /\ log[u].hook = "state" =>
         /\ log[u].revertLane = NoLane /\ status[u] \in {"queued", "shown"}
         /\ log[u].lane = NoLane => status[u] = "shown"
    /\ log[u].hook = "optimistic" =>
         log[u].lane = SyncLane /\ log[u].revertLane # NoLane

(* What the queues, and with them the fibers, have of a hook's updates.    *)
QueueEntries(h) == ToSet(pending[h]) \cup {e \in ToSet(concurrentQueues) : e.hook = h}
CurrentEntries(h) == ToSet(current.hooks[h].baseQueue) \cup QueueEntries(h)
WipEntries(h) == ToSet(wip.hooks[h].baseQueue) \cup QueueEntries(h)

(* Once an optimistic update is shown, its entry has no lane.              *)
IsEntry(e, update, st) ==
  /\ e.id = update.id /\ e.revertLane = update.revertLane
  /\ e.lane = IF st = "queued" THEN update.lane ELSE NoLane

(* There is an entry for an update that is still to be processed: one of   *)
(* the state that is queued, an optimistic one until it is dropped.        *)
IsHeld(entries, update, st) ==
  \/ st = "dropped" \/ update.hook = "other"
  \/ st = "shown" /\ update.hook = "state"
  \/ \E e \in entries : IsEntry(e, update, st)

HoldInv ==
  /\ \A u \in DOMAIN log : IsHeld(CurrentEntries(log[u].hook), log[u], status[u])
  /\ pc = "begun" => \A u \in DOMAIN log :
       IsHeld(WipEntries(log[u].hook), log[u], StatusAfter(u))
  /\ pc = "skipped" => wip.hooks = current.hooks

(* What was queued since the render started is in concurrentQueues, what   *)
(* was queued before is not.                                               *)
OrderInv ==
  /\ \A h \in Hooks : \A e \in CurrentEntries(h) : e.id <= Len(log)
  /\ pc # "idle" =>
       /\ \A h \in Hooks :
            \A e \in ToSet(current.hooks[h].baseQueue) \cup ToSet(pending[h]) : e.id <= seen
       /\ \A e \in ToSet(concurrentQueues) : e.id > seen
  /\ pc = "begun" =>
       \A h \in Hooks : \A e \in ToSet(wip.hooks[h].baseQueue) : e.id <= seen

(* A render is for the lanes of events or for transitions.  The former do  *)
(* not suspend, and nothing comes in between their steps.                  *)
RendersEvents == pc # "idle" /\ wipLanes \subseteq SyncUpdateLanes

LanesInv ==
  /\ root.suspendedLanes \subseteq TransitionLanes
  /\ \A l \in UsedLanes \ TransitionLanes : root.entanglements[l] = {}
  /\ pc # "idle" => wipLanes # {}
  /\ pc # "idle" =>
       \/ wipLanes \cup renderLanes \subseteq TransitionLanes
       \/ (wipLanes \subseteq SyncUpdateLanes /\ renderLanes = wipLanes)
  /\ RendersEvents =>
       /\ NextLanes = wipLanes /\ ~inTransition /\ ~microtask
       /\ seen = Len(log) /\ concurrentQueues = <<>>

(* An optimistic update that is queued is in the next render.              *)
SyncInv ==
  \A u \in DOMAIN log : log[u].hook = "optimistic" /\ status[u] = "queued" =>
    /\ SyncLane \in root.pendingLanes
    /\ SyncLane \in current.lanes \/ (pc = "begun" /\ SyncLane \in renderLanes)
    /\ pc # "idle" /\ u <= seen => SyncLane \in renderLanes /\ pc # "skipped"

(* Updates made in a scope have its lane.                                  *)
ScopeInv ==
  /\ ~IsOpen(scope) /\ ~inTransition => inScope = {}
  /\ ~IsOpen(scope) /\ pc # "idle" => \A u \in inScope : u > seen
  /\ \A u \in inScope : log[u].hook = "state" /\ log[u].lane # NoLane =>
       log[u].lane = IF IsOpen(scope) THEN scope.lane ELSE currentEventTransitionLane
  /\ \A u \in inScope : log[u].hook \in Hooks

(* A render that shows or drops an update of the scope changes no value.   *)
ReadInv ==
  pc = "begun" /\ IsOpen(scope) =>
    \A u \in inScope :
      /\ u <= seen /\ status[u] # "dropped" /\ scope.lane \in renderLanes
      /\ \/ log[u].hook = "state" /\ status[u] = "queued"
         \/ log[u].hook = "optimistic" /\ log[u].revertLane = scope.lane
      => wip.hooks[log[u].hook].memoizedState = Value(log[u].hook)

WaitInv ==
  /\ UpdatesByHook /\ HoldInv /\ OrderInv /\ LanesInv /\ SyncInv /\ ScopeInv
  /\ ReadInv

-----------------------------------------------------------------------------
(* What the operators do with the entries of a queue.                      *)
LEMMA AppendToSet ==
  ASSUME NEW S, NEW s \in Seq(S), NEW e
  PROVE  ToSet(Append(s, e)) = ToSet(s) \cup {e}
<1>1. PICK n \in Nat : n = Len(s)
  BY LenProperties
<1>2. DOMAIN s = 1..n
  BY <1>1, LenProperties
<1>3. /\ DOMAIN Append(s, e) = 1..(n + 1)
      /\ \A i \in 1..n : Append(s, e)[i] = s[i]
      /\ Append(s, e)[n + 1] = e
  BY <1>1, <1>2
<1>4. \A i \in 1..(n + 1) : i = n + 1 \/ i \in 1..n
  BY <1>1
<1>5. n + 1 \in 1..(n + 1) /\ \A i \in 1..n : i \in 1..(n + 1)
  BY <1>1
<1>. QED  BY <1>2, <1>3, <1>4, <1>5 DEF ToSet

LEMMA ConcatToSet ==
  ASSUME NEW S, NEW s \in Seq(S), NEW t \in Seq(S)
  PROVE  ToSet(s \o t) = ToSet(s) \cup ToSet(t)
<1>1. PICK m \in Nat, n \in Nat : m = Len(s) /\ n = Len(t)
  BY LenProperties
<1>2. DOMAIN s = 1..m /\ DOMAIN t = 1..n
  BY <1>1, LenProperties
<1>3. /\ DOMAIN (s \o t) = 1..(m + n)
      /\ \A i \in 1..(m + n) : (s \o t)[i] = IF i <= m THEN s[i] ELSE t[i - m]
  BY <1>1, <1>2, ConcatProperties, LenProperties
<1>4. ASSUME NEW x \in ToSet(s \o t) PROVE x \in ToSet(s) \cup ToSet(t)
  <2>1. PICK i \in 1..(m + n) : x = (s \o t)[i]
    BY <1>3 DEF ToSet
  <2>2. CASE i <= m
    BY <1>2, <1>3, <2>1, <2>2 DEF ToSet
  <2>3. CASE ~(i <= m)
    <3>1. i - m \in 1..n
      BY <2>3
    <3>. QED  BY <1>2, <1>3, <2>1, <2>3, <3>1 DEF ToSet
  <2>. QED  BY <2>2, <2>3
<1>5. ASSUME NEW x \in ToSet(s) PROVE x \in ToSet(s \o t)
  <2>1. PICK i \in 1..m : x = s[i]
    BY <1>2 DEF ToSet
  <2>2. i \in 1..(m + n) /\ i <= m
    OBVIOUS
  <2>. QED  BY <1>3, <2>1, <2>2 DEF ToSet
<1>6. ASSUME NEW x \in ToSet(t) PROVE x \in ToSet(s \o t)
  <2>1. PICK i \in 1..n : x = t[i]
    BY <1>2 DEF ToSet
  <2>2. m + i \in 1..(m + n) /\ ~(m + i <= m) /\ (m + i) - m = i
    OBVIOUS
  <2>3. (s \o t)[m + i] = x
    BY <1>3, <2>1, <2>2
  <2>. QED  BY <1>3, <2>2, <2>3 DEF ToSet
<1>. QED  BY <1>4, <1>5, <1>6

LEMMA EmptyToSet == ToSet(<<>>) = {}
BY DEF ToSet

LEMMA UpdateInLog ==
  ASSUME TypeInv, NEW u \in DOMAIN log
  PROVE  /\ log[u] \in Update /\ log[u].hook \in Hooks \cup {"other"}
         /\ status[u] \in {"queued", "shown", "dropped"}
         /\ u \in Nat /\ seen \in Nat
<1>1. /\ log \in Seq(Update) /\ status \in Seq({"queued", "shown", "dropped"})
      /\ Len(status) = Len(log) /\ seen \in 0..Len(log)
  BY TypeInvParts DEF LogOK
<1>2. /\ Len(log) \in Nat /\ DOMAIN log = 1..Len(log) /\ DOMAIN status = 1..Len(log)
  BY <1>1, LenProperties
<1>3. log[u] \in Update /\ status[u] \in {"queued", "shown", "dropped"}
  BY <1>1, <1>2, ElementOfSeq
<1>4. u \in Nat /\ seen \in Nat
  BY <1>1, <1>2
<1>. QED  BY <1>3, <1>4 DEF Update

LEMMA HeldEntry ==
  ASSUME NEW entries, NEW e \in entries, NEW update, NEW st, IsEntry(e, update, st)
  PROVE  IsHeld(entries, update, st)
BY DEF IsHeld

LEMMA EnqueuedEntries ==
  ASSUME NEW queues \in [Hooks -> Seq(Update)], NEW updates \in Seq(Update), NEW h \in Hooks
  PROVE  ToSet(Enqueued(queues, updates)[h])
           = ToSet(queues[h]) \cup {e \in ToSet(updates) : e.hook = h}
<1>1. PICK after \in [0..Len(updates) -> [Hooks -> Seq(Update)]] :
        /\ after[0] = queues
        /\ \A n \in 1..Len(updates) : after[n] = Enqueue(after[n - 1], updates[n])
        /\ Enqueued(queues, updates) = after[Len(updates)]
  BY EnqueuedSteps
<1>2. PICK k \in Nat : k = Len(updates) /\ DOMAIN updates = 1..k
  BY LenProperties
<1>. DEFINE First(n) == {updates[i] : i \in 1..n}
            Of(n) == {e \in First(n) : e.hook = h}
            S == {n \in 0..k : ToSet(after[n][h]) = ToSet(queues[h]) \cup Of(n)}
<1>3. 0 \in S
  <2>1. First(0) = {}
    OBVIOUS
  <2>2. Of(0) = {}
    BY <2>1
  <2>. QED  BY <1>1, <1>2, <2>2
<1>4. ASSUME NEW n \in 1..k, n - 1 \in S PROVE n \in S
  <2>1. PICK q \in [Hooks -> Seq(Update)] : q = after[n - 1]
    <3>1. n - 1 \in 0..Len(updates)
      BY <1>2
    <3>2. after[n - 1] \in [Hooks -> Seq(Update)]
      BY <1>1, <3>1, Zenon
    <3>. QED  BY <3>2, Zenon
  <2>2. after[n] = Enqueue(q, updates[n])
    BY <1>1, <1>2, <2>1
  <2>3. First(n) = First(n - 1) \cup {updates[n]}
    <3>1. \A i \in 1..n : i = n \/ i \in 1..(n - 1)
      OBVIOUS
    <3>2. n \in 1..n /\ \A i \in 1..(n - 1) : i \in 1..n
      OBVIOUS
    <3>. QED  BY <3>1, <3>2
  <2>. HIDE DEF First
  <2>4. ToSet(q[h]) = ToSet(queues[h]) \cup Of(n - 1)
    BY <1>4, <2>1
  <2>5. CASE updates[n].hook = h
    <3>1. after[n][h] = Append(q[h], updates[n])
      BY <2>2, <2>5 DEF Enqueue
    <3>2. ToSet(after[n][h]) = ToSet(q[h]) \cup {updates[n]}
      BY <3>1, AppendToSet
    <3>3. Of(n) = Of(n - 1) \cup {updates[n]}
      BY <2>3, <2>5
    <3>. HIDE DEF Of
    <3>. QED  BY <2>4, <3>2, <3>3
  <2>6. CASE updates[n].hook # h
    <3>1. after[n][h] = q[h]
      BY <2>2, <2>6 DEF Enqueue
    <3>3. Of(n) = Of(n - 1)
      BY <2>3, <2>6
    <3>. HIDE DEF Of
    <3>. QED  BY <2>4, <3>1, <3>3
  <2>. QED  BY <2>5, <2>6
<1>5. k \in S
  <2>. HIDE DEF S
  <2>1. 0..k \subseteq S
    BY <1>2, <1>3, <1>4, InductionUpTo
  <2>. QED  BY <1>2, <2>1
<1>6. First(k) = ToSet(updates)
  BY <1>2 DEF ToSet
<1>. HIDE DEF First
<1>. QED  BY <1>1, <1>2, <1>5, <1>6

LEMMA ProcessEntries ==
  ASSUME NEW r \in Computed, NEW u \in Update, NoLane \notin renderLanes
  PROVE  LET p == Process(r, u)
             Rendered == u.lane \in renderLanes \cup {NoLane}
         IN  /\ ToSet(r.baseQueue) \subseteq ToSet(p.baseQueue)
             /\ r.didReadFromAction => p.didReadFromAction
             /\ ~Rendered => u \in ToSet(p.baseQueue)
             /\ Rendered /\ u.revertLane \notin renderLanes \cup {NoLane}
                  => [u EXCEPT !.lane = NoLane] \in ToSet(p.baseQueue)
             /\ Rendered /\ u.revertLane = NoLane /\ u.lane = scope.lane
                  => p.didReadFromAction
             /\ Rendered /\ u.revertLane \in renderLanes /\ u.revertLane = scope.lane
                  => p.didReadFromAction
             /\ \A e \in ToSet(p.baseQueue) : e \in ToSet(r.baseQueue) \/ e.id = u.id
             /\ p.didReadFromAction
                  => r.didReadFromAction \/ scope.lane \in renderLanes \cup {NoLane}
<1>. DEFINE applied == [u EXCEPT !.lane = NoLane]
            Reads(lane) ==
              [r EXCEPT !.didReadFromAction = @ \/ lane = scope.lane]
            Rendered == u.lane \in renderLanes \cup {NoLane}
<1>1. applied.id = u.id /\ r.baseQueue \in Seq(Update)
  BY DEF Update, Computed
<1>2. \A lane : /\ Reads(lane).baseQueue = r.baseQueue
                /\ Reads(lane).didReadFromAction = (r.didReadFromAction \/ lane = scope.lane)
                /\ Reads(lane) \in Computed
  BY DEF Computed
<1>3. \A e : ToSet(Append(r.baseQueue, e)) = ToSet(r.baseQueue) \cup {e}
  BY <1>1, AppendToSet
<1>4. CASE ~Rendered
  <2>1. Process(r, u) = Keep(r, u, u.lane)
    BY <1>4 DEF Process
  <2>2. /\ Process(r, u).baseQueue = Append(r.baseQueue, u)
        /\ Process(r, u).didReadFromAction = r.didReadFromAction
    BY <2>1 DEF Keep, Computed
  <2>. HIDE DEF Rendered
  <2>. QED  BY <1>3, <1>4, <2>2 DEF Rendered
<1>5. CASE Rendered /\ u.revertLane = NoLane
  <2>. DEFINE read == [Reads(u.lane) EXCEPT !.baseQueue =
                         IF @ = <<>> THEN @ ELSE Append(@, applied)]
  <2>1. Process(r, u) = Apply(read, u)
    BY <1>5 DEF Process
  <2>2. /\ read.baseQueue = IF r.baseQueue = <<>> THEN r.baseQueue
                            ELSE Append(r.baseQueue, applied)
        /\ read.didReadFromAction = (r.didReadFromAction \/ u.lane = scope.lane)
        /\ DOMAIN read = DOMAIN r
    BY <1>2 DEF Computed
  <2>. HIDE DEF read
  <2>3. /\ Process(r, u).baseQueue = read.baseQueue
        /\ Process(r, u).didReadFromAction = read.didReadFromAction
    BY <2>1, <2>2 DEF Apply, Computed
  <2>4. ToSet(Process(r, u).baseQueue) \in {ToSet(r.baseQueue), ToSet(r.baseQueue) \cup {applied}}
    BY <1>3, <2>2, <2>3
  <2>. HIDE DEF applied
  <2>. QED  BY <1>1, <1>5, <2>2, <2>3, <2>4
<1>6. CASE Rendered /\ u.revertLane # NoLane /\ u.revertLane \in renderLanes
  <2>1. Process(r, u) = Reads(u.revertLane)
    BY <1>6 DEF Process
  <2>2. /\ Process(r, u).baseQueue = r.baseQueue
        /\ Process(r, u).didReadFromAction
             = (r.didReadFromAction \/ u.revertLane = scope.lane)
    BY <1>2, <2>1
  <2>. QED  BY <1>6, <2>2
<1>7. CASE Rendered /\ u.revertLane # NoLane /\ u.revertLane \notin renderLanes
  <2>1. Process(r, u) = Apply(Keep(r, applied, u.revertLane), u)
    BY <1>7 DEF Process
  <2>2. /\ Process(r, u).baseQueue = Append(r.baseQueue, applied)
        /\ Process(r, u).didReadFromAction = r.didReadFromAction
    BY <2>1 DEF Keep, Apply, Computed
  <2>3. ToSet(Process(r, u).baseQueue) = ToSet(r.baseQueue) \cup {applied}
    BY <1>3, <2>2
  <2>. QED  BY <1>1, <1>7, <2>2, <2>3
<1>. QED  BY <1>4, <1>5, <1>6, <1>7

(* An update that waits is kept, an optimistic one that is applied is kept *)
(* without its lane, what is read of an action is remembered.              *)
LEMMA ProcessQueueEntries ==
  ASSUME NEW updates \in Seq(Update), NEW base \in State, NoLane \notin renderLanes
  PROVE  LET p == ProcessQueue(updates, base)
         IN  /\ \A e \in ToSet(updates) :
                  LET Rendered == e.lane \in renderLanes \cup {NoLane}
                  IN  /\ ~Rendered => e \in ToSet(p.baseQueue)
                      /\ Rendered /\ e.revertLane \notin renderLanes \cup {NoLane}
                           => [e EXCEPT !.lane = NoLane] \in ToSet(p.baseQueue)
                      /\ Rendered /\ e.revertLane = NoLane /\ e.lane = scope.lane
                           => p.didReadFromAction
                      /\ Rendered /\ e.revertLane \in renderLanes
                           /\ e.revertLane = scope.lane
                           => p.didReadFromAction
             /\ \A e \in ToSet(p.baseQueue) : \E m \in ToSet(updates) : m.id = e.id
             /\ p.didReadFromAction => scope.lane \in renderLanes \cup {NoLane}
<1>1. PICK after \in [0..Len(updates) -> Computed] :
        /\ after[0] = Start(base)
        /\ \A n \in 1..Len(updates) : after[n] = Process(after[n - 1], updates[n])
        /\ ProcessQueue(updates, base) = after[Len(updates)]
  BY ProcessQueueSteps
<1>2. PICK k \in Nat : k = Len(updates) /\ DOMAIN updates = 1..k
  BY LenProperties
<1>3. \A n \in 1..k : updates[n] \in Update /\ n - 1 \in 0..k /\ n \in 0..k
  BY <1>2, ElementOfSeq
<1>. DEFINE Queue(n) == ToSet(after[n].baseQueue)
            Kept(e, n) == LET Rendered == e.lane \in renderLanes \cup {NoLane}
              IN  /\ ~Rendered => e \in Queue(n)
                  /\ Rendered /\ e.revertLane \notin renderLanes \cup {NoLane}
                       => [e EXCEPT !.lane = NoLane] \in Queue(n)
                  /\ Rendered /\ e.revertLane = NoLane /\ e.lane = scope.lane
                       => after[n].didReadFromAction
                  /\ Rendered /\ e.revertLane \in renderLanes
                       /\ e.revertLane = scope.lane
                       => after[n].didReadFromAction
            Known(n) == \A e \in Queue(n) : \E i \in 1..n : updates[i].id = e.id
            Read(n) == after[n].didReadFromAction => scope.lane \in renderLanes \cup {NoLane}
<1>4. ASSUME NEW n \in 1..k
      PROVE  /\ Queue(n - 1) \subseteq Queue(n) /\ Kept(updates[n], n)
             /\ after[n - 1].didReadFromAction => after[n].didReadFromAction
             /\ \A e \in Queue(n) : e \in Queue(n - 1) \/ e.id = updates[n].id
             /\ Read(n - 1) => Read(n)
  <2>1. PICK r \in Computed : r = after[n - 1]
    BY <1>1, <1>2, <1>3
  <2>2. PICK p : p = Process(r, updates[n])
    OBVIOUS
  <2>3. after[n] = p
    BY <1>1, <1>2, <2>1, <2>2
  <2>4. PICK u \in Update : u = updates[n]
    BY <1>3
  <2>5. p = Process(r, u)
    BY <2>2, <2>4
  <2>6. LET Rendered == u.lane \in renderLanes \cup {NoLane}
        IN  /\ ToSet(r.baseQueue) \subseteq ToSet(p.baseQueue)
            /\ r.didReadFromAction => p.didReadFromAction
            /\ ~Rendered => u \in ToSet(p.baseQueue)
            /\ Rendered /\ u.revertLane \notin renderLanes \cup {NoLane}
                 => [u EXCEPT !.lane = NoLane] \in ToSet(p.baseQueue)
            /\ Rendered /\ u.revertLane = NoLane /\ u.lane = scope.lane
                 => p.didReadFromAction
            /\ Rendered /\ u.revertLane \in renderLanes /\ u.revertLane = scope.lane
                 => p.didReadFromAction
            /\ \A e \in ToSet(p.baseQueue) : e \in ToSet(r.baseQueue) \/ e.id = u.id
            /\ p.didReadFromAction
                 => r.didReadFromAction \/ scope.lane \in renderLanes \cup {NoLane}
    BY <2>5, ProcessEntries
  <2>7. Queue(n) = ToSet(p.baseQueue) /\ Queue(n - 1) = ToSet(r.baseQueue)
    BY <2>1, <2>3
  <2>8. Kept(u, n)
    BY <2>3, <2>6, <2>7
  <2>9. Read(n - 1) => Read(n)
    BY <2>1, <2>3, <2>6
  <2>. QED  BY <2>1, <2>3, <2>4, <2>6, <2>7, <2>8, <2>9
<1>. HIDE DEF Kept, Queue, Read
<1>5. ASSUME NEW i \in 1..k PROVE Kept(updates[i], k)
  <2>. DEFINE S == {n \in 0..k : n >= i => Kept(updates[i], n)}
  <2>1. 0 \in S
    OBVIOUS
  <2>2. ASSUME NEW n \in 1..k, n - 1 \in S PROVE n \in S
    <3>1. CASE n = i
      BY <1>4, <3>1
    <3>2. CASE n < i
      BY <3>2
    <3>3. CASE n > i
      <4>1. Kept(updates[i], n - 1)
        BY <2>2, <3>3
      <4>2. /\ Queue(n - 1) \subseteq Queue(n)
            /\ after[n - 1].didReadFromAction => after[n].didReadFromAction
        BY <1>4
      <4>3. Kept(updates[i], n)
        BY <4>1, <4>2 DEF Kept
      <4>. QED  BY <4>3
    <3>. QED  BY <3>1, <3>2, <3>3
  <2>. HIDE DEF S
  <2>3. 0..k \subseteq S
    BY <2>1, <2>2, InductionUpTo
  <2>4. k \in S
    BY <2>3
  <2>. QED  BY <2>4 DEF S
<1>6. Known(k) /\ Read(k)
  <2>. DEFINE S == {n \in 0..k : Known(n) /\ Read(n)}
  <2>1. 0 \in S
    <3>1. after[0].baseQueue = <<>> /\ after[0].didReadFromAction = FALSE
      BY <1>1 DEF Start
    <3>. QED  BY <3>1, EmptyToSet DEF Queue, Read
  <2>2. ASSUME NEW n \in 1..k, n - 1 \in S PROVE n \in S
    <3>1. Known(n - 1) /\ Read(n - 1)
      BY <2>2
    <3>2. ASSUME NEW e \in Queue(n) PROVE \E i \in 1..n : updates[i].id = e.id
      <4>1. CASE e \in Queue(n - 1)
        <5>1. PICK i \in 1..(n - 1) : updates[i].id = e.id
          BY <3>1, <4>1
        <5>2. i \in 1..n
          OBVIOUS
        <5>. QED  BY <5>1, <5>2
      <4>2. CASE e.id = updates[n].id
        <5>1. n \in 1..n
          OBVIOUS
        <5>. QED  BY <4>2, <5>1
      <4>. QED  BY <1>4, <4>1, <4>2
    <3>. QED  BY <1>4, <3>1, <3>2
  <2>. HIDE DEF S
  <2>3. 0..k \subseteq S
    BY <2>1, <2>2, InductionUpTo
  <2>4. k \in S
    BY <2>3
  <2>. QED  BY <2>4 DEF S
<1>7. ToSet(updates) = {updates[i] : i \in 1..k}
  BY <1>2 DEF ToSet
<1>8. \A e \in ToSet(updates) : Kept(e, k)
  BY <1>5, <1>7
<1>9. \A e \in Queue(k) : \E m \in ToSet(updates) : m.id = e.id
  BY <1>6, <1>7
<1>10. ProcessQueue(updates, base) = after[k]
  BY <1>1, <1>2
<1>. QED  BY <1>6, <1>8, <1>9, <1>10 DEF Kept, Queue, Read

-----------------------------------------------------------------------------
(* Events: the queues grow by an update, at most, and the render is left   *)
(* as it is.                                                               *)
EventStep ==
  /\ UNCHANGED <<seen, wipLanes, renderLanes, pc>> /\ ~RendersEvents
  /\ current'.hooks = current.hooks /\ wip'.hooks = wip.hooks
  /\ current.lanes \subseteq current'.lanes
  /\ root.pendingLanes \subseteq root'.pendingLanes
  /\ root'.suspendedLanes \subseteq root.suspendedLanes
  /\ \A l \in UsedLanes \ TransitionLanes : root'.entanglements[l] = root.entanglements[l]
  /\ inScope' \subseteq inScope \cup {Len(log) + 1}
  /\ IsOpen(scope) /\ IsOpen(scope') => scope'.lane = scope.lane

LogsNothing == UNCHANGED <<log, status, concurrentQueues, pending>>

Logs(u, st) ==
  /\ u.id = Len(log) + 1 /\ log' = Append(log, u) /\ status' = Append(status, st)
  /\ u.hook = "state" =>
       u.revertLane = NoLane /\ (u.lane = NoLane => st = "shown")
  /\ u.hook = "optimistic" =>
       /\ st = "queued" /\ u.lane = SyncLane /\ u.revertLane # NoLane
       /\ SyncLane \in root'.pendingLanes /\ SyncLane \in current'.lanes
  /\ \/ u.hook = "other" /\ UNCHANGED <<concurrentQueues, pending>>
     \/ /\ u.hook \in Hooks
        /\ concurrentQueues' = Append(concurrentQueues, u) /\ UNCHANGED pending
     \/ /\ u.hook \in Hooks /\ pc = "idle" /\ concurrentQueues' = <<>>
        /\ pending' = Enqueued(pending, Append(concurrentQueues, u))

Event ==
  /\ EventStep
  /\ LogsNothing \/ \E u \in Update, st \in {"queued", "shown"} : Logs(u, st)

LEMMA LoggedUpdates ==
  ASSUME TypeInv, Event
  PROVE  /\ DOMAIN log = 1..Len(log) /\ DOMAIN status = DOMAIN log
         /\ Len(log) \in Nat /\ Len(log') \in Nat /\ Len(log') >= Len(log)
         /\ DOMAIN log' = 1..Len(log') /\ DOMAIN status' = DOMAIN log'
         /\ \A i \in DOMAIN log : i \in DOMAIN log' /\ log'[i] = log[i] /\ status'[i] = status[i]
         /\ \A u \in Update, st \in {"queued", "shown"} : Logs(u, st) =>
              /\ Len(log) + 1 \in DOMAIN log' /\ Len(log') = Len(log) + 1
              /\ log'[Len(log) + 1] = u /\ status'[Len(log) + 1] = st
              /\ \A i \in DOMAIN log' : i \in DOMAIN log \/ i = Len(log) + 1
         /\ LogsNothing => log' = log /\ status' = status
<1>1. PICK n \in Nat : n = Len(log) /\ n = Len(status)
      /\ DOMAIN log = 1..n /\ DOMAIN status = 1..n
      /\ log \in Seq(Update) /\ status \in Seq({"queued", "shown", "dropped"})
  BY TypeInvParts, LenProperties DEF LogOK
<1>2. ASSUME NEW u \in Update, NEW st \in {"queued", "shown"}, Logs(u, st)
      PROVE  /\ Len(log') = n + 1 /\ DOMAIN log' = 1..(n + 1) /\ DOMAIN status' = 1..(n + 1)
             /\ log'[n + 1] = u /\ status'[n + 1] = st
             /\ \A i \in 1..n : log'[i] = log[i] /\ status'[i] = status[i]
  <2>1. log' = Append(log, u) /\ status' = Append(status, st)
    BY <1>2 DEF Logs
  <2>. QED  BY <1>1, <2>1, AppendProperties, LenProperties
<1>3. /\ n + 1 \in 1..(n + 1) /\ \A i \in 1..n : i \in 1..(n + 1)
      /\ \A i \in 1..(n + 1) : i \in 1..n \/ i = n + 1
      /\ n + 1 >= n /\ n >= n
  OBVIOUS
<1>4. CASE LogsNothing
  <2>1. log' = log /\ status' = status
    BY <1>4 DEF LogsNothing
  <2>2. \A u \in Update, st \in {"queued", "shown"} : ~Logs(u, st)
    <3>1. ASSUME NEW u \in Update, NEW st \in {"queued", "shown"}, Logs(u, st) PROVE FALSE
      <4>1. Len(log') = n + 1 /\ Len(log') = n
        BY <1>1, <1>2, <2>1, <3>1
      <4>. QED  BY <4>1
    <3>. QED  BY <3>1
  <2>. QED  BY <1>1, <1>3, <2>1, <2>2
<1>5. CASE \E u \in Update, st \in {"queued", "shown"} : Logs(u, st)
  <2>1. ~LogsNothing
    <3>1. PICK u \in Update, st \in {"queued", "shown"} : Logs(u, st)
      BY <1>5
    <3>2. Len(log') = n + 1
      BY <1>2, <3>1
    <3>. QED  BY <1>1, <3>2 DEF LogsNothing
  <2>2. PICK m \in Nat : m = n + 1
    OBVIOUS
  <2>3. /\ Len(log') = m /\ DOMAIN log' = 1..m /\ DOMAIN status' = 1..m
        /\ \A i \in 1..n : log'[i] = log[i] /\ status'[i] = status[i]
    BY <1>2, <1>5, <2>2
  <2>. QED  BY <1>1, <1>2, <1>3, <2>1, <2>2, <2>3
<1>. QED  BY <1>4, <1>5 DEF Event

(* The entries of a hook: as before, and the new update's.                 *)
LEMMA LoggedEntries ==
  ASSUME TypeInv, EventStep, NEW h \in Hooks
  PROVE  /\ LogsNothing =>
              /\ QueueEntries(h)' = QueueEntries(h) /\ CurrentEntries(h)' = CurrentEntries(h)
              /\ WipEntries(h)' = WipEntries(h)
         /\ \A u \in Update, st \in {"queued", "shown"} : Logs(u, st) =>
              LET new == IF u.hook = h THEN {u} ELSE {}
              IN  /\ QueueEntries(h)' = QueueEntries(h) \cup new
                  /\ CurrentEntries(h)' = CurrentEntries(h) \cup new
                  /\ WipEntries(h)' = WipEntries(h) \cup new
<1>1. /\ current'.hooks = current.hooks /\ wip'.hooks = wip.hooks
      /\ concurrentQueues \in Seq(Update) /\ pending \in [Hooks -> Seq(Update)]
  BY TypeInvParts DEF EventStep, QueuesOK
<1>2. LogsNothing => QueueEntries(h)' = QueueEntries(h)
  BY DEF LogsNothing, QueueEntries
<1>3. ASSUME NEW u \in Update, NEW st \in {"queued", "shown"}, Logs(u, st)
      PROVE  QueueEntries(h)' = QueueEntries(h) \cup IF u.hook = h THEN {u} ELSE {}
  <2>1. CASE u.hook = "other" /\ UNCHANGED <<concurrentQueues, pending>>
    BY <2>1 DEF QueueEntries, Hooks
  <2>2. CASE concurrentQueues' = Append(concurrentQueues, u) /\ UNCHANGED pending
    <3>1. ToSet(concurrentQueues') = ToSet(concurrentQueues) \cup {u}
      BY <1>1, <2>2, AppendToSet
    <3>. QED  BY <2>2, <3>1 DEF QueueEntries
  <2>3. CASE /\ concurrentQueues' = <<>>
             /\ pending' = Enqueued(pending, Append(concurrentQueues, u))
    <3>1. Append(concurrentQueues, u) \in Seq(Update)
      BY <1>1, AppendProperties
    <3>2. ToSet(pending'[h]) = ToSet(pending[h])
            \cup {e \in ToSet(Append(concurrentQueues, u)) : e.hook = h}
      <4>1. PICK updates \in Seq(Update) : updates = Append(concurrentQueues, u)
        BY <3>1
      <4>2. ToSet(Enqueued(pending, updates)[h])
              = ToSet(pending[h]) \cup {e \in ToSet(updates) : e.hook = h}
        BY <1>1, EnqueuedEntries
      <4>. QED  BY <2>3, <4>1, <4>2
    <3>3. ToSet(Append(concurrentQueues, u)) = ToSet(concurrentQueues) \cup {u}
      BY <1>1, AppendToSet
    <3>4. ToSet(concurrentQueues') = {}
      BY <2>3, EmptyToSet
    <3>. QED  BY <3>2, <3>3, <3>4 DEF QueueEntries
  <2>. QED  BY <1>3, <2>1, <2>2, <2>3 DEF Logs
<1>4. /\ CurrentEntries(h)' = ToSet(current.hooks[h].baseQueue) \cup QueueEntries(h)'
      /\ WipEntries(h)' = ToSet(wip.hooks[h].baseQueue) \cup QueueEntries(h)'
  BY <1>1 DEF CurrentEntries, WipEntries
<1>5. /\ CurrentEntries(h) = ToSet(current.hooks[h].baseQueue) \cup QueueEntries(h)
      /\ WipEntries(h) = ToSet(wip.hooks[h].baseQueue) \cup QueueEntries(h)
  BY DEF CurrentEntries, WipEntries
<1>6. LogsNothing => /\ QueueEntries(h)' = QueueEntries(h)
                     /\ CurrentEntries(h)' = CurrentEntries(h)
                     /\ WipEntries(h)' = WipEntries(h)
  BY <1>2, <1>4, <1>5
<1>7. ASSUME NEW u \in Update, NEW st \in {"queued", "shown"}, Logs(u, st)
      PROVE  LET new == IF u.hook = h THEN {u} ELSE {}
             IN  /\ QueueEntries(h)' = QueueEntries(h) \cup new
                 /\ CurrentEntries(h)' = CurrentEntries(h) \cup new
                 /\ WipEntries(h)' = WipEntries(h) \cup new
  BY <1>3, <1>4, <1>5, <1>7
<1>. QED  BY <1>6, <1>7

LEMMA EventKeepsUpdates ==
  ASSUME TypeInv, Event, UpdatesByHook
  PROVE  UpdatesByHook'
<1>1. /\ Len(log) \in Nat
      /\ \A i \in DOMAIN log : log'[i] = log[i] /\ status'[i] = status[i]
  BY LoggedUpdates
<1>2. ASSUME NEW i \in DOMAIN log'
      PROVE  /\ log'[i].id = i
             /\ log'[i].hook = "state" =>
                  /\ log'[i].revertLane = NoLane /\ status'[i] \in {"queued", "shown"}
                  /\ log'[i].lane = NoLane => status'[i] = "shown"
             /\ log'[i].hook = "optimistic" =>
                  log'[i].lane = SyncLane /\ log'[i].revertLane # NoLane
  <2>1. CASE i \in DOMAIN log
    <3>1. PICK u : u = log[i]
      OBVIOUS
    <3>2. log'[i] = u /\ status'[i] = status[i]
      BY <1>1, <2>1, <3>1
    <3>. QED  BY <2>1, <3>1, <3>2 DEF UpdatesByHook
  <2>2. CASE i \notin DOMAIN log
    <3>1. ~LogsNothing
      BY <1>2, <2>2, LoggedUpdates
    <3>2. PICK u \in Update, st \in {"queued", "shown"} : Logs(u, st)
      BY <3>1 DEF Event
    <3>3. i = Len(log) + 1 /\ log'[i] = u /\ status'[i] = st
      BY <1>2, <2>2, <3>2, LoggedUpdates
    <3>. QED  BY <3>2, <3>3 DEF Logs
  <2>. QED  BY <2>1, <2>2
<1>. QED  BY <1>2 DEF UpdatesByHook

LEMMA EventKeepsHold ==
  ASSUME TypeInv, Event, UpdatesByHook, HoldInv
  PROVE  HoldInv'
<1>1. EventStep /\ UNCHANGED <<seen, renderLanes, pc>>
  BY DEF Event, EventStep
<1>2. \A h \in Hooks : /\ CurrentEntries(h) \subseteq CurrentEntries(h)'
                       /\ WipEntries(h) \subseteq WipEntries(h)'
  <2>1. CASE LogsNothing
    BY <1>1, <2>1, LoggedEntries
  <2>2. CASE \E u \in Update, st \in {"queued", "shown"} : Logs(u, st)
    BY <1>1, <2>2, LoggedEntries
  <2>. QED  BY <2>1, <2>2 DEF Event
<1>3. ASSUME NEW i \in DOMAIN log
      PROVE  /\ i \in DOMAIN log' /\ log'[i] = log[i] /\ status'[i] = status[i]
             /\ log[i].hook \in Hooks \cup {"other"}
             /\ StatusAfter(i)' = StatusAfter(i)
  <2>1. i \in DOMAIN log' /\ log'[i] = log[i] /\ status'[i] = status[i]
    BY LoggedUpdates
  <2>2. log[i] \in Update
    BY TypeInvParts, LenProperties, ElementOfSeq DEF LogOK
  <2>3. StatusAfter(i)' = StatusAfter(i)
    BY <1>1, <2>1 DEF StatusAfter
  <2>. QED  BY <2>1, <2>2, <2>3 DEF Update
<1>4. ASSUME NEW s, NEW t, s \subseteq t, NEW u, NEW st, IsHeld(s, u, st)
      PROVE  IsHeld(t, u, st)
  BY <1>4 DEF IsHeld
<1>5. ASSUME NEW i \in DOMAIN log', i \notin DOMAIN log
      PROVE  /\ IsHeld(CurrentEntries(log[i].hook), log[i], status[i])'
             /\ pc = "begun" => IsHeld(WipEntries(log[i].hook), log[i], StatusAfter(i))'
  <2>1. ~LogsNothing
    BY <1>5, LoggedUpdates
  <2>2. PICK u \in Update, st \in {"queued", "shown"} : Logs(u, st)
    BY <2>1 DEF Event
  <2>3. i = Len(log) + 1 /\ log'[i] = u /\ status'[i] = st
    BY <1>5, <2>2, LoggedUpdates
  <2>4. pc = "begun" => StatusAfter(i)' = st
    <3>1. i > seen
      BY <2>3, TypeInvParts, LenProperties DEF LogOK
    <3>. QED  BY <1>1, <2>3, <3>1 DEF StatusAfter
  <2>5. CASE st = "shown" \/ u.hook = "other"
    <3>1. u.hook \in {"state", "other"}
      BY <2>2, <2>5 DEF Logs, Update, Hooks
    <3>2. \A s : IsHeld(s, u, st)
      BY <2>5, <3>1 DEF IsHeld
    <3>. QED  BY <2>3, <2>4, <3>2
  <2>6. CASE st = "queued" /\ u.hook # "other"
    <3>1. u.hook \in Hooks /\ IsEntry(u, u, st)
      BY <2>6 DEF Update, IsEntry
    <3>2. u \in CurrentEntries(u.hook)' /\ u \in WipEntries(u.hook)'
      BY <1>1, <2>2, <3>1, LoggedEntries
    <3>3. IsHeld(CurrentEntries(u.hook)', u, st) /\ IsHeld(WipEntries(u.hook)', u, st)
      BY <3>1, <3>2 DEF IsHeld
    <3>4. /\ CurrentEntries(log[i].hook)' = CurrentEntries(u.hook)'
          /\ WipEntries(log[i].hook)' = WipEntries(u.hook)'
      BY <2>3 DEF CurrentEntries, WipEntries, QueueEntries
    <3>. QED  BY <2>3, <2>4, <3>3, <3>4
  <2>. QED  BY <2>5, <2>6
<1>6. ASSUME NEW i \in DOMAIN log
      PROVE  /\ IsHeld(CurrentEntries(log[i].hook), log[i], status[i])'
             /\ pc = "begun" => IsHeld(WipEntries(log[i].hook), log[i], StatusAfter(i))'
  <2>1. PICK u : u = log[i]
    OBVIOUS
  <2>2. /\ CurrentEntries(log[i].hook)' = CurrentEntries(u.hook)'
        /\ WipEntries(log[i].hook)' = WipEntries(u.hook)'
    BY <1>3, <2>1 DEF CurrentEntries, WipEntries, QueueEntries
  <2>3. CASE u.hook = "other"
    BY <1>3, <2>1, <2>3 DEF IsHeld
  <2>4. CASE u.hook \in Hooks
    <3>1. IsHeld(CurrentEntries(u.hook), u, status[i])
      BY <2>1 DEF HoldInv
    <3>2. pc = "begun" => IsHeld(WipEntries(u.hook), u, StatusAfter(i))
      BY <2>1 DEF HoldInv
    <3>3. IsHeld(CurrentEntries(u.hook)', u, status[i])
      BY <1>2, <1>4, <2>4, <3>1
    <3>4. pc = "begun" => IsHeld(WipEntries(u.hook)', u, StatusAfter(i))
      BY <1>2, <1>4, <2>4, <3>2
    <3>. QED  BY <1>3, <2>1, <2>2, <3>3, <3>4
  <2>. QED  BY <1>3, <2>1, <2>3, <2>4
<1>7. pc' = "skipped" => wip'.hooks = current'.hooks
  BY <1>1 DEF HoldInv, EventStep
<1>. QED  BY <1>1, <1>5, <1>6, <1>7 DEF HoldInv

LEMMA EventKeepsOrder ==
  ASSUME TypeInv, Event, OrderInv
  PROVE  OrderInv'
<1>1. EventStep /\ UNCHANGED <<seen, pc>> /\ current'.hooks = current.hooks
      /\ wip'.hooks = wip.hooks
  BY DEF Event, EventStep
<1>2. Len(log) \in Nat /\ Len(log') \in Nat /\ Len(log') >= Len(log) /\ seen \in 0..Len(log)
  BY TypeInvParts, LoggedUpdates DEF LogOK
<1>. DEFINE MayAdd(u) ==
       /\ \A h \in Hooks : CurrentEntries(h)' \subseteq CurrentEntries(h) \cup {u}
       /\ pc # "idle" => /\ pending' = pending
                         /\ ToSet(concurrentQueues') \subseteq ToSet(concurrentQueues) \cup {u}
       /\ u.id <= Len(log') /\ u.id > seen
<1>3. CASE LogsNothing
  <2>1. \A h \in Hooks : CurrentEntries(h)' = CurrentEntries(h)
    BY <1>1, <1>3, LoggedEntries
  <2>2. concurrentQueues' = concurrentQueues /\ pending' = pending /\ log' = log
    BY <1>3 DEF LogsNothing
  <2>. QED  BY <1>1, <1>2, <2>1, <2>2 DEF OrderInv
<1>4. CASE \E u \in Update, st \in {"queued", "shown"} : Logs(u, st)
  <2>1. PICK u \in Update, st \in {"queued", "shown"} : Logs(u, st)
    BY <1>4
  <2>2. MayAdd(u)
    <3>1. u.id = Len(log) + 1 /\ Len(log') = Len(log) + 1
      BY <2>1, LoggedUpdates DEF Logs
    <3>2. \A h \in Hooks : CurrentEntries(h)' \subseteq CurrentEntries(h) \cup {u}
      BY <1>1, <2>1, LoggedEntries
    <3>3. ToSet(Append(concurrentQueues, u)) = ToSet(concurrentQueues) \cup {u}
      BY TypeInvParts, AppendToSet DEF QueuesOK
    <3>4. pc # "idle" => /\ pending' = pending
                         /\ ToSet(concurrentQueues') \subseteq ToSet(concurrentQueues) \cup {u}
      BY <2>1, <3>3 DEF Logs
    <3>5. u.id <= Len(log') /\ u.id > seen
      BY <1>2, <3>1
    <3>. QED  BY <3>2, <3>4, <3>5
  <2>3. \A h \in Hooks : \A e \in CurrentEntries(h)' : e.id <= Len(log')
    <3>1. ASSUME NEW h \in Hooks, NEW e \in CurrentEntries(h)' PROVE e.id <= Len(log')
      <4>1. CASE e = u
        BY <2>2, <4>1
      <4>2. CASE e \in CurrentEntries(h)
        <5>1. e.id <= Len(log)
          BY <4>2 DEF OrderInv
        <5>2. e.id \in Int
          <6>1. e \in Update
            <7>1. /\ current.hooks[h].baseQueue \in Seq(Update) /\ pending[h] \in Seq(Update)
                  /\ concurrentQueues \in Seq(Update)
              BY MergedType, TypeInvParts DEF Hook, QueuesOK
            <7>2. \A s \in Seq(Update) : \A x \in ToSet(s) : x \in Update
              BY LenProperties, ElementOfSeq DEF ToSet
            <7>. QED  BY <4>2, <7>1, <7>2 DEF CurrentEntries, QueueEntries
          <6>. QED  BY <6>1 DEF Update
        <5>. QED  BY <1>2, <5>1, <5>2
      <4>. QED  BY <2>2, <4>1, <4>2
    <3>. QED  BY <3>1
  <2>4. pc' # "idle" =>
          /\ \A h \in Hooks :
               \A e \in ToSet(current'.hooks[h].baseQueue) \cup ToSet(pending'[h]) : e.id <= seen'
          /\ \A e \in ToSet(concurrentQueues') : e.id > seen'
    BY <1>1, <2>2 DEF OrderInv
  <2>5. pc' = "begun" =>
          \A h \in Hooks : \A e \in ToSet(wip'.hooks[h].baseQueue) : e.id <= seen'
    BY <1>1 DEF OrderInv
  <2>. QED  BY <2>3, <2>4, <2>5 DEF OrderInv
<1>. QED  BY <1>3, <1>4 DEF Event

LEMMA EventKeepsLanes ==
  ASSUME Event, LanesInv
  PROVE  LanesInv'
<1>1. ~RendersEvents' /\ UNCHANGED <<wipLanes, renderLanes, pc>>
  BY DEF Event, EventStep, RendersEvents
<1>2. /\ root'.suspendedLanes \subseteq TransitionLanes
      /\ \A l \in UsedLanes \ TransitionLanes : root'.entanglements[l] = {}
  BY DEF Event, EventStep, LanesInv
<1>. QED  BY <1>1, <1>2 DEF LanesInv

LEMMA EventKeepsSync ==
  ASSUME TypeInv, Event, SyncInv
  PROVE  SyncInv'
<1>1. /\ UNCHANGED <<seen, wipLanes, renderLanes, pc>>
      /\ current.lanes \subseteq current'.lanes
      /\ root.pendingLanes \subseteq root'.pendingLanes
  BY DEF Event, EventStep
<1>2. seen \in 0..Len(log) /\ Len(log) \in Nat
  BY TypeInvParts, LoggedUpdates DEF LogOK
<1>3. ASSUME NEW i \in DOMAIN log', log'[i].hook = "optimistic", status'[i] = "queued"
      PROVE  /\ SyncLane \in root'.pendingLanes
             /\ SyncLane \in current'.lanes \/ (pc = "begun" /\ SyncLane \in renderLanes)
             /\ pc # "idle" /\ i <= seen => SyncLane \in renderLanes /\ pc # "skipped"
  <2>1. CASE i \in DOMAIN log
    <3>1. log[i].hook = "optimistic" /\ status[i] = "queued"
      BY <1>3, <2>1, LoggedUpdates
    <3>. QED  BY <1>1, <2>1, <3>1 DEF SyncInv
  <2>2. CASE i \notin DOMAIN log
    <3>1. ~LogsNothing
      BY <1>3, <2>2, LoggedUpdates
    <3>2. PICK u \in Update, st \in {"queued", "shown"} : Logs(u, st)
      BY <3>1 DEF Event
    <3>3. i = Len(log) + 1 /\ log'[i] = u
      BY <1>3, <2>2, <3>2, LoggedUpdates
    <3>4. ~(i <= seen)
      BY <1>2, <3>3
    <3>. QED  BY <1>3, <3>2, <3>3, <3>4 DEF Logs
  <2>. QED  BY <2>1, <2>2
<1>. QED  BY <1>1, <1>3 DEF SyncInv

LEMMA EventKeepsRead ==
  ASSUME TypeInv, Event, ScopeInv, ReadInv
  PROVE  ReadInv'
<1>1. /\ UNCHANGED <<seen, wipLanes, renderLanes, pc>>
      /\ current'.hooks = current.hooks /\ wip'.hooks = wip.hooks
      /\ inScope' \subseteq inScope \cup {Len(log) + 1}
      /\ IsOpen(scope) /\ IsOpen(scope') => scope'.lane = scope.lane
  BY DEF Event, EventStep
<1>2. seen \in 0..Len(log) /\ Len(log) \in Nat /\ inScope \subseteq DOMAIN log
  BY TypeInvParts, LoggedUpdates DEF LogOK
<1>3. ASSUME pc' = "begun", IsOpen(scope'), NEW u \in inScope', u <= seen'
      PROVE  /\ u \in inScope /\ IsOpen(scope) /\ scope'.lane = scope.lane
             /\ log'[u] = log[u] /\ status'[u] = status[u]
  <2>1. u # Len(log) + 1
    BY <1>1, <1>2, <1>3
  <2>2. u \in inScope
    BY <1>1, <1>3, <2>1
  <2>3. IsOpen(scope)
    <3>1. ASSUME ~IsOpen(scope) PROVE FALSE
      <4>1. u > seen
        BY <1>1, <1>3, <2>2, <3>1 DEF ScopeInv
      <4>2. u \in Nat
        <5>1. DOMAIN log = 1..Len(log)
          BY LoggedUpdates
        <5>. QED  BY <1>2, <2>2, <5>1
      <4>. QED  BY <1>1, <1>2, <1>3, <4>1, <4>2
    <3>. QED  BY <3>1
  <2>4. log'[u] = log[u] /\ status'[u] = status[u]
    BY <1>2, <2>2, LoggedUpdates
  <2>. QED  BY <1>1, <1>3, <2>2, <2>3, <2>4
<1>4. ASSUME pc' = "begun", IsOpen(scope'), NEW u \in inScope',
             u <= seen' /\ status'[u] # "dropped" /\ scope'.lane \in renderLanes',
             \/ log'[u].hook = "state" /\ status'[u] = "queued"
             \/ log'[u].hook = "optimistic" /\ log'[u].revertLane = scope'.lane
      PROVE  wip'.hooks[log'[u].hook].memoizedState = current'.hooks[log'[u].hook].memoizedState
  <2>1. /\ u \in inScope /\ IsOpen(scope) /\ scope'.lane = scope.lane
        /\ log'[u] = log[u] /\ status'[u] = status[u]
    BY <1>3, <1>4
  <2>2. wip.hooks[log[u].hook].memoizedState = current.hooks[log[u].hook].memoizedState
    BY <1>1, <1>4, <2>1 DEF ReadInv, Value
  <2>. QED  BY <1>1, <2>1, <2>2
<1>. QED  BY <1>4 DEF ReadInv, Value

LEMMA EventsRunBetweenRenders ==
  ASSUME EventsRun, LanesInv
  PROVE  ~RendersEvents
<1>1. SyncUpdateLanes \subseteq SyncDefaultLanes \cup {SyncLane}
  BY DEF SyncUpdateLanes, SyncDefaultLanes
<1>. QED  BY <1>1 DEF EventsRun, LanesInv, RendersEvents, Blocking

LEMMA MarkedFibers ==
  ASSUME NEW fiber \in Fiber, NEW lanes \in SUBSET UsedLanes
  PROVE  /\ Mark(fiber, lanes).hooks = fiber.hooks
         /\ Mark(fiber, lanes).lanes = fiber.lanes \cup lanes
BY DEF Mark, Fiber

LEMMA ScheduledUpdate ==
  ASSUME TypeInv, LanesInv, NEW u \in Update, u.lane \in UsedLanes,
         NEW entangled \in SUBSET UsedTransitionLanes, Schedule(u, entangled)
  PROVE  /\ concurrentQueues' = Append(concurrentQueues, u) /\ pending' = pending
         /\ current'.hooks = current.hooks /\ wip'.hooks = wip.hooks
         /\ current.lanes \subseteq current'.lanes /\ u.lane \in current'.lanes
         /\ root.pendingLanes \subseteq root'.pendingLanes /\ u.lane \in root'.pendingLanes
         /\ root'.suspendedLanes \subseteq root.suspendedLanes
         /\ \A l \in UsedLanes \ TransitionLanes : root'.entanglements[l] = root.entanglements[l]
<1>1. QueuesOK /\ LanesOK
  BY TypeInvParts
<1>2. concurrentQueues' = Append(concurrentQueues, u) /\ pending' = pending
  BY DEF Schedule
<1>3. /\ current'.hooks = current.hooks /\ wip'.hooks = wip.hooks
      /\ current.lanes \subseteq current'.lanes /\ u.lane \in current'.lanes
  <2>1. current \in Fiber /\ wip \in Fiber /\ {u.lane} \in SUBSET UsedLanes
    BY <1>1 DEF QueuesOK
  <2>2. current' = Mark(current, {u.lane}) /\ wip' = Mark(wip, {u.lane})
    BY DEF Schedule
  <2>. QED  BY <2>1, <2>2, MarkedFibers
<1>. DEFINE updated == MarkRootUpdated(root, u.lane)
<1>4. /\ updated.pendingLanes = root.pendingLanes \cup {u.lane}
      /\ updated.suspendedLanes = {} /\ updated.entanglements = root.entanglements
      /\ updated \in RootRecord(UsedLanes)
  <2>1. /\ updated.pendingLanes = root.pendingLanes \cup {u.lane}
        /\ updated.suspendedLanes = {} /\ updated.entanglements = root.entanglements
    BY <1>1, LanesInUse DEF LanesOK, RootRecord, MarkRootUpdated
  <2>. QED  BY <1>1, <2>1, MarkRootUpdatedType DEF LanesOK
<1>. HIDE DEF updated
<1>5. CASE entangled = {}
  <2>1. root' = updated
    BY <1>5 DEF Schedule, updated
  <2>. QED  BY <1>2, <1>3, <1>4, <2>1
<1>6. CASE entangled # {}
  <2>1. root' = MarkRootEntangled(updated, entangled)
    BY <1>6 DEF Schedule, updated
  <2>2. root'.pendingLanes = updated.pendingLanes /\ root'.suspendedLanes = {}
    BY <1>4, <2>1 DEF MarkRootEntangled, RootRecord
  <2>3. ASSUME NEW l \in UsedLanes \ TransitionLanes
        PROVE  root'.entanglements[l] = root.entanglements[l]
    <3>1. l \notin entangled /\ updated.entanglements[l] = {}
      BY <1>4, LanesInUse DEF LanesInv
    <3>2. DOMAIN updated.entanglements = UsedLanes
      BY <1>4 DEF RootRecord
    <3>3. root'.entanglements[l] = updated.entanglements[l]
      BY <1>4, <2>1, <3>1, <3>2 DEF MarkRootEntangled, RootRecord
    <3>. QED  BY <1>4, <3>3
  <2>. QED  BY <1>2, <1>3, <1>4, <2>2, <2>3
<1>. QED  BY <1>5, <1>6

LEMMA DispatchSetStateIsEvent ==
  ASSUME TypeInv, LanesInv, NEW kind \in Kinds, NEW eventLane \in EventLanes,
         DispatchSetState(kind, eventLane)
  PROVE  Event /\ \E u \in Update, st \in {"queued", "shown"} :
                    /\ Logs(u, st) /\ u.hook = "state"
                    /\ u.lane \in {NoLane, UpdateLane(eventLane)}
<1>. DEFINE lane == UpdateLane(eventLane)
            plain == [id |-> Len(log) + 1, hook |-> "state", kind |-> kind,
                      lane |-> lane, revertLane |-> NoLane, eagerState |-> {}]
            eager == Reduce(lastRenderedState, plain)
            update == [plain EXCEPT !.eagerState = IF NoLanesOnFibers THEN {eager} ELSE {}]
            quiet == [update EXCEPT !.lane = NoLane]
<1>1. LogOK /\ QueuesOK /\ LanesOK /\ TransitionsOK /\ ScopeOK
  BY TypeInvParts
<1>2. lane \in UsedLanes /\ lane # NoLane
  BY UpdateLaneType, LanesInUse
<1>3. kind \in {"add", "keep", "reset"} /\ Len(log) + 1 \in 1..MaxUpdates
  BY <1>1, KindsAssumption, BoundsAssumption, LenProperties DEF LogOK, DispatchSetState
<1>4. /\ ~RendersEvents /\ UNCHANGED <<seen, wipLanes, renderLanes, pc, scope>>
      /\ inScope' \subseteq inScope \cup {Len(log) + 1}
  BY EventsRunBetweenRenders DEF DispatchSetState, actionVars
<1>. HIDE DEF lane
<1>5. plain \in Update
  BY <1>2, <1>3 DEF Update, Hooks
<1>6. eager \in State
  <2>1. plain.eagerState = {}
    OBVIOUS
  <2>2. eager = Result(lastRenderedState, plain)
    BY <2>1 DEF Result
  <2>. QED  BY <1>1, <1>5, <2>2, ResultType DEF QueuesOK
<1>7. /\ update \in Update /\ quiet \in Update
      /\ update.lane = lane /\ update.hook = "state" /\ update.id = Len(log) + 1
      /\ update.revertLane = NoLane
      /\ quiet.lane = NoLane /\ quiet.hook = "state" /\ quiet.id = Len(log) + 1
      /\ quiet.revertLane = NoLane
  BY <1>5, <1>6 DEF Update
<1>8. CASE update.eagerState = {lastRenderedState}
  <2>1. /\ EagerlyBailOut(quiet) /\ log' = Append(log, quiet)
        /\ status' = Append(status, "shown")
    BY <1>8 DEF DispatchSetState, update, eager, plain, lane
  <2>. HIDE DEF quiet, update
  <2>2. /\ current'.hooks = current.hooks /\ wip'.hooks = wip.hooks
        /\ current.lanes \subseteq current'.lanes /\ root' = root
        /\ \/ concurrentQueues' = Append(concurrentQueues, quiet) /\ pending' = pending
           \/ /\ pc = "idle" /\ concurrentQueues' = <<>>
              /\ pending' = Enqueued(pending, Append(concurrentQueues, quiet))
    <3>1. CASE IsRendering
      BY <2>1, <3>1 DEF EagerlyBailOut
    <3>2. CASE ~IsRendering
      <4>1. FinishQueueing(Append(concurrentQueues, quiet)) /\ root' = root
        BY <2>1, <3>2 DEF EagerlyBailOut
      <4>2. Append(concurrentQueues, quiet) \in Seq(Update)
        BY <1>1, <1>7, AppendProperties DEF QueuesOK
      <4>3. LanesOf(Append(concurrentQueues, quiet)) \in SUBSET UsedLanes
        BY <4>2, LanesOfType
      <4>4. /\ current'.hooks = current.hooks /\ wip'.hooks = wip.hooks
            /\ current.lanes \subseteq current'.lanes
        BY <1>1, <4>1, <4>3, MarkedFibers DEF FinishQueueing, QueuesOK
      <4>. QED  BY <3>2, <4>1, <4>4 DEF FinishQueueing, IsRendering
    <3>. QED  BY <3>1, <3>2
  <2>3. Logs(quiet, "shown")
    BY <1>7, <2>1, <2>2 DEF Logs, Hooks
  <2>4. EventStep
    BY <1>4, <2>2 DEF EventStep
  <2>. QED  BY <1>7, <2>3, <2>4 DEF Event
<1>9. CASE update.eagerState # {lastRenderedState}
  <2>. DEFINE entangled == IF lane \in TransitionLanes THEN QueueLanes(lane) ELSE {}
  <2>1. /\ Schedule(update, entangled) /\ log' = Append(log, update)
        /\ status' = Append(status, "queued")
    BY <1>9 DEF DispatchSetState, update, eager, plain, lane
  <2>. HIDE DEF update
  <2>2. entangled \in SUBSET UsedTransitionLanes
    BY <1>1, <1>2, LanesInUse DEF QueueLanes, QueuesOK
  <2>. HIDE DEF entangled
  <2>3. /\ concurrentQueues' = Append(concurrentQueues, update) /\ pending' = pending
        /\ current'.hooks = current.hooks /\ wip'.hooks = wip.hooks
        /\ current.lanes \subseteq current'.lanes
        /\ root.pendingLanes \subseteq root'.pendingLanes
        /\ root'.suspendedLanes \subseteq root.suspendedLanes
        /\ \A l \in UsedLanes \ TransitionLanes : root'.entanglements[l] = root.entanglements[l]
    BY <1>2, <1>7, <2>1, <2>2, ScheduledUpdate
  <2>4. Logs(update, "queued")
    BY <1>2, <1>7, <2>1, <2>3 DEF Logs, Hooks
  <2>5. EventStep
    BY <1>4, <2>3 DEF EventStep
  <2>. QED  BY <1>7, <2>4, <2>5 DEF Event, lane
<1>. QED  BY <1>8, <1>9

LEMMA DispatchOptimisticIsEvent ==
  ASSUME TypeInv, LanesInv, DispatchOptimisticSetState
  PROVE  Event /\ \E u \in Update, st \in {"queued", "shown"} :
                    Logs(u, st) /\ u.hook = "optimistic"
<1>. DEFINE update == [id |-> Len(log) + 1, hook |-> "optimistic", kind |-> "add",
                       lane |-> SyncLane, revertLane |-> RequestedLane,
                       eagerState |-> {}]
<1>1. LogOK /\ QueuesOK
  BY TypeInvParts
<1>2. /\ update \in Update /\ update.lane \in UsedLanes /\ update.hook = "optimistic"
      /\ update.id = Len(log) + 1 /\ update.lane = SyncLane /\ update.revertLane # NoLane
  <2>1. Len(log) + 1 \in 1..MaxUpdates
    BY <1>1, BoundsAssumption, LenProperties DEF LogOK, DispatchOptimisticSetState
  <2>2. RequestedLane \in UsedTransitionLanes
    BY RequestedLaneType DEF TypeInv
  <2>. QED  BY <2>1, <2>2, LanesInUse DEF Update, Hooks
<1>3. /\ Schedule(update, {}) /\ log' = Append(log, update)
      /\ status' = Append(status, "queued")
  BY DEF DispatchOptimisticSetState
<1>. HIDE DEF update
<1>4. /\ ~RendersEvents /\ UNCHANGED <<seen, wipLanes, renderLanes, pc, scope>>
      /\ inScope' \subseteq inScope \cup {Len(log) + 1}
  BY EventsRunBetweenRenders DEF DispatchOptimisticSetState, actionVars
<1>5. /\ concurrentQueues' = Append(concurrentQueues, update) /\ pending' = pending
      /\ current'.hooks = current.hooks /\ wip'.hooks = wip.hooks
      /\ current.lanes \subseteq current'.lanes /\ SyncLane \in current'.lanes
      /\ root.pendingLanes \subseteq root'.pendingLanes /\ SyncLane \in root'.pendingLanes
      /\ root'.suspendedLanes \subseteq root.suspendedLanes
      /\ \A l \in UsedLanes \ TransitionLanes : root'.entanglements[l] = root.entanglements[l]
  BY <1>2, <1>3, ScheduledUpdate
<1>6. Logs(update, "queued")
  BY <1>2, <1>3, <1>5 DEF Logs, Hooks
<1>7. EventStep
  BY <1>4, <1>5 DEF EventStep
<1>. QED  BY <1>2, <1>6, <1>7 DEF Event

LEMMA UpdateOtherIsEvent ==
  ASSUME TypeInv, LanesInv, NEW eventLane \in EventLanes, UpdateOther(eventLane)
  PROVE  Event
<1>. DEFINE lane == UpdateLane(eventLane)
            update == [id |-> Len(log) + 1, hook |-> "other", kind |-> "keep",
                       lane |-> lane, revertLane |-> NoLane, eagerState |-> {}]
<1>1. LogOK /\ LanesOK
  BY TypeInvParts
<1>2. lane \in UsedLanes
  BY UpdateLaneType
<1>3. /\ log' = Append(log, update) /\ status' = Append(status, "queued")
      /\ root' = MarkRootUpdated(root, lane)
      /\ UNCHANGED <<seen, inScope, queueVars, fiberVars, wipLanes, renderLanes, pc, scope>>
      /\ ~RendersEvents
  BY EventsRunBetweenRenders DEF UpdateOther, actionVars
<1>4. /\ root.pendingLanes \subseteq root'.pendingLanes
      /\ root'.suspendedLanes \subseteq root.suspendedLanes
      /\ root'.entanglements = root.entanglements
  BY <1>1, <1>2, <1>3 DEF LanesOK, RootRecord, MarkRootUpdated
<1>. HIDE DEF lane
<1>5. update \in Update /\ update.hook = "other" /\ update.id = Len(log) + 1
  <2>1. Len(log) + 1 \in 1..MaxUpdates
    BY <1>1, BoundsAssumption, LenProperties DEF LogOK, UpdateOther
  <2>. QED  BY <1>2, <2>1 DEF Update, Hooks
<1>. HIDE DEF update
<1>6. Logs(update, "queued")
  BY <1>3, <1>5 DEF Logs, queueVars
<1>7. EventStep
  BY <1>3, <1>4 DEF EventStep, fiberVars
<1>. QED  BY <1>5, <1>6, <1>7 DEF Event

LEMMA TransitionStepsAreEvents ==
  ASSUME TypeInv, LanesInv,
         \/ StartTransition \/ FinishTransition \/ FinishAction \/ SettleAction
         \/ ProcessRootSchedule
  PROVE  EventStep /\ LogsNothing
<1>1. LogOK /\ LanesOK
  BY TypeInvParts
<1>2. ~RendersEvents
  <2>1. EventsRun \/ inTransition \/ microtask
    BY DEF StartTransition, FinishTransition, FinishAction, SettleAction, ProcessRootSchedule
  <2>. QED  BY <2>1, EventsRunBetweenRenders DEF LanesInv
<1>3. CASE StartTransition
  BY <1>2, <1>3 DEF StartTransition, EventStep, LogsNothing, historyVars, queueVars,
     fiberVars, renderVars, actionVars
<1>4. CASE FinishTransition
  BY <1>2, <1>4 DEF FinishTransition, EventStep, LogsNothing, queueVars, fiberVars,
     renderVars, actionVars
<1>5. CASE FinishAction
  <2>1. IsOpen(scope) => scope'.lane = scope.lane
    BY <1>5, TypeInvParts DEF FinishAction, EntangleAsyncAction, ScopeOK, Scopes
  <2>. QED  BY <1>2, <1>5, <2>1 DEF FinishAction, EventStep, LogsNothing, historyVars,
            queueVars, fiberVars, renderVars
<1>6. CASE SettleAction
  <2>1. IsOpen(scope') => scope'.lane = scope.lane
    BY <1>6, TypeInvParts DEF SettleAction, PingEntangledActionScope, NoScope, IsOpen,
       ScopeOK, Scopes
  <2>2. PICK lanes : root' = MarkRootPinged(root, lanes)
    BY <1>6 DEF SettleAction
  <2>3. /\ root'.pendingLanes = root.pendingLanes
        /\ root'.suspendedLanes = root.suspendedLanes
        /\ root'.entanglements = root.entanglements
    BY <1>1, <2>2 DEF MarkRootPinged, LanesOK, RootRecord
  <2>4. inScope' \subseteq inScope
    BY <1>6 DEF SettleAction
  <2>5. UNCHANGED <<log, status, seen, concurrentQueues, pending, current, wip, wipLanes,
                    renderLanes, pc>>
    BY <1>6 DEF SettleAction, queueVars, fiberVars
  <2>. QED  BY <1>2, <2>1, <2>3, <2>4, <2>5 DEF EventStep, LogsNothing
<1>7. CASE ProcessRootSchedule
  BY <1>2, <1>7 DEF ProcessRootSchedule, EventStep, LogsNothing, historyVars, queueVars,
     fiberVars, renderVars, actionVars
<1>. QED  BY <1>3, <1>4, <1>5, <1>6, <1>7

(* What is made in a transition has its lane, which the scope takes over.  *)
LaneInScope(u) ==
  log[u].hook = "state" /\ log[u].lane # NoLane =>
    log[u].lane = IF IsOpen(scope) THEN scope.lane ELSE currentEventTransitionLane

LEMMA RequestedLaneStays ==
  ASSUME currentEventTransitionLane # NoLane
  PROVE  /\ RequestedLane = currentEventTransitionLane
         /\ RequestTransitionLane => currentEventTransitionLane' = currentEventTransitionLane
BY DEF RequestedLane, RequestTransitionLane

LEMMA DispatchKeepsScope ==
  ASSUME TypeInv, LanesInv, ScopeInv, UpdatesByHook,
         \/ \E kind \in Kinds, lane \in EventLanes : DispatchSetState(kind, lane)
         \/ DispatchOptimisticSetState
         \/ \E lane \in EventLanes : UpdateOther(lane)
  PROVE  ScopeInv'
<1>1. Event /\ UNCHANGED <<seen, pc, scope, inTransition>>
  <2>1. Event
    BY DispatchSetStateIsEvent, DispatchOptimisticIsEvent, UpdateOtherIsEvent
  <2>2. UNCHANGED <<seen, pc, scope, inTransition>>
    BY <2>1 DEF DispatchSetState, DispatchOptimisticSetState, UpdateOther, actionVars,
       Event, EventStep
  <2>. QED  BY <2>1, <2>2
<1>2. /\ seen \in 0..Len(log) /\ Len(log) \in Nat /\ inScope \subseteq DOMAIN log
      /\ DOMAIN log = 1..Len(log)
      /\ \A i \in DOMAIN log : log'[i] = log[i]
  BY <1>1, TypeInvParts, LoggedUpdates DEF LogOK
<1>3. /\ RequestTransitionLane \/ UNCHANGED transitionVars
      /\ inScope' \subseteq inScope \cup {Len(log) + 1}
      /\ inScope' # inScope => IsOpen(scope) \/ inTransition
  BY DEF DispatchSetState, DispatchOptimisticSetState, UpdateOther
<1>4. ASSUME NEW u \in inScope
      PROVE  LaneInScope(u)' /\ log'[u].hook \in Hooks
  <2>1. LaneInScope(u) /\ log[u].hook \in Hooks /\ log'[u] = log[u]
    BY <1>2 DEF ScopeInv, LaneInScope
  <2>2. CASE IsOpen(scope) \/ log[u].lane = NoLane \/ log[u].hook # "state"
    BY <1>1, <2>1, <2>2 DEF LaneInScope
  <2>3. CASE ~IsOpen(scope) /\ log[u].lane # NoLane /\ log[u].hook = "state"
    <3>1. currentEventTransitionLane = log[u].lane
      BY <2>1, <2>3 DEF LaneInScope
    <3>2. currentEventTransitionLane' = currentEventTransitionLane
      BY <1>3, <2>3, <3>1, RequestedLaneStays DEF transitionVars
    <3>. QED  BY <1>1, <2>1, <2>3, <3>1, <3>2 DEF LaneInScope
  <2>. QED  BY <2>1, <2>2, <2>3
<1>5. ASSUME NEW u \in inScope', u \notin inScope
      PROVE  LaneInScope(u)' /\ log'[u].hook \in Hooks
  <2>1. u = Len(log) + 1 /\ inScope' # inScope
    BY <1>3, <1>5
  <2>2. ASSUME NEW kind \in Kinds, NEW lane \in EventLanes, DispatchSetState(kind, lane)
        PROVE  LaneInScope(u)' /\ log'[u].hook \in Hooks
    <3>1. PICK v \in Update, st \in {"queued", "shown"} :
            Logs(v, st) /\ v.hook = "state" /\ v.lane \in {NoLane, UpdateLane(lane)}
      BY <2>2, DispatchSetStateIsEvent
    <3>2. log'[u] = v
      BY <1>1, <2>1, <3>1, LoggedUpdates
    <3>3. inTransition
      BY <2>1, <2>2 DEF DispatchSetState
    <3>4. UpdateLane(lane) = IF IsOpen(scope) THEN scope.lane ELSE RequestedLane
      BY <3>3 DEF UpdateLane
    <3>5. ~IsOpen(scope) => currentEventTransitionLane' = RequestedLane
      BY <2>2, <3>3 DEF DispatchSetState, RequestTransitionLane
    <3>. QED  BY <1>1, <3>1, <3>2, <3>4, <3>5 DEF LaneInScope, Hooks
  <2>3. CASE DispatchOptimisticSetState
    <3>1. PICK v \in Update, st \in {"queued", "shown"} : Logs(v, st) /\ v.hook = "optimistic"
      BY <2>3, DispatchOptimisticIsEvent
    <3>2. log'[u] = v
      BY <1>1, <2>1, <3>1, LoggedUpdates
    <3>. QED  BY <3>1, <3>2 DEF LaneInScope, Hooks
  <2>4. ~ \E lane \in EventLanes : UpdateOther(lane)
    BY <2>1 DEF UpdateOther
  <2>. QED  BY <2>2, <2>3, <2>4
<1>6. ~IsOpen(scope') /\ ~inTransition' => inScope' = {}
  BY <1>1, <1>3 DEF ScopeInv
<1>7. ASSUME ~IsOpen(scope'), pc' # "idle", NEW u \in inScope' PROVE u > seen'
  <2>1. CASE u \in inScope
    BY <1>1, <1>7, <2>1 DEF ScopeInv
  <2>2. CASE u = Len(log) + 1
    BY <1>1, <1>2, <2>2
  <2>. QED  BY <1>3, <1>7, <2>1, <2>2
<1>. QED  BY <1>4, <1>5, <1>6, <1>7 DEF ScopeInv, LaneInScope

LEMMA TransitionStepsKeepScope ==
  ASSUME TypeInv, LanesInv, ScopeInv,
         \/ StartTransition \/ FinishTransition \/ FinishAction \/ SettleAction
         \/ ProcessRootSchedule
  PROVE  ScopeInv'
<1>1. UNCHANGED <<log, seen, pc>>
  BY TransitionStepsAreEvents DEF EventStep, LogsNothing
<1>2. \A u \in inScope : LaneInScope(u) /\ log[u].hook \in Hooks
  BY DEF ScopeInv, LaneInScope
<1>3. CASE StartTransition
  <2>1. UNCHANGED <<scope, inScope, currentEventTransitionLane>> /\ inTransition'
    BY <1>3 DEF StartTransition, actionVars, historyVars, transitionVars
  <2>. QED  BY <1>1, <2>1 DEF ScopeInv
<1>4. CASE FinishTransition
  <2>1. UNCHANGED <<scope, currentEventTransitionLane>>
        /\ inScope' = IF IsOpen(scope) THEN inScope ELSE {}
    BY <1>4 DEF FinishTransition, actionVars, transitionVars
  <2>. QED  BY <1>1, <2>1 DEF ScopeInv
<1>5. CASE FinishAction
  <2>1. inScope' = inScope /\ inTransition
    BY <1>5 DEF FinishAction, historyVars
  <2>2. IsOpen(scope') /\ (IsOpen(scope) => scope'.lane = scope.lane)
        /\ (~IsOpen(scope) => scope'.lane = RequestedLane)
    <3>1. RequestedLane # NoLane
      BY RequestedLaneType, LanesInUse DEF TypeInv
    <3>. QED  BY <1>5, <3>1, TypeInvParts
              DEF FinishAction, EntangleAsyncAction, IsOpen, ScopeOK, Scopes
  <2>3. ASSUME NEW u \in inScope PROVE LaneInScope(u)'
    BY <1>1, <1>2, <2>2, RequestedLaneStays DEF LaneInScope
  <2>. QED  BY <1>1, <1>2, <2>1, <2>2, <2>3 DEF ScopeInv, LaneInScope
<1>6. CASE SettleAction
  <2>1. IsOpen(scope) /\ inScope' = IF IsOpen(scope') THEN inScope ELSE {}
    BY <1>6 DEF SettleAction
  <2>2. IsOpen(scope') => scope'.lane = scope.lane
    BY <2>1, TransitionStepsAreEvents DEF EventStep
  <2>. QED  BY <1>1, <2>1, <2>2 DEF ScopeInv
<1>7. CASE ProcessRootSchedule
  <2>1. UNCHANGED <<scope, inScope, inTransition>> /\ ~inTransition
    BY <1>7 DEF ProcessRootSchedule, historyVars, actionVars
  <2>. QED  BY <1>1, <2>1 DEF ScopeInv
<1>. QED  BY <1>3, <1>4, <1>5, <1>6, <1>7

LEMMA EventKeepsWait ==
  ASSUME TypeInv, WaitInv,
         \/ \E kind \in Kinds, lane \in EventLanes : DispatchSetState(kind, lane)
         \/ DispatchOptimisticSetState
         \/ \E lane \in EventLanes : UpdateOther(lane)
         \/ StartTransition \/ FinishTransition \/ FinishAction \/ SettleAction
         \/ ProcessRootSchedule
  PROVE  WaitInv' /\ Event
<1>1. /\ UpdatesByHook /\ HoldInv /\ OrderInv /\ LanesInv /\ SyncInv /\ ScopeInv
      /\ ReadInv
  BY DEF WaitInv
<1>2. Event
  <2>1. CASE \/ StartTransition \/ FinishTransition \/ FinishAction \/ SettleAction
             \/ ProcessRootSchedule
    BY <1>1, <2>1, TransitionStepsAreEvents DEF Event
  <2>. QED  BY <1>1, <2>1, DispatchSetStateIsEvent, DispatchOptimisticIsEvent,
            UpdateOtherIsEvent
<1>3. ScopeInv'
  BY <1>1, DispatchKeepsScope, TransitionStepsKeepScope
<1>. QED  BY <1>1, <1>2, <1>3, EventKeepsUpdates, EventKeepsHold, EventKeepsOrder,
          EventKeepsLanes, EventKeepsSync, EventKeepsRead DEF WaitInv

-----------------------------------------------------------------------------
(* Renders: the log is left as it is, the queues have the same entries.    *)
LEMMA WaitInit == Init => WaitInv
<1>. SUFFICES ASSUME Init PROVE WaitInv
  OBVIOUS
<1>1. /\ log = <<>> /\ pc = "idle" /\ inScope = {} /\ concurrentQueues = <<>>
      /\ root.suspendedLanes = {} /\ \A l \in UsedLanes : root.entanglements[l] = {}
  BY DEF Init, InitialRoot
<1>2. DOMAIN log = {}
  BY <1>1
<1>3. \A h \in Hooks : CurrentEntries(h) = {}
  <2>1. /\ \A h \in Hooks : pending[h] = <<>> /\ current.hooks[h].baseQueue = <<>>
        /\ concurrentQueues = <<>>
    BY DEF Init, InitialFiber, InitialHook
  <2>. QED  BY <2>1, EmptyToSet DEF CurrentEntries, QueueEntries
<1>4. UpdatesByHook /\ HoldInv /\ SyncInv
  BY <1>1, <1>2 DEF UpdatesByHook, HoldInv, SyncInv
<1>5. OrderInv
  BY <1>1, <1>3 DEF OrderInv
<1>6. LanesInv
  BY <1>1 DEF LanesInv, RendersEvents
<1>7. ScopeInv /\ ReadInv
  BY <1>1 DEF ScopeInv, ReadInv
<1>. QED  BY <1>4, <1>5, <1>6, <1>7 DEF WaitInv

LEMMA EntriesType ==
  ASSUME TypeInv, NEW h \in Hooks
  PROVE  /\ CurrentEntries(h) \subseteq Update /\ WipEntries(h) \subseteq Update
         /\ ToSet(Merged(h))
              = ToSet(current.hooks[h].baseQueue) \cup ToSet(pending[h])
         /\ CurrentEntries(h)
              = ToSet(Merged(h)) \cup {e \in ToSet(concurrentQueues) : e.hook = h}
<1>1. /\ current.hooks[h].baseQueue \in Seq(Update) /\ pending[h] \in Seq(Update)
      /\ wip.hooks[h].baseQueue \in Seq(Update) /\ concurrentQueues \in Seq(Update)
  BY MergedType, TypeInvParts DEF Hook, QueuesOK, Fiber
<1>2. \A s \in Seq(Update) : \A x \in ToSet(s) : x \in Update
  BY LenProperties, ElementOfSeq DEF ToSet
<1>3. ToSet(Merged(h)) = ToSet(current.hooks[h].baseQueue) \cup ToSet(pending[h])
  BY <1>1, ConcatToSet DEF Merged
<1>. QED  BY <1>1, <1>2, <1>3 DEF CurrentEntries, WipEntries, QueueEntries

(* The updates of a scope that is closed are made by the event that is on: *)
(* no render comes before its end.                                         *)
LEMMA RenderKeepsScope ==
  ASSUME ScopeInv, ~inTransition, UNCHANGED <<log, inScope>>, scope'.lane = scope.lane
  PROVE  ScopeInv'
<1>1. ~IsOpen(scope) => inScope = {}
  BY DEF ScopeInv
<1>2. IsOpen(scope') <=> IsOpen(scope)
  BY DEF IsOpen
<1>. QED  BY <1>1, <1>2 DEF ScopeInv

LEMMA NewLanes ==
  ASSUME TypeInv, LanesInv, NextLanes \notin {{}, wipLanes}
  PROVE  /\ GetNextLanes(root, NextLanes) = NextLanes
         /\ NextLanes \subseteq TransitionLanes \/ NextLanes \subseteq SyncUpdateLanes
         /\ SyncLane \in root.pendingLanes => SyncLane \in NextLanes
<1>. DEFINE C == Candidates(root)
<1>1. root \in RootRecord(UsedLanes) /\ C \subseteq UsedLanes
  BY CandidatesType DEF TypeInv
<1>2. C # {} /\ NextLanes = HighestPriorityLanes(C)
  BY DEF NextLanes, GetNextLanes
<1>3. GetNextLanes(root, NextLanes) = NextLanes
  BY <1>2 DEF GetNextLanes
<1>4. SyncLane \in root.pendingLanes => SyncLane \in C
  <2>1. SyncLane \notin root.suspendedLanes /\ SyncLane \in NonIdleLanes
    BY LanesInUse DEF LanesInv, NonIdleLanes, SyncLane
  <2>. QED  BY <2>1 DEF Candidates
<1>. HIDE DEF C
<1>5. C \in SUBSET (SyncLane..IdleLane)
  BY <1>1, LanesInUse
<1>6. SyncLane \in C => SyncLane \in NextLanes
  BY <1>2, <1>5, HighestPriorityLanesAreUrgent
<1>7. CASE C \cap SyncUpdateLanes # {}
  BY <1>2, <1>3, <1>4, <1>6, <1>7 DEF HighestPriorityLanes
<1>8. CASE C \cap SyncUpdateLanes = {}
  <2>1. C \subseteq TransitionLanes
    BY <1>1, <1>8, EventLanesAssumption, LanesInUse DEF UsedLanes, SyncUpdateLanes
  <2>2. HighestPriorityLane(C) \in C
    BY <1>2, <1>5, HighestPriorityLaneIsLeast DEF SyncLane, IdleLane
  <2>3. NextLanes = C \cap TransitionLanes
    <3>1. HighestPriorityLane(C) \in TransitionLanes
      BY <2>1, <2>2
    <3>2. HighestPriorityLane(C) \notin RetryLanes /\ HighestPriorityLane(C) # DeferredLane
      BY <3>1 DEF TransitionLanes, RetryLanes, DeferredLane
    <3>. QED  BY <1>2, <1>8, <3>1, <3>2 DEF HighestPriorityLanes
  <2>. QED  BY <1>3, <1>4, <1>6, <2>3
<1>. QED  BY <1>7, <1>8

LEMMA PrepareFreshStackKeepsWait ==
  ASSUME TypeInv, WaitInv, PrepareFreshStack
  PROVE  WaitInv'
<1>1. /\ UpdatesByHook /\ HoldInv /\ OrderInv /\ LanesInv /\ SyncInv /\ ScopeInv
      /\ ~inTransition /\ ~microtask
      /\ UNCHANGED <<log, status, inScope, root, inTransition, microtask, scope>>
      /\ wipLanes' = NextLanes /\ renderLanes' = GetEntangledLanes(root, NextLanes)
      /\ pc' = "started" /\ seen' = Len(log) /\ concurrentQueues' = <<>>
      /\ NextLanes \notin {{}, wipLanes}
  BY DEF WaitInv, PrepareFreshStack, RenderSteps, FinishQueueing, actionVars
<1>2. /\ current'.hooks = current.hooks /\ current.lanes \subseteq current'.lanes
      /\ pending' = Enqueued(pending, concurrentQueues)
  <2>1. LanesOf(concurrentQueues) \in SUBSET UsedLanes
    BY TypeInvParts, LanesOfType DEF QueuesOK
  <2>. QED  BY <2>1, TypeInvParts, MarkedFibers DEF PrepareFreshStack, FinishQueueing, QueuesOK
<1>3. ASSUME NEW h \in Hooks
      PROVE  /\ CurrentEntries(h)' = CurrentEntries(h)
             /\ ToSet(current'.hooks[h].baseQueue) \cup ToSet(pending'[h]) = CurrentEntries(h)
  <2>1. ToSet(pending'[h]) = ToSet(pending[h]) \cup {e \in ToSet(concurrentQueues) : e.hook = h}
    BY <1>2, TypeInvParts, EnqueuedEntries DEF QueuesOK
  <2>2. ToSet(concurrentQueues') = {}
    BY <1>1, EmptyToSet
  <2>. QED  BY <1>2, <2>1, <2>2 DEF CurrentEntries, QueueEntries
<1>4. UpdatesByHook'
  BY <1>1 DEF UpdatesByHook
<1>5. HoldInv'
  <2>1. ASSUME NEW u \in DOMAIN log PROVE IsHeld(CurrentEntries(log[u].hook), log[u], status[u])'
    <3>1. PICK h : h = log[u].hook
      OBVIOUS
    <3>2. IsHeld(CurrentEntries(h), log[u], status[u])
      BY <1>1, <3>1 DEF HoldInv
    <3>3. CASE h = "other"
      BY <1>1, <3>1, <3>3 DEF IsHeld
    <3>4. CASE h \in Hooks
      <4>1. CurrentEntries(log[u].hook)' = CurrentEntries(h)
        BY <1>1, <1>3, <3>1, <3>4 DEF CurrentEntries, QueueEntries
      <4>. QED  BY <1>1, <3>2, <4>1
    <3>. QED  BY <3>1, <3>3, <3>4, UpdateInLog
  <2>. QED  BY <1>1, <2>1 DEF HoldInv
<1>6. OrderInv'
  <2>1. \A h \in Hooks : \A e \in CurrentEntries(h) : e.id <= Len(log)
    BY <1>1 DEF OrderInv
  <2>2. ToSet(concurrentQueues') = {}
    BY <1>1, EmptyToSet
  <2>. QED  BY <1>1, <1>3, <2>1, <2>2 DEF OrderInv
<1>7. NextLanes \subseteq renderLanes'
  BY <1>1 DEF GetEntangledLanes
<1>8. LanesInv'
  <2>1. /\ GetNextLanes(root, NextLanes) = NextLanes
        /\ NextLanes \subseteq TransitionLanes \/ NextLanes \subseteq SyncUpdateLanes
    BY <1>1, NewLanes
  <2>2. \A l \in UsedLanes : root.entanglements[l] \subseteq TransitionLanes
    BY LanesInUse, TypeInvParts DEF LanesOK
  <2>3. NextLanes \subseteq UsedLanes
    BY NextLanesInUse
  <2>4. NextLanes \subseteq TransitionLanes => renderLanes' \subseteq TransitionLanes
    BY <1>1, <2>2, <2>3 DEF GetEntangledLanes
  <2>5. NextLanes \subseteq SyncUpdateLanes => renderLanes' = NextLanes
    <3>1. SyncUpdateLanes \cap TransitionLanes = {}
      BY DEF SyncUpdateLanes, TransitionLanes, SyncLane, InputContinuousLane, DefaultLane
    <3>. QED  BY <1>1, <2>3, <3>1 DEF GetEntangledLanes, LanesInv
  <2>6. NextLanes' = wipLanes'
    BY <1>1, <2>1 DEF NextLanes
  <2>. QED  BY <1>1, <2>1, <2>4, <2>5, <2>6 DEF LanesInv, RendersEvents
<1>9. SyncInv'
  <2>1. ASSUME NEW u \in DOMAIN log, log[u].hook = "optimistic", status[u] = "queued"
        PROVE  /\ SyncLane \in root.pendingLanes /\ SyncLane \in current'.lanes
               /\ SyncLane \in renderLanes'
    <3>1. SyncLane \in root.pendingLanes /\ SyncLane \in NextLanes
      BY <1>1, <2>1, NewLanes DEF SyncInv
    <3>2. ~(pc = "begun" /\ SyncLane \in renderLanes) => SyncLane \in current.lanes
      BY <1>1, <2>1 DEF SyncInv
    <3>3. ~(pc = "begun" /\ SyncLane \in renderLanes)
      <4>1. SUFFICES ASSUME pc = "begun", SyncLane \in renderLanes PROVE FALSE
        OBVIOUS
      <4>2. RendersEvents
        BY <1>1, <4>1, LanesInUse DEF LanesInv, RendersEvents
      <4>. QED  BY <1>1, <4>2 DEF LanesInv
    <3>. QED  BY <1>2, <1>7, <3>1, <3>2, <3>3
  <2>. QED  BY <1>1, <2>1 DEF SyncInv
<1>10. ScopeInv'
  BY <1>1, RenderKeepsScope
<1>11. ReadInv'
  BY <1>1 DEF ReadInv
<1>. QED  BY <1>4, <1>5, <1>6, <1>8, <1>9, <1>10, <1>11 DEF WaitInv

LEMMA BailOutKeepsWait ==
  ASSUME TypeInv, WaitInv, BailOut
  PROVE  WaitInv'
<1>1. /\ UpdatesByHook /\ HoldInv /\ OrderInv /\ LanesInv /\ SyncInv /\ ScopeInv
      /\ UNCHANGED <<log, status, seen, inScope, concurrentQueues, pending, current, root,
                     wipLanes, renderLanes, inTransition, microtask, scope>>
      /\ ~inTransition /\ pc = "started" /\ pc' = "skipped" /\ wip' = current
      /\ current.lanes \cap renderLanes = {}
  BY DEF WaitInv, BailOut, RenderSteps, historyVars, queueVars, actionVars
<1>2. \A h : CurrentEntries(h)' = CurrentEntries(h)
  BY <1>1 DEF CurrentEntries, QueueEntries
<1>3. UpdatesByHook'
  BY <1>1 DEF UpdatesByHook
<1>4. HoldInv'
  <2>1. \A u \in DOMAIN log : IsHeld(CurrentEntries(log[u].hook), log[u], status[u])'
    BY <1>1 DEF HoldInv, CurrentEntries, QueueEntries
  <2>. QED  BY <1>1, <2>1 DEF HoldInv
<1>5. OrderInv'
  BY <1>1, <1>2 DEF OrderInv
<1>6. LanesInv'
  BY <1>1 DEF LanesInv, RendersEvents, NextLanes
<1>7. SyncInv'
  BY <1>1 DEF SyncInv
<1>8. ScopeInv'
  BY <1>1, RenderKeepsScope
<1>9. ReadInv'
  BY <1>1 DEF ReadInv
<1>. QED  BY <1>3, <1>4, <1>5, <1>6, <1>7, <1>8, <1>9 DEF WaitInv

(* The render that suspends is for the lane of a scope, a transition's: no *)
(* optimistic update that is still queued is among those it has taken.     *)
LEMMA SuspendKeepsWait ==
  ASSUME TypeInv, WaitInv, NEW hooks \in SUBSET Hooks, NEW lanes, Suspend(hooks, lanes),
         IsOpen(scope), scope.lane \in renderLanes, pc # "idle", ~inTransition,
         UNCHANGED <<historyVars, inTransition, microtask>>
  PROVE  WaitInv'
<1>1. /\ UpdatesByHook /\ HoldInv /\ OrderInv /\ LanesInv /\ SyncInv /\ ScopeInv
      /\ UNCHANGED <<log, status, seen, inScope, inTransition, microtask>>
      /\ concurrentQueues' = <<>> /\ pc' = "idle"
      /\ root' = MarkRootSuspended(root, wipLanes \ touched)
      /\ scope' = Listen(scope, wipLanes)
  BY DEF WaitInv, Suspend, historyVars
<1>2. QueuesOK /\ LanesOK /\ ScopeOK
  BY TypeInvParts
<1>3. wipLanes \cup renderLanes \subseteq TransitionLanes
  <2>1. scope.lane \in TransitionLanes
    BY <1>2, LanesInUse DEF ScopeOK, Scopes, IsOpen
  <2>2. SyncUpdateLanes \cap TransitionLanes = {}
    BY DEF SyncUpdateLanes, TransitionLanes, SyncLane, InputContinuousLane, DefaultLane
  <2>. QED  BY <1>1, <2>1, <2>2 DEF LanesInv
<1>4. /\ root'.pendingLanes = root.pendingLanes
      /\ root'.suspendedLanes \subseteq TransitionLanes
      /\ root'.entanglements = root.entanglements
  BY <1>1, <1>2, <1>3 DEF LanesOK, RootRecord, MarkRootSuspended, LanesInv
<1>5. /\ current.lanes \subseteq current'.lanes
      /\ \A h \in Hooks :
           current'.hooks[h].baseQueue = IF h \in hooks THEN Merged(h)
                                         ELSE current.hooks[h].baseQueue
  <2>. DEFINE marked == Mark(current, LanesOf(concurrentQueues))
              newHooks == [h \in Hooks |->
                 IF h \in hooks THEN [marked.hooks[h] EXCEPT !.baseQueue = Merged(h)]
                 ELSE marked.hooks[h]]
  <2>1. LanesOf(concurrentQueues) \in SUBSET UsedLanes
    BY <1>2, LanesOfType DEF QueuesOK
  <2>2. /\ marked.hooks = current.hooks /\ current.lanes \subseteq marked.lanes
        /\ marked \in Fiber
    BY <1>2, <2>1, MarkedFibers, MarkType DEF QueuesOK
  <2>3. current' = [marked EXCEPT !.hooks = newHooks]
    BY DEF Suspend
  <2>. HIDE DEF marked
  <2>4. \A h \in Hooks : newHooks[h].baseQueue = IF h \in hooks THEN Merged(h)
                                                 ELSE current.hooks[h].baseQueue
    BY <2>2, MergedType DEF Hook
  <2>. HIDE DEF newHooks
  <2>. QED  BY <2>2, <2>3, <2>4 DEF Fiber
<1>6. ASSUME NEW h \in Hooks PROVE CurrentEntries(h)' = CurrentEntries(h)
  <2>. DEFINE left == [g \in Hooks |-> IF g \in hooks THEN <<>> ELSE pending[g]]
  <2>1. left \in [Hooks -> Seq(Update)]
    BY MergedType, EmptySeq
  <2>2. pending' = Enqueued(left, concurrentQueues)
    BY DEF Suspend
  <2>3. left[h] = IF h \in hooks THEN <<>> ELSE pending[h]
    OBVIOUS
  <2>. HIDE DEF left
  <2>4. ToSet(pending'[h]) = ToSet(left[h]) \cup {e \in ToSet(concurrentQueues) : e.hook = h}
    <3>1. concurrentQueues \in Seq(Update)
      BY <1>2 DEF QueuesOK
    <3>2. ToSet(Enqueued(left, concurrentQueues)[h])
            = ToSet(left[h]) \cup {e \in ToSet(concurrentQueues) : e.hook = h}
      BY <2>1, <3>1, EnqueuedEntries
    <3>. QED  BY <2>2, <3>2
  <2>5. ToSet(concurrentQueues') = {} /\ ToSet(<<>>) = {}
    BY <1>1, EmptyToSet
  <2>6. /\ ToSet(Merged(h)) = ToSet(current.hooks[h].baseQueue) \cup ToSet(pending[h])
        /\ CurrentEntries(h)
             = ToSet(Merged(h)) \cup {e \in ToSet(concurrentQueues) : e.hook = h}
    BY EntriesType
  <2>7. CurrentEntries(h)' = ToSet(current'.hooks[h].baseQueue) \cup ToSet(pending'[h])
    BY <2>5 DEF CurrentEntries, QueueEntries
  <2>. QED  BY <1>5, <2>3, <2>4, <2>5, <2>6, <2>7
<1>7. UpdatesByHook'
  BY <1>1 DEF UpdatesByHook
<1>8. HoldInv'
  <2>1. ASSUME NEW u \in DOMAIN log PROVE IsHeld(CurrentEntries(log[u].hook), log[u], status[u])'
    <3>1. PICK h : h = log[u].hook
      OBVIOUS
    <3>2. IsHeld(CurrentEntries(h), log[u], status[u])
      BY <1>1, <3>1 DEF HoldInv
    <3>3. CASE h = "other"
      BY <1>1, <3>1, <3>3 DEF IsHeld
    <3>4. CASE h \in Hooks
      <4>1. CurrentEntries(log[u].hook)' = CurrentEntries(h)
        BY <1>1, <1>6, <3>1, <3>4 DEF CurrentEntries, QueueEntries
      <4>. QED  BY <1>1, <3>2, <4>1
    <3>. QED  BY <3>1, <3>3, <3>4, UpdateInLog
  <2>. QED  BY <1>1, <2>1 DEF HoldInv
<1>9. OrderInv'
  BY <1>1, <1>6 DEF OrderInv
<1>10. LanesInv'
  BY <1>1, <1>4 DEF LanesInv, RendersEvents
<1>11. SyncInv'
  <2>1. SyncLane \notin renderLanes
    BY <1>3, LanesInUse
  <2>. QED  BY <1>1, <1>4, <1>5, <2>1 DEF SyncInv
<1>12. ScopeInv'
  <2>1. scope'.lane = scope.lane
    BY <1>1, <1>2 DEF Listen, ScopeOK, Scopes
  <2>. QED  BY <1>1, <2>1, RenderKeepsScope
<1>13. ReadInv'
  BY <1>1 DEF ReadInv
<1>. QED  BY <1>7, <1>8, <1>9, <1>10, <1>11, <1>12, <1>13 DEF WaitInv

(* What a render makes of an update, if the component is not skipped.      *)
RenderedStatus(u) ==
  IF u > seen \/ status[u] = "dropped" THEN status[u]
  ELSE IF log[u].revertLane \in renderLanes THEN "dropped"
  ELSE IF log[u].lane \in renderLanes THEN "shown"
  ELSE status[u]

(* The entry of an update that the render has seen is in the queue that it *)
(* processes.                                                              *)
LEMMA TakenEntry ==
  ASSUME TypeInv, UpdatesByHook, HoldInv, OrderInv, pc = "started",
         NEW u \in DOMAIN log, log[u].hook \in Hooks,
         status[u] # "dropped", ~(status[u] = "shown" /\ log[u].hook = "state")
  PROVE  \E e \in Update :
           /\ IsEntry(e, log[u], status[u]) /\ e.id = u
           /\ u <= seen => e \in ToSet(Merged(log[u].hook))
           /\ u > seen => e \in ToSet(concurrentQueues) /\ e.hook = log[u].hook
<1>1. PICK h \in Hooks : h = log[u].hook
  OBVIOUS
<1>2. PICK e \in CurrentEntries(h) : IsEntry(e, log[u], status[u])
  <2>1. IsHeld(CurrentEntries(h), log[u], status[u])
    BY <1>1 DEF HoldInv
  <2>. QED  BY <1>1, <2>1 DEF IsHeld, Hooks
<1>3. e \in Update /\ e.id = u
  BY <1>2, EntriesType DEF IsEntry, UpdatesByHook
<1>4. /\ ToSet(Merged(h)) = ToSet(current.hooks[h].baseQueue) \cup ToSet(pending[h])
      /\ CurrentEntries(h)
           = ToSet(Merged(h)) \cup {x \in ToSet(concurrentQueues) : x.hook = h}
  BY EntriesType
<1>5. /\ \A x \in ToSet(Merged(h)) : x.id <= seen
      /\ \A x \in ToSet(concurrentQueues) : x.id > seen
  BY <1>4 DEF OrderInv
<1>6. u \in Nat /\ seen \in Nat
  BY TypeInvParts, LenProperties DEF LogOK
<1>7. u <= seen => e \in ToSet(Merged(h))
  BY <1>2, <1>3, <1>4, <1>5, <1>6
<1>8. u > seen => e \in ToSet(concurrentQueues) /\ e.hook = h
  BY <1>2, <1>3, <1>4, <1>5, <1>6
<1>. QED  BY <1>1, <1>2, <1>3, <1>7, <1>8

(* No update is lost: one that still waits is in the new queue, or among   *)
(* those queued since.                                                     *)
LEMMA ProcessedQueueHolds ==
  ASSUME TypeInv, UpdatesByHook, HoldInv, OrderInv, pc = "started",
         NEW u \in DOMAIN log, NEW h \in Hooks, log[u].hook = h, NEW base \in State
  PROVE  IsHeld(ToSet(ProcessQueue(Merged(h), base).baseQueue)
                  \cup {e \in ToSet(concurrentQueues) : e.hook = h},
                log[u], RenderedStatus(u))
<1>. DEFINE queue == ToSet(ProcessQueue(Merged(h), base).baseQueue)
            queued == {e \in ToSet(concurrentQueues) : e.hook = h}
<1>. SUFFICES IsHeld(queue \cup queued, log[u], RenderedStatus(u))
  OBVIOUS
<1>1. /\ log[u] \in Update /\ status[u] \in {"queued", "shown", "dropped"}
      /\ u \in Nat /\ seen \in Nat
  BY UpdateInLog
<1>2. NoLane \notin renderLanes
  BY TypeInvParts, LanesInUse DEF LanesOK
<1>3. CASE status[u] = "dropped"
  BY <1>3 DEF RenderedStatus, IsHeld
<1>4. CASE status[u] = "shown" /\ h = "state"
  <2>1. log[u].revertLane \notin renderLanes
    BY <1>2, <1>4 DEF UpdatesByHook
  <2>2. RenderedStatus(u) = "shown"
    BY <1>4, <2>1 DEF RenderedStatus
  <2>. QED  BY <1>4, <2>2 DEF IsHeld
<1>5. CASE status[u] # "dropped" /\ ~(status[u] = "shown" /\ h = "state")
  <2>1. PICK e \in Update :
          /\ IsEntry(e, log[u], status[u]) /\ e.id = u
          /\ u <= seen => e \in ToSet(Merged(h))
          /\ u > seen => e \in ToSet(concurrentQueues) /\ e.hook = h
    BY <1>5, TakenEntry
  <2>2. CASE u > seen
    <3>1. RenderedStatus(u) = status[u] /\ e \in queued
      BY <2>1, <2>2 DEF RenderedStatus
    <3>. QED  BY <2>1, <3>1, HeldEntry
  <2>3. CASE u <= seen
    <3>. DEFINE Rendered == e.lane \in renderLanes \cup {NoLane}
                applied == [e EXCEPT !.lane = NoLane]
    <3>1. /\ ~Rendered => e \in queue
          /\ Rendered /\ e.revertLane \notin renderLanes \cup {NoLane} => applied \in queue
      <4>1. Merged(h) \in Seq(Update) /\ e \in ToSet(Merged(h))
        BY <2>1, <2>3, MergedType
      <4>. QED  BY <1>2, <4>1, ProcessQueueEntries
    <3>. HIDE DEF queue
    <3>2. /\ applied.id = e.id /\ applied.revertLane = e.revertLane
          /\ applied.lane = NoLane
      BY DEF Update
    <3>. HIDE DEF applied
    <3>3. /\ e.id = log[u].id /\ e.revertLane = log[u].revertLane
          /\ e.lane = IF status[u] = "queued" THEN log[u].lane ELSE NoLane
      BY <2>1 DEF IsEntry
    <3>4. RenderedStatus(u) = IF log[u].revertLane \in renderLanes THEN "dropped"
                              ELSE IF log[u].lane \in renderLanes THEN "shown"
                              ELSE status[u]
      <4>1. ~(u > seen)
        BY <1>1, <2>3
      <4>. QED  BY <1>5, <4>1 DEF RenderedStatus
    <3>5. CASE log[u].revertLane \in renderLanes
      BY <3>4, <3>5 DEF IsHeld
    <3>6. CASE log[u].revertLane \notin renderLanes /\ h = "state"
      <4>1. status[u] = "queued" /\ log[u].lane # NoLane
        BY <1>1, <1>5, <3>6 DEF UpdatesByHook
      <4>2. CASE log[u].lane \in renderLanes
        BY <3>4, <3>6, <4>2 DEF IsHeld
      <4>3. CASE log[u].lane \notin renderLanes
        <5>1. e \in queue /\ RenderedStatus(u) = "queued"
          BY <3>1, <3>3, <3>4, <3>6, <4>1, <4>3
        <5>2. IsEntry(e, log[u], "queued")
          BY <2>1, <4>1
        <5>. QED  BY <5>1, <5>2, HeldEntry
      <4>. QED  BY <4>2, <4>3
    <3>7. CASE log[u].revertLane \notin renderLanes /\ h = "optimistic"
      <4>1. log[u].lane = SyncLane /\ log[u].revertLane # NoLane
        BY <3>7 DEF UpdatesByHook
      <4>2. CASE Rendered
        <5>1. applied \in queue
          BY <3>1, <3>3, <3>7, <4>1, <4>2
        <5>2. RenderedStatus(u) = "shown"
          <6>1. status[u] = "queued" => log[u].lane \in renderLanes
            BY <3>3, <4>1, <4>2, LanesInUse
          <6>. QED  BY <1>1, <1>5, <3>4, <3>7, <6>1
        <5>3. IsEntry(applied, log[u], "shown")
          BY <3>2, <3>3 DEF IsEntry
        <5>. QED  BY <5>1, <5>2, <5>3, HeldEntry
      <4>3. CASE ~Rendered
        <5>1. status[u] = "queued" /\ log[u].lane \notin renderLanes
          BY <1>1, <1>5, <3>3, <4>3
        <5>2. e \in queue /\ RenderedStatus(u) = "queued"
          BY <3>1, <3>4, <3>7, <4>3, <5>1
        <5>3. IsEntry(e, log[u], "queued")
          BY <2>1, <5>1
        <5>. QED  BY <5>2, <5>3, HeldEntry
      <4>. QED  BY <4>2, <4>3
    <3>. QED  BY <3>5, <3>6, <3>7 DEF Hooks
  <2>. QED  BY <1>1, <2>2, <2>3
<1>. QED  BY <1>3, <1>4, <1>5

(* A hook that does not suspend, of a render for the open scope's lane,    *)
(* keeps the value on the screen if there is an update it would show or    *)
(* drop.                                                                   *)
LEMMA ReadKeepsValue ==
  ASSUME TypeInv, UpdatesByHook, HoldInv, OrderInv, SyncInv, ScopeInv, pc = "started",
         IsOpen(scope), NEW u \in inScope, u <= seen, status[u] # "dropped",
         scope.lane \in renderLanes, NEW h \in Hooks, log[u].hook = h,
         \/ h = "state" /\ status[u] = "queued"
         \/ h = "optimistic" /\ log[u].revertLane = scope.lane,
         NEW base \in State, ~Suspends(h, ProcessQueue(Merged(h), base))
  PROVE  ProcessQueue(Merged(h), base).state = Value(h)
<1>1. u \in DOMAIN log /\ NoLane \notin renderLanes
  BY TypeInvParts, LanesInUse DEF LogOK, LanesOK
<1>2. PICK e \in Update : IsEntry(e, log[u], status[u]) /\ e \in ToSet(Merged(h))
  <2>1. \E e \in Update :
          /\ IsEntry(e, log[u], status[u]) /\ e.id = u
          /\ u <= seen => e \in ToSet(Merged(log[u].hook))
          /\ u > seen => e \in ToSet(concurrentQueues) /\ e.hook = log[u].hook
    BY <1>1, TakenEntry
  <2>. QED  BY <2>1
<1>3. /\ e.revertLane = log[u].revertLane
      /\ e.lane = IF status[u] = "queued" THEN log[u].lane ELSE NoLane
  BY <1>2 DEF IsEntry
<1>4. PICK result : result = ProcessQueue(Merged(h), base)
  OBVIOUS
<1>5. LET Rendered == e.lane \in renderLanes \cup {NoLane}
      IN  /\ Rendered /\ e.revertLane = NoLane /\ e.lane = scope.lane
               => result.didReadFromAction
          /\ Rendered /\ e.revertLane \in renderLanes /\ e.revertLane = scope.lane
               => result.didReadFromAction
  BY <1>1, <1>2, <1>4, MergedType, ProcessQueueEntries
<1>6. result.didReadFromAction
  <2>1. CASE h = "state"
    <3>1. log[u].lane # NoLane /\ log[u].revertLane = NoLane
      BY <1>1, <2>1 DEF UpdatesByHook
    <3>2. log[u].lane = scope.lane
      BY <2>1, <3>1 DEF ScopeInv
    <3>. QED  BY <1>3, <1>5, <2>1, <3>1, <3>2
  <2>2. CASE h = "optimistic"
    <3>1. status[u] = "queued" => e.lane \in renderLanes
      <4>1. SUFFICES ASSUME status[u] = "queued" PROVE log[u].lane \in renderLanes
        BY <1>3
      <4>2. log[u].lane = SyncLane
        BY <1>1, <2>2 DEF UpdatesByHook
      <4>3. SyncLane \in renderLanes
        BY <1>1, <2>2, <4>1 DEF SyncInv
      <4>. QED  BY <4>2, <4>3
    <3>. QED  BY <1>3, <1>5, <2>2, <3>1
  <2>. QED  BY <2>1, <2>2 DEF Hooks
<1>. QED  BY <1>4, <1>6 DEF Suspends, Value

LEMMA CompleteKeepsWait ==
  ASSUME TypeInv, WaitInv, NEW base \in State, NEW passthrough \in State,
         NEW newProps \in BOOLEAN, NEW state, NEW optimistic,
         state = ProcessQueue(Merged("state"), base),
         optimistic = ProcessQueue(Merged("optimistic"), passthrough),
         ~Suspends("state", state), ~Suspends("optimistic", optimistic),
         Complete(state, optimistic, newProps), pc = "started", ~inTransition,
         UNCHANGED <<historyVars, inTransition, microtask>>
  PROVE  WaitInv'
<1>. DEFINE result == [state |-> state, optimistic |-> optimistic]
            bases == [state |-> base, optimistic |-> passthrough]
<1>1. /\ UpdatesByHook /\ HoldInv /\ OrderInv /\ LanesInv /\ SyncInv /\ ScopeInv
      /\ UNCHANGED <<log, status, seen, inScope, inTransition, microtask,
                     concurrentQueues, scope, root, wipLanes, renderLanes>>
      /\ pc' = "begun" /\ pending' = [h \in Hooks |-> <<>>]
  BY DEF WaitInv, Complete, historyVars
<1>2. ASSUME NEW h \in Hooks
      PROVE  /\ result[h] = ProcessQueue(Merged(h), bases[h]) /\ bases[h] \in State
             /\ ~Suspends(h, result[h])
  <2>1. CASE h = "state"
    BY <2>1
  <2>2. CASE h = "optimistic"
    BY <2>2
  <2>. QED  BY <2>1, <2>2 DEF Hooks
<1>3. ASSUME NEW h \in Hooks
      PROVE  /\ current'.hooks[h].baseQueue = Merged(h)
             /\ current'.hooks[h].memoizedState = current.hooks[h].memoizedState
             /\ wip'.hooks[h] = NewHook(result[h])
  <2>1. current.hooks[h] \in Hook
    BY MergedType
  <2>. HIDE DEF result
  <2>2. /\ current'.hooks[h] = [current.hooks[h] EXCEPT !.baseQueue = Merged(h)]
        /\ wip'.hooks[h] = NewHook(result[h])
    BY DEF Complete, result
  <2>. QED  BY <2>1, <2>2 DEF Hook
<1>. HIDE DEF result, bases
<1>4. ASSUME NEW h \in Hooks
      PROVE  /\ wip'.hooks[h].baseQueue = ProcessQueue(Merged(h), bases[h]).baseQueue
             /\ wip'.hooks[h].memoizedState = ProcessQueue(Merged(h), bases[h]).state
  <2>1. PICK r : r = result[h]
    OBVIOUS
  <2>2. NewHook(r).baseQueue = r.baseQueue /\ NewHook(r).memoizedState = r.state
    BY DEF NewHook
  <2>3. wip'.hooks[h] = NewHook(r) /\ r = ProcessQueue(Merged(h), bases[h])
    BY <1>2, <1>3, <2>1
  <2>. QED  BY <2>2, <2>3
<1>5. ASSUME NEW h \in Hooks
      PROVE  /\ QueueEntries(h)' = {e \in ToSet(concurrentQueues) : e.hook = h}
             /\ CurrentEntries(h)' = CurrentEntries(h)
             /\ WipEntries(h)' = ToSet(ProcessQueue(Merged(h), bases[h]).baseQueue)
                                   \cup {e \in ToSet(concurrentQueues) : e.hook = h}
  <2>1. ToSet(pending'[h]) = {}
    BY <1>1, EmptyToSet
  <2>2. QueueEntries(h)' = {e \in ToSet(concurrentQueues) : e.hook = h}
    BY <1>1, <2>1 DEF QueueEntries
  <2>3. CurrentEntries(h)' = ToSet(Merged(h)) \cup QueueEntries(h)'
    BY <1>3 DEF CurrentEntries
  <2>4. WipEntries(h)' = ToSet(ProcessQueue(Merged(h), bases[h]).baseQueue) \cup QueueEntries(h)'
    BY <1>4 DEF WipEntries
  <2>5. CurrentEntries(h) = ToSet(Merged(h)) \cup {e \in ToSet(concurrentQueues) : e.hook = h}
    BY EntriesType
  <2>. QED  BY <2>2, <2>3, <2>4, <2>5
<1>6. UpdatesByHook'
  BY <1>1 DEF UpdatesByHook
<1>7. HoldInv'
  <2>1. ASSUME NEW u \in DOMAIN log
        PROVE  /\ IsHeld(CurrentEntries(log[u].hook), log[u], status[u])'
               /\ IsHeld(WipEntries(log[u].hook), log[u], StatusAfter(u))'
    <3>1. PICK h : h = log[u].hook
      OBVIOUS
    <3>2. IsHeld(CurrentEntries(h), log[u], status[u])
      BY <1>1, <3>1 DEF HoldInv
    <3>3. StatusAfter(u)' = RenderedStatus(u)
      BY <1>1 DEF StatusAfter, RenderedStatus
    <3>4. CASE h = "other"
      BY <1>1, <3>1, <3>4 DEF IsHeld
    <3>5. CASE h \in Hooks
      <4>1. /\ CurrentEntries(log[u].hook)' = CurrentEntries(h)'
            /\ WipEntries(log[u].hook)' = WipEntries(h)'
        BY <1>1, <3>1 DEF CurrentEntries, WipEntries, QueueEntries
      <4>2. IsHeld(ToSet(ProcessQueue(Merged(h), bases[h]).baseQueue)
                     \cup {e \in ToSet(concurrentQueues) : e.hook = h},
                   log[u], RenderedStatus(u))
        BY <1>1, <1>2, <3>1, <3>5, ProcessedQueueHolds
      <4>3. IsHeld(WipEntries(h)', log[u], RenderedStatus(u))
        BY <1>5, <3>5, <4>2
      <4>4. IsHeld(CurrentEntries(h)', log[u], status[u])
        BY <1>5, <3>2, <3>5
      <4>. QED  BY <1>1, <3>3, <4>1, <4>3, <4>4
    <3>. QED  BY <3>1, <3>4, <3>5, UpdateInLog
  <2>. QED  BY <1>1, <2>1 DEF HoldInv
<1>8. OrderInv'
  <2>1. ASSUME NEW h \in Hooks
        PROVE  /\ \A e \in CurrentEntries(h)' : e.id <= Len(log)
               /\ \A e \in ToSet(current'.hooks[h].baseQueue) \cup ToSet(pending'[h]) : e.id <= seen
               /\ \A e \in ToSet(wip'.hooks[h].baseQueue) : e.id <= seen
    <3>1. \A e \in CurrentEntries(h)' : e.id <= Len(log)
      BY <1>1, <1>5 DEF OrderInv
    <3>2. \A e \in ToSet(Merged(h)) : e.id <= seen
      BY <1>1, EntriesType DEF OrderInv
    <3>3. ToSet(current'.hooks[h].baseQueue) \cup ToSet(pending'[h]) = ToSet(Merged(h))
      BY <1>1, <1>3, EmptyToSet
    <3>4. \A e \in ToSet(wip'.hooks[h].baseQueue) : \E m \in ToSet(Merged(h)) : m.id = e.id
      <4>1. NoLane \notin renderLanes
        BY TypeInvParts, LanesInUse DEF LanesOK
      <4>. QED  BY <1>2, <1>4, <4>1, MergedType, ProcessQueueEntries
    <3>. QED  BY <3>1, <3>2, <3>3, <3>4
  <2>2. \A e \in ToSet(concurrentQueues') : e.id > seen'
    BY <1>1 DEF OrderInv
  <2>. QED  BY <1>1, <2>1, <2>2 DEF OrderInv
<1>9. LanesInv'
  BY <1>1 DEF LanesInv, RendersEvents, NextLanes
<1>10. SyncInv'
  <2>1. current'.lanes = current.lanes \/ current'.lanes = current.lanes \ renderLanes
    BY DEF Complete
  <2>. QED  BY <1>1, <2>1 DEF SyncInv
<1>11. ScopeInv'
  BY <1>1, RenderKeepsScope
<1>12. ReadInv'
  <2>1. ASSUME IsOpen(scope), NEW u \in inScope, u <= seen, status[u] # "dropped",
               scope.lane \in renderLanes,
               \/ log[u].hook = "state" /\ status[u] = "queued"
               \/ log[u].hook = "optimistic" /\ log[u].revertLane = scope.lane
        PROVE  wip'.hooks[log[u].hook].memoizedState = current'.hooks[log[u].hook].memoizedState
    <3>1. PICK h \in Hooks : h = log[u].hook
      BY <2>1 DEF Hooks
    <3>2. ~Suspends(h, ProcessQueue(Merged(h), bases[h])) /\ bases[h] \in State
      BY <1>2
    <3>3. ProcessQueue(Merged(h), bases[h]).state = Value(h)
      BY <1>1, <2>1, <3>1, <3>2, ReadKeepsValue
    <3>. QED  BY <1>3, <1>4, <3>1, <3>3 DEF Value
  <2>. QED  BY <1>1, <2>1 DEF ReadInv, Value
<1>. QED  BY <1>6, <1>7, <1>8, <1>9, <1>10, <1>11, <1>12 DEF WaitInv

LEMMA RenderComponentKeepsWait ==
  ASSUME TypeInv, WaitInv, NEW newProps \in BOOLEAN, RenderComponent(newProps)
  PROVE  WaitInv'
<1>. DEFINE base == current.hooks["state"].baseState
            state == ProcessQueue(Merged("state"), base)
            passthrough == PassthroughBase(state.state)
            optimistic == ProcessQueue(Merged("optimistic"), passthrough)
<1>1. /\ Merged("state") \in Seq(Update) /\ Merged("optimistic") \in Seq(Update)
      /\ base \in State
  <2>1. current.hooks["state"] \in Hook
    BY MergedType DEF Hooks
  <2>. QED  BY <2>1, MergedType DEF Hook, Hooks
<1>2. passthrough \in State
  <2>1. state \in Computed
    BY <1>1, ProcessQueueType
  <2>. QED  BY <2>1 DEF PassthroughBase, Computed
<1>3. /\ pc = "started" /\ ~inTransition
      /\ UNCHANGED <<historyVars, inTransition, microtask>>
  BY DEF RenderComponent, RenderSteps
<1>4. \/ Suspends("state", state) /\ Suspend({"state"}, {})
      \/ Suspends("optimistic", optimistic) /\ Suspend(Hooks, {})
      \/ /\ ~Suspends("state", state) /\ ~Suspends("optimistic", optimistic)
         /\ Complete(state, optimistic, newProps)
  BY DEF RenderComponent
<1>. HIDE DEF base, passthrough
<1>5. NoLane \notin renderLanes
  BY TypeInvParts, LanesInUse DEF LanesOK
<1>6. CASE Suspends("state", state) /\ Suspend({"state"}, {})
  <2>1. scope.lane \in renderLanes \cup {NoLane}
    BY <1>1, <1>5, <1>6, ProcessQueueEntries DEF Suspends
  <2>2. IsOpen(scope) /\ scope.lane \in renderLanes
    BY <1>6, <2>1 DEF Suspends, IsOpen
  <2>3. {"state"} \in SUBSET Hooks
    BY DEF Hooks
  <2>. QED  BY <1>3, <1>6, <2>2, <2>3, SuspendKeepsWait
<1>7. CASE Suspends("optimistic", optimistic) /\ Suspend(Hooks, {})
  <2>1. scope.lane \in renderLanes \cup {NoLane}
    BY <1>1, <1>2, <1>5, <1>7, ProcessQueueEntries DEF Suspends
  <2>2. IsOpen(scope) /\ scope.lane \in renderLanes
    BY <1>7, <2>1 DEF Suspends, IsOpen
  <2>. QED  BY <1>3, <1>7, <2>2, SuspendKeepsWait
<1>8. CASE /\ ~Suspends("state", state) /\ ~Suspends("optimistic", optimistic)
           /\ Complete(state, optimistic, newProps)
  <2>. HIDE DEF state
  <2>1. state = ProcessQueue(Merged("state"), base)
    BY DEF state
  <2>. QED  BY <1>1, <1>2, <1>3, <1>8, <2>1, CompleteKeepsWait
<1>. QED  BY <1>4, <1>6, <1>7, <1>8

LEMMA SuspendInOtherKeepsWait ==
  ASSUME TypeInv, WaitInv, SuspendInOther
  PROVE  WaitInv'
<1>1. /\ IsOpen(scope) /\ scope.lane \in renderLanes /\ pc # "idle" /\ ~inTransition
      /\ UNCHANGED <<historyVars, inTransition, microtask>>
      /\ Suspend({}, wip.lanes)
  BY DEF SuspendInOther, OtherSuspends, RenderSteps
<1>2. {} \in SUBSET Hooks
  OBVIOUS
<1>. QED  BY <1>1, <1>2, SuspendKeepsWait

(* What was queued since the render started is still to do.                *)
LEMMA CommitKeepsWait ==
  ASSUME TypeInv, WaitInv, Commit
  PROVE  WaitInv'
<1>1. /\ UpdatesByHook /\ HoldInv /\ OrderInv /\ LanesInv /\ SyncInv /\ ScopeInv
      /\ UNCHANGED <<log, seen, inScope, inTransition, microtask, scope>>
      /\ pc \in {"begun", "skipped"} /\ ~inTransition /\ pc' = "idle"
      /\ concurrentQueues' = <<>> /\ pending' = Enqueued(pending, concurrentQueues)
      /\ current' = Mark(wip, LanesOf(concurrentQueues))
      /\ status' = [u \in DOMAIN status |-> StatusAfter(u)]
      /\ root' = MarkRootFinished(root, current'.lanes \cup OtherLanes(status'))
  BY DEF WaitInv, Commit, RenderSteps, actionVars
<1>2. LogOK /\ QueuesOK /\ LanesOK /\ DOMAIN status = DOMAIN log
  BY TypeInvParts, LenProperties DEF LogOK
<1>3. \A u \in DOMAIN log : status'[u] = StatusAfter(u)
  BY <1>1, <1>2
<1>4. ASSUME NEW u \in DOMAIN log
      PROVE  /\ log[u] \in Update /\ u \in Nat /\ seen \in Nat
             /\ status[u] \in {"queued", "shown", "dropped"}
             /\ log[u].hook \in Hooks \cup {"other"}
  BY UpdateInLog
<1>5. NoLane \notin renderLanes
  BY <1>2, LanesInUse DEF LanesOK
<1>6. current'.hooks = wip.hooks /\ LanesOf(concurrentQueues) \subseteq current'.lanes
  <2>1. LanesOf(concurrentQueues) \in SUBSET UsedLanes
    BY <1>2, LanesOfType DEF QueuesOK
  <2>. QED  BY <1>1, <1>2, <2>1, MarkedFibers DEF QueuesOK
<1>7. ASSUME NEW h \in Hooks PROVE CurrentEntries(h)' = WipEntries(h)
  <2>1. ToSet(pending'[h]) = ToSet(pending[h]) \cup {e \in ToSet(concurrentQueues) : e.hook = h}
    BY <1>1, <1>2, EnqueuedEntries DEF QueuesOK
  <2>2. ToSet(concurrentQueues') = {}
    BY <1>1, EmptyToSet
  <2>. QED  BY <1>6, <2>1, <2>2 DEF CurrentEntries, WipEntries, QueueEntries
<1>8. UpdatesByHook'
  <2>1. ASSUME NEW u \in DOMAIN log, log[u].hook = "state"
        PROVE  /\ status'[u] \in {"queued", "shown"}
               /\ log[u].lane = NoLane => status'[u] = "shown"
    <3>1. /\ log[u].revertLane = NoLane /\ status[u] \in {"queued", "shown"}
          /\ log[u].lane = NoLane => status[u] = "shown"
      BY <1>1, <2>1 DEF UpdatesByHook
    <3>2. StatusAfter(u) \in {status[u], "shown"}
      BY <1>5, <3>1 DEF StatusAfter
    <3>. QED  BY <1>3, <3>1, <3>2
  <2>. QED  BY <1>1, <2>1 DEF UpdatesByHook
<1>9. HoldInv'
  <2>1. ASSUME NEW u \in DOMAIN log PROVE IsHeld(CurrentEntries(log[u].hook), log[u], status[u])'
    <3>1. PICK h : h = log[u].hook
      OBVIOUS
    <3>2. CASE h = "other"
      BY <1>1, <3>1, <3>2 DEF IsHeld
    <3>3. CASE h \in Hooks
      <4>1. CurrentEntries(log[u].hook)' = WipEntries(h)
        <5>1. CurrentEntries(log[u].hook)' = CurrentEntries(h)'
          BY <1>1, <3>1 DEF CurrentEntries, QueueEntries
        <5>. QED  BY <1>7, <3>3, <5>1
      <4>2. IsHeld(WipEntries(h), log[u], StatusAfter(u))
        <5>1. CASE pc = "begun"
          BY <1>1, <3>1, <5>1 DEF HoldInv
        <5>2. CASE pc = "skipped"
          <6>1. WipEntries(h) = CurrentEntries(h)
            BY <1>1, <5>2 DEF HoldInv, WipEntries, CurrentEntries
          <6>2. StatusAfter(u) = status[u]
            BY <3>1, <3>3, <5>2 DEF StatusAfter
          <6>3. IsHeld(CurrentEntries(h), log[u], status[u])
            BY <1>1, <3>1 DEF HoldInv
          <6>. QED  BY <6>1, <6>2, <6>3
        <5>. QED  BY <1>1, <5>1, <5>2
      <4>. QED  BY <1>1, <1>3, <4>1, <4>2
    <3>. QED  BY <1>4, <3>1, <3>2, <3>3
  <2>. QED  BY <1>1, <2>1 DEF HoldInv
<1>10. OrderInv'
  <2>1. ASSUME NEW h \in Hooks, NEW e \in WipEntries(h) PROVE e.id <= Len(log)
    <3>1. e \in Update /\ seen \in 0..Len(log) /\ Len(log) \in Nat
      BY <1>2, EntriesType, LenProperties DEF LogOK
    <3>2. e \in CurrentEntries(h) => e.id <= Len(log)
      BY <1>1 DEF OrderInv
    <3>3. e \in QueueEntries(h) => e \in CurrentEntries(h)
      BY DEF CurrentEntries
    <3>4. e \in ToSet(wip.hooks[h].baseQueue) => e.id <= seen \/ e \in CurrentEntries(h)
      BY <1>1 DEF OrderInv, HoldInv, CurrentEntries
    <3>5. e.id <= seen => e.id <= Len(log)
      BY <3>1 DEF Update
    <3>. QED  BY <3>2, <3>3, <3>4, <3>5 DEF WipEntries
  <2>. QED  BY <1>1, <1>7, <2>1 DEF OrderInv
<1>11. LanesInv'
  <2>1. /\ root'.suspendedLanes = {}
        /\ \A l \in UsedLanes : root'.entanglements[l] \subseteq root.entanglements[l]
    BY <1>1, <1>2 DEF LanesOK, RootRecord, MarkRootFinished
  <2>2. \A l \in UsedLanes \ TransitionLanes : root'.entanglements[l] = {}
    BY <1>1, <2>1 DEF LanesInv
  <2>. QED  BY <1>1, <2>1, <2>2 DEF LanesInv, RendersEvents
<1>12. SyncInv'
  <2>1. ASSUME NEW u \in DOMAIN log, log[u].hook = "optimistic", status'[u] = "queued"
        PROVE  SyncLane \in root'.pendingLanes /\ SyncLane \in current'.lanes
    <3>1. StatusAfter(u) = "queued" /\ status[u] = "queued"
      BY <1>3, <2>1 DEF StatusAfter
    <3>2. log[u].lane = SyncLane
      BY <1>1, <2>1 DEF UpdatesByHook
    <3>3. u > seen
      <4>1. ASSUME u <= seen PROVE FALSE
        <5>1. SyncLane \in renderLanes /\ pc # "skipped"
          BY <1>1, <2>1, <3>1, <4>1 DEF SyncInv
        <5>2. ~(u > seen)
          BY <1>4, <4>1
        <5>. QED  BY <3>1, <3>2, <5>1, <5>2 DEF StatusAfter
      <4>. QED  BY <1>4, <4>1
    <3>4. PICK e \in CurrentEntries("optimistic") : IsEntry(e, log[u], "queued")
      <4>1. IsHeld(CurrentEntries("optimistic"), log[u], "queued")
        BY <1>1, <2>1, <3>1 DEF HoldInv
      <4>. QED  BY <2>1, <4>1 DEF IsHeld
    <3>5. e.id > seen /\ e.lane = SyncLane /\ e \in Update
      <4>1. e.id = u /\ e.lane = SyncLane
        BY <1>1, <3>2, <3>4 DEF IsEntry, UpdatesByHook
      <4>. QED  BY <3>3, <3>4, <4>1, EntriesType DEF Hooks
    <3>6. e \in ToSet(concurrentQueues)
      <4>1. ASSUME e \in ToSet(current.hooks["optimistic"].baseQueue)
                           \cup ToSet(pending["optimistic"])
            PROVE  FALSE
        <5>1. e.id <= seen
          BY <1>1, <4>1 DEF OrderInv, Hooks
        <5>. QED  BY <1>4, <3>5, <5>1 DEF Update
      <4>. QED  BY <3>4, <4>1 DEF CurrentEntries, QueueEntries
    <3>7. SyncLane \in current'.lanes
      BY <1>6, <3>5, <3>6, LanesInUse DEF LanesOf
    <3>8. root'.pendingLanes = current'.lanes \cup OtherLanes(status')
      BY <1>1, <1>2 DEF LanesOK, RootRecord, MarkRootFinished
    <3>. QED  BY <3>7, <3>8
  <2>. QED  BY <1>1, <2>1 DEF SyncInv
<1>13. ScopeInv'
  BY <1>1, RenderKeepsScope
<1>14. ReadInv'
  BY <1>1 DEF ReadInv
<1>. QED  BY <1>8, <1>9, <1>10, <1>11, <1>12, <1>13, <1>14 DEF WaitInv

LEMMA WaitStep == TypeInv /\ WaitInv /\ [Next]_vars => WaitInv'
<1>. SUFFICES ASSUME TypeInv, WaitInv, [Next]_vars PROVE WaitInv'
  OBVIOUS
<1>1. CASE \/ \E kind \in Kinds, lane \in EventLanes : DispatchSetState(kind, lane)
           \/ DispatchOptimisticSetState
           \/ \E lane \in EventLanes : UpdateOther(lane)
           \/ StartTransition \/ FinishTransition \/ FinishAction \/ SettleAction
           \/ ProcessRootSchedule
  BY <1>1, EventKeepsWait
<1>2. CASE Render
  BY <1>2, PrepareFreshStackKeepsWait, BailOutKeepsWait, SuspendInOtherKeepsWait,
     CommitKeepsWait, RenderComponentKeepsWait DEF Render
<1>3. CASE UNCHANGED vars
  <2>1. UNCHANGED <<log, status, seen, inScope, concurrentQueues, pending, current, wip,
                    root, wipLanes, renderLanes, pc, inTransition, microtask,
                    currentEventTransitionLane, scope>>
    BY <1>3 DEF vars, historyVars, queueVars, fiberVars, renderVars, transitionVars,
       actionVars
  <2>2. /\ UpdatesByHook /\ HoldInv /\ OrderInv /\ LanesInv /\ SyncInv /\ ScopeInv
        /\ ReadInv
    BY DEF WaitInv
  <2>3. /\ UpdatesByHook' /\ SyncInv' /\ ScopeInv'
    BY <2>1, <2>2 DEF UpdatesByHook, SyncInv, ScopeInv
  <2>4. HoldInv'
    BY <2>1, <2>2 DEF HoldInv, CurrentEntries, WipEntries, QueueEntries, StatusAfter
  <2>5. OrderInv'
    BY <2>1, <2>2 DEF OrderInv, CurrentEntries, QueueEntries
  <2>6. LanesInv'
    BY <2>1, <2>2 DEF LanesInv, RendersEvents, NextLanes
  <2>7. ReadInv'
    BY <2>1, <2>2 DEF ReadInv, Value
  <2>. QED  BY <2>3, <2>4, <2>5, <2>6, <2>7 DEF WaitInv
<1>. QED  BY <1>1, <1>2, <1>3 DEF Next

(* Only a commit shows or drops an update that there was before.           *)
LEMMA StatusChanges ==
  ASSUME TypeInv, WaitInv, [Next]_vars, ~Commit, NEW u \in DOMAIN log
  PROVE  status'[u] = status[u]
<1>1. CASE \/ \E kind \in Kinds, lane \in EventLanes : DispatchSetState(kind, lane)
           \/ DispatchOptimisticSetState
           \/ \E lane \in EventLanes : UpdateOther(lane)
           \/ StartTransition \/ FinishTransition \/ FinishAction \/ SettleAction
           \/ ProcessRootSchedule
  <2>1. Event
    BY <1>1, EventKeepsWait
  <2>. QED  BY <2>1, LoggedUpdates
<1>2. CASE Render \/ UNCHANGED vars
  BY <1>2 DEF Render, PrepareFreshStack, BailOut, SuspendInOther, RenderComponent,
     vars, historyVars
<1>. QED  BY <1>1, <1>2 DEF Next

(* A commit for the lane of the open scope shows an update made in it, or  *)
(* drops one, only if it shows the value that was there before.            *)
LEMMA CommitWaits ==
  ASSUME TypeInv, WaitInv, Commit, IsOpen(scope), NEW u \in inScope,
         status[u] # status'[u],
         \/ log[u].hook = "state"
         \/ log[u].revertLane = scope.lane /\ status'[u] = "dropped"
  PROVE  Value(log[u].hook) = Value(log[u].hook)'
<1>1. /\ UpdatesByHook /\ ScopeInv /\ ReadInv
      /\ log' = log /\ current' = Mark(wip, LanesOf(concurrentQueues))
      /\ status' = [v \in DOMAIN status |-> StatusAfter(v)]
      /\ pc \in {"begun", "skipped"}
  BY DEF WaitInv, Commit
<1>2. QueuesOK /\ LanesOK /\ ScopeOK /\ DOMAIN status = DOMAIN log /\ u \in DOMAIN log
      /\ status[u] \in {"queued", "shown", "dropped"} /\ u \in Nat /\ seen \in Nat
  BY TypeInvParts, LenProperties, ElementOfSeq DEF LogOK
<1>3. status'[u] = StatusAfter(u) /\ NoLane \notin renderLanes
  BY <1>1, <1>2, LanesInUse DEF LanesOK
<1>4. log[u].hook \in Hooks
  BY <1>1 DEF ScopeInv
<1>5. u <= seen /\ status[u] # "dropped" /\ pc = "begun"
  BY <1>1, <1>2, <1>3, <1>4 DEF StatusAfter
<1>6. scope.lane \in renderLanes
      /\ \/ log[u].hook = "state" /\ status[u] = "queued"
         \/ log[u].hook = "optimistic" /\ log[u].revertLane = scope.lane
  <2>1. CASE log[u].hook = "state"
    <3>1. log[u].revertLane = NoLane /\ status[u] \in {"queued", "shown"}
          /\ (log[u].lane = NoLane => status[u] = "shown")
      BY <1>1, <1>2, <2>1 DEF UpdatesByHook
    <3>2. status[u] = "queued" /\ log[u].lane \in renderLanes
      BY <1>3, <3>1 DEF StatusAfter
    <3>3. log[u].lane = scope.lane
      BY <1>1, <1>3, <2>1, <3>2 DEF ScopeInv
    <3>. QED  BY <2>1, <3>2, <3>3
  <2>2. CASE log[u].hook = "optimistic"
    <3>1. log[u].revertLane = scope.lane /\ status'[u] = "dropped"
      BY <2>2
    <3>2. log[u].revertLane \in renderLanes
      BY <1>3, <3>1 DEF StatusAfter
    <3>. QED  BY <2>2, <3>1, <3>2
  <2>. QED  BY <1>4, <2>1, <2>2 DEF Hooks
<1>7. wip.hooks[log[u].hook].memoizedState = Value(log[u].hook)
  BY <1>1, <1>5, <1>6 DEF ReadInv
<1>8. current'.hooks = wip.hooks
  <2>1. LanesOf(concurrentQueues) \in SUBSET UsedLanes
    BY <1>2, LanesOfType DEF QueuesOK
  <2>. QED  BY <1>1, <1>2, <2>1, MarkedFibers DEF QueuesOK
<1>9. Value(log[u].hook)' = current'.hooks[log[u].hook].memoizedState
  BY <1>1 DEF Value
<1>. QED  BY <1>7, <1>8, <1>9

(* While the actions of a scope are on, no commit changes what the screen  *)
(* shows by applying an update to the state made in the scope, or by       *)
(* reverting an optimistic one that has the scope's lane.                  *)
THEOREM HookQueueActionUpdatesWait == Spec => ActionUpdatesWait
<1>1. TypeInv /\ WaitInv /\ [Next]_vars =>
        [IsOpen(scope) /\ IsOpen(scope') =>
           \A u \in inScope :
             /\ status[u] # status'[u]
             /\ \/ log[u].hook = "state"
                \/ log[u].revertLane = scope.lane /\ status'[u] = "dropped"
             => Value(log[u].hook) = Value(log[u].hook)']_vars
  <2>. SUFFICES ASSUME TypeInv, WaitInv, [Next]_vars, IsOpen(scope), NEW u \in inScope,
                       status[u] # status'[u],
                       \/ log[u].hook = "state"
                       \/ log[u].revertLane = scope.lane /\ status'[u] = "dropped"
                PROVE  Value(log[u].hook) = Value(log[u].hook)'
    OBVIOUS
  <2>1. u \in DOMAIN log
    BY TypeInvParts DEF LogOK
  <2>2. Commit
    BY <2>1, StatusChanges
  <2>. QED  BY <2>2, CommitWaits
<1>. QED  BY <1>1, TypeInit, TypeStep, WaitInit, WaitStep, PTL DEF Spec, ActionUpdatesWait
=============================================================================
