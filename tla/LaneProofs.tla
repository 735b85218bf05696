---------------------------- MODULE LaneProofs ----------------------------
(***************************************************************************)
(* What the operators on a root's lanes return, whatever the lanes in use. *)
(***************************************************************************)
EXTENDS Lanes, WellFoundedInduction, TLAPS

(* A root's lane fields, the lanes being members of L.                     *)
RootRecord(L) ==
  [pendingLanes : SUBSET L, suspendedLanes : SUBSET L, pingedLanes : SUBSET L,
   expiredLanes : SUBSET L, entangledLanes : SUBSET L,
   errorRecoveryDisabledLanes : SUBSET L,
   entanglements : [L -> SUBSET L],
   expirationTimes : [L -> {"none", "later", "reached"}]]

(* The lanes that nothing blocks, once idle work has been put off.         *)
Unblocked(rec) ==
  LET nonIdle == rec.pendingLanes \cap NonIdleLanes
  IN  (IF nonIdle # {} THEN nonIdle ELSE rec.pendingLanes) \ rec.suspendedLanes

(* Suspended lanes are pending, pinged lanes are suspended.                *)
Nested(rec) ==
  /\ rec.pingedLanes \subseteq rec.suspendedLanes
  /\ rec.suspendedLanes \subseteq rec.pendingLanes

-----------------------------------------------------------------------------
LEMMA LeastExists ==
  ASSUME NEW S \in SUBSET Nat, S # {}
  PROVE  \E m \in S : \A n \in S : m <= n
<1>1. PICK m \in S : \A n \in S : ~(<<n, m>> \in OpToRel(<, Nat))
  BY NatLessThanWellFounded, WFMin, Zenon
<1>2. \A n \in S : ~(n < m)
  BY <1>1 DEF OpToRel
<1>. QED  BY <1>2

(* getHighestPriorityLane: the lowest bit.                                 *)
LEMMA HighestPriorityLaneIsLeast ==
  ASSUME NEW lanes \in SUBSET Nat, lanes # {}
  PROVE  /\ HighestPriorityLane(lanes) \in lanes
         /\ \A m \in lanes : HighestPriorityLane(lanes) <= m
BY LeastExists DEF HighestPriorityLane

(* getHighestPriorityLanes: some of the lanes, the most urgent one among   *)
(* them.                                                                   *)
LEMMA HighestPriorityLanesAreUrgent ==
  ASSUME NEW lanes \in SUBSET (SyncLane..IdleLane), lanes # {}
  PROVE  /\ HighestPriorityLanes(lanes) \subseteq lanes
         /\ HighestPriorityLanes(lanes) # {}
         /\ SyncLane \in lanes <=> SyncLane \in HighestPriorityLanes(lanes)
<1>1. lanes \in SUBSET Nat
  BY DEF SyncLane, IdleLane
<1>2. /\ HighestPriorityLane(lanes) \in lanes
      /\ \A m \in lanes : HighestPriorityLane(lanes) <= m
  BY <1>1, HighestPriorityLaneIsLeast
<1>3. HighestPriorityLane(lanes) # DeferredLane
  BY <1>2 DEF SyncLane, IdleLane, DeferredLane
<1>4. CASE lanes \cap SyncUpdateLanes # {}
  BY <1>4 DEF HighestPriorityLanes, SyncUpdateLanes
<1>5. CASE lanes \cap SyncUpdateLanes = {}
  <2>1. SyncLane \notin lanes
    BY <1>5 DEF SyncUpdateLanes
  <2>2. CASE HighestPriorityLane(lanes) \in TransitionLanes
    <3>1. HighestPriorityLane(lanes) \notin RetryLanes
      BY <2>2 DEF TransitionLanes, RetryLanes
    <3>2. HighestPriorityLanes(lanes) = lanes \cap TransitionLanes
      BY <1>3, <1>5, <2>2, <3>1 DEF HighestPriorityLanes
    <3>. QED  BY <3>2, <2>1, <2>2, <1>2
  <2>3. CASE /\ HighestPriorityLane(lanes) \notin TransitionLanes
             /\ HighestPriorityLane(lanes) \in RetryLanes
    <3>1. HighestPriorityLanes(lanes) = lanes \cap RetryLanes
      BY <1>3, <1>5, <2>3 DEF HighestPriorityLanes
    <3>. QED  BY <3>1, <2>1, <2>3, <1>2
  <2>4. CASE /\ HighestPriorityLane(lanes) \notin TransitionLanes
             /\ HighestPriorityLane(lanes) \notin RetryLanes
    <3>1. HighestPriorityLanes(lanes) = {HighestPriorityLane(lanes)}
      BY <1>3, <1>5, <2>4 DEF HighestPriorityLanes
    <3>. QED  BY <3>1, <2>1, <1>2
  <2>. QED  BY <2>2, <2>3, <2>4
<1>. QED  BY <1>4, <1>5

(* Retries that are put off leave the most urgent lanes no more urgent.    *)
LEMMA HighestPriorityLanesWithoutRetries ==
  ASSUME NEW lanes \in SUBSET (SyncLane..IdleLane), NEW retries \in SUBSET RetryLanes,
         lanes \ retries # {}, NEW p \in Nat,
         \A l \in HighestPriorityLanes(lanes) : p <= l
  PROVE  \A l \in HighestPriorityLanes(lanes \ retries) : p <= l
<1>1. lanes \in SUBSET Nat /\ lanes # {}
  BY DEF SyncLane, IdleLane
<1>. DEFINE highest == HighestPriorityLane(lanes)
<1>2. highest \in lanes /\ \A m \in lanes : highest <= m
  BY <1>1, HighestPriorityLaneIsLeast
<1>3. HighestPriorityLanes(lanes \ retries) \subseteq lanes \ retries
  BY HighestPriorityLanesAreUrgent
<1>. HIDE DEF highest
<1>4. CASE lanes \cap SyncUpdateLanes # {}
  <2>1. (lanes \ retries) \cap SyncUpdateLanes = lanes \cap SyncUpdateLanes
    BY DEF SyncUpdateLanes, RetryLanes, SyncLane, InputContinuousLane, DefaultLane
  <2>. QED  BY <1>4, <2>1 DEF HighestPriorityLanes
<1>5. CASE lanes \cap SyncUpdateLanes = {}
  <2>1. highest \in HighestPriorityLanes(lanes)
    <3>1. highest # DeferredLane
      BY <1>2 DEF SyncLane, IdleLane, DeferredLane
    <3>. QED  BY <1>2, <1>5, <3>1 DEF HighestPriorityLanes, highest
  <2>2. p <= highest
    BY <2>1
  <2>3. \A m \in lanes : p <= m
    BY <1>1, <1>2, <2>2
  <2>. QED  BY <1>3, <2>3
<1>. QED  BY <1>4, <1>5

LEMMA CandidatesArePending ==
  ASSUME NEW rec, Nested(rec)
  PROVE  Candidates(rec) \subseteq rec.pendingLanes
BY DEF Candidates, Nested

LEMMA CandidatesType ==
  ASSUME NEW L, NEW rec \in RootRecord(L)
  PROVE  Candidates(rec) \subseteq L
BY DEF Candidates, RootRecord

(* getNextLanes returns either the lanes being rendered or the most urgent *)
(* candidates; and nothing only if there is no candidate.                  *)
LEMMA NextLanesAreUrgent ==
  ASSUME NEW rec, NEW w, Candidates(rec) \subseteq SyncLane..IdleLane
  PROVE  /\ GetNextLanes(rec, w) \subseteq w \cup Candidates(rec)
         /\ GetNextLanes(rec, w) = {} <=> Candidates(rec) = {}
<1>1. CASE Candidates(rec) = {}
  BY <1>1 DEF GetNextLanes
<1>2. CASE Candidates(rec) # {}
  <2>. DEFINE next == HighestPriorityLanes(Candidates(rec))
  <2>1. next \subseteq Candidates(rec) /\ next # {}
    BY <1>2, HighestPriorityLanesAreUrgent
  <2>2. \/ GetNextLanes(rec, w) = next
        \/ GetNextLanes(rec, w) = w /\ w # {}
    BY <1>2 DEF GetNextLanes
  <2>. QED  BY <1>2, <2>1, <2>2
<1>. QED  BY <1>1, <1>2

LEMMA NextLanesType ==
  ASSUME NEW L \in SUBSET (SyncLane..IdleLane), NEW rec \in RootRecord(L),
         NEW w \in SUBSET L
  PROVE  GetNextLanes(rec, w) \in SUBSET L
BY CandidatesType, NextLanesAreUrgent

LEMMA NextLanesArePending ==
  ASSUME NEW L \in SUBSET (SyncLane..IdleLane), NEW rec \in RootRecord(L),
         Nested(rec), NEW w \in SUBSET rec.pendingLanes
  PROVE  GetNextLanes(rec, w) \subseteq rec.pendingLanes
BY CandidatesType, CandidatesArePending, NextLanesAreUrgent

(* Whatever is being rendered, the sync lane is next if and only if it is  *)
(* a candidate: it is more urgent than any other, and lanes that are being *)
(* rendered are not kept if they are suspended.                            *)
LEMMA SyncLaneIsNext ==
  ASSUME NEW L \in SUBSET (SyncLane..IdleLane), NEW rec \in RootRecord(L),
         NEW w \in SUBSET rec.pendingLanes
  PROVE  SyncLane \in GetNextLanes(rec, w) <=> SyncLane \in Candidates(rec)
<1>. DEFINE C == Candidates(rec)
            next == HighestPriorityLanes(C)
<1>1. C \in SUBSET (SyncLane..IdleLane) /\ w \in SUBSET (SyncLane..IdleLane)
  BY CandidatesType DEF RootRecord
<1>2. CASE C = {}
  BY <1>2 DEF GetNextLanes
<1>3. CASE C # {}
  <2>1. next \subseteq C /\ next # {} /\ (SyncLane \in C <=> SyncLane \in next)
    BY <1>1, <1>3, HighestPriorityLanesAreUrgent
  <2>. HIDE DEF next, C
  <2>2. CASE GetNextLanes(rec, w) = next
    BY <2>1, <2>2 DEF C
  <2>3. CASE /\ GetNextLanes(rec, w) = w /\ w # {}
             /\ w \cap rec.suspendedLanes = {} /\ ~MayInterrupt(next, w)
    <3>1. SyncLane \in w => SyncLane \in C
      <4>1. SUFFICES ASSUME SyncLane \in w PROVE SyncLane \in Candidates(rec)
        BY DEF C
      <4>2. SyncLane \in (rec.pendingLanes \cap NonIdleLanes) \ rec.suspendedLanes
        BY <4>1, <2>3 DEF NonIdleLanes, SyncLane
      <4>. QED  BY <4>2 DEF Candidates
    <3>2. SyncLane \in C => SyncLane \in w
      <4>1. SUFFICES ASSUME SyncLane \in next, SyncLane \notin w PROVE FALSE
        BY <2>1
      <4>2. next \in SUBSET Nat /\ w \in SUBSET Nat
        BY <1>1, <2>1 DEF SyncLane, IdleLane
      <4>3. /\ HighestPriorityLane(next) \in next
            /\ HighestPriorityLane(next) <= SyncLane
        BY <4>1, <4>2, HighestPriorityLaneIsLeast
      <4>4. HighestPriorityLane(next) = SyncLane
        <5>1. HighestPriorityLane(next) \in SyncLane..IdleLane
          BY <4>3, <2>1, <1>1
        <5>. QED  BY <5>1, <4>3 DEF SyncLane, IdleLane
      <4>5. HighestPriorityLane(w) \in w
        BY <2>3, <4>2, HighestPriorityLaneIsLeast
      <4>6. SyncLane < HighestPriorityLane(w)
        <5>1. HighestPriorityLane(w) \in SyncLane..IdleLane
          BY <4>5, <1>1
        <5>2. HighestPriorityLane(w) # SyncLane
          BY <4>1, <4>5
        <5>. QED  BY <5>1, <5>2 DEF SyncLane, IdleLane
      <4>7. MayInterrupt(next, w)
        BY <4>4, <4>6 DEF MayInterrupt, SyncLane, DefaultLane
      <4>. QED  BY <4>7, <2>3
    <3>. QED  BY <3>1, <3>2, <2>3 DEF C
  <2>. QED  BY <1>3, <2>2, <2>3 DEF GetNextLanes, next, C
<1>. QED  BY <1>2, <1>3

-----------------------------------------------------------------------------
LEMMA MarkStarvedType ==
  ASSUME NEW L, NEW rec \in RootRecord(L)
  PROVE  MarkStarvedLanesAsExpired(rec) \in RootRecord(L)
<1>1. DOMAIN rec.expirationTimes = L
  BY DEF RootRecord
<1>. QED  BY <1>1 DEF MarkStarvedLanesAsExpired, RootRecord

(* Expiration does not change what is pending, suspended or pinged, and so *)
(* not what is next.                                                       *)
LEMMA MarkStarvedKeepsNextLanes ==
  ASSUME NEW L, NEW rec \in RootRecord(L)
  PROVE  LET marked == MarkStarvedLanesAsExpired(rec)
         IN  /\ marked.pendingLanes = rec.pendingLanes
             /\ marked.suspendedLanes = rec.suspendedLanes
             /\ marked.pingedLanes = rec.pingedLanes
             /\ \A w : GetNextLanes(marked, w) = GetNextLanes(rec, w)
             /\ Candidates(marked) = Candidates(rec)
<1>1. LET marked == MarkStarvedLanesAsExpired(rec)
      IN  /\ marked.pendingLanes = rec.pendingLanes
          /\ marked.suspendedLanes = rec.suspendedLanes
          /\ marked.pingedLanes = rec.pingedLanes
  BY DEF MarkStarvedLanesAsExpired, RootRecord
<1>2. Candidates(MarkStarvedLanesAsExpired(rec)) = Candidates(rec)
  BY <1>1 DEF Candidates
<1>. QED  BY <1>1, <1>2 DEF GetNextLanes

LEMMA MarkRootUpdatedType ==
  ASSUME NEW L, NEW rec \in RootRecord(L), NEW lane \in L
  PROVE  MarkRootUpdated(rec, lane) \in RootRecord(L)
BY DEF MarkRootUpdated, RootRecord

LEMMA MarkRootSuspendedType ==
  ASSUME NEW L, NEW rec \in RootRecord(L), NEW lanes
  PROVE  MarkRootSuspended(rec, lanes \cap L) \in RootRecord(L)
<1>1. DOMAIN rec.expirationTimes = L
  BY DEF RootRecord
<1>. QED  BY <1>1 DEF MarkRootSuspended, RootRecord

LEMMA MarkRootPingedType ==
  ASSUME NEW L, NEW rec \in RootRecord(L), NEW lanes
  PROVE  MarkRootPinged(rec, lanes) \in RootRecord(L)
BY DEF MarkRootPinged, RootRecord

LEMMA MarkRootFinishedType ==
  ASSUME NEW L, NEW rec \in RootRecord(L), NEW lanes \in SUBSET L
  PROVE  MarkRootFinished(rec, lanes) \in RootRecord(L)
<1>1. DOMAIN rec.expirationTimes = L /\ DOMAIN rec.entanglements = L
  BY DEF RootRecord
<1>. QED  BY <1>1 DEF MarkRootFinished, RootRecord

LEMMA DisableErrorRecoveryType ==
  ASSUME NEW L, NEW rec \in RootRecord(L), NEW lanes \in SUBSET L
  PROVE  [rec EXCEPT !.errorRecoveryDisabledLanes = @ \cup lanes] \in RootRecord(L)
BY DEF RootRecord

LEMMA UpgradeType ==
  ASSUME NEW L, SyncLane \in L, NEW rec \in RootRecord(L), NEW lane \in L
  PROVE  UpgradePendingLaneToSync(rec, lane) \in RootRecord(L)
BY DEF UpgradePendingLaneToSync, RootRecord

LEMMA UpgradeAddsSyncLane ==
  ASSUME NEW L, NEW rec \in RootRecord(L), NEW lane
  PROVE  LET upgraded == UpgradePendingLaneToSync(rec, lane)
         IN  /\ upgraded.pendingLanes = rec.pendingLanes \cup {SyncLane}
             /\ upgraded.suspendedLanes = rec.suspendedLanes
             /\ upgraded.pingedLanes = rec.pingedLanes
BY DEF UpgradePendingLaneToSync, RootRecord

LEMMA GetEntangledLanesType ==
  ASSUME NEW L, NEW rec \in RootRecord(L), NEW lanes \in SUBSET L
  PROVE  GetEntangledLanes(rec, lanes) \in SUBSET L
<1>1. \A l \in L : rec.entanglements[l] \subseteq L
  BY DEF RootRecord
<1>. QED  BY <1>1 DEF GetEntangledLanes
=============================================================================
