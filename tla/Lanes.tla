------------------------------- MODULE Lanes -------------------------------
(***************************************************************************)
(* ReactFiberLane.js: which of a root's pending lanes to work on next.     *)
(*                                                                         *)
(* A bitmask of lanes is the set of its bit indexes: a lower index is a    *)
(* higher priority.  The operators map the root's lane fields, a record,   *)
(* to the next ones.  Times are abstracted: a lane's expiration time is    *)
(* "none" (NoTimestamp), "later" or "reached".                             *)
(***************************************************************************)
EXTENDS Integers, FiniteSets

SyncLane == 1
InputContinuousHydrationLane == 2
InputContinuousLane == 3
DefaultHydrationLane == 4
DefaultLane == 5
TransitionLanes == 7..21
RetryLanes == 22..25
NonIdleLanes == 0..26
IdleLane == 28
OffscreenLane == 29
DeferredLane == 30

SyncUpdateLanes == {SyncLane, InputContinuousLane, DefaultLane}

(* Lanes that would block the user: they are rendered without yielding.    *)
SyncDefaultLanes == {InputContinuousHydrationLane, InputContinuousLane,
                     DefaultHydrationLane, DefaultLane}

NeverExpire == RetryLanes \cup {26, 27, IdleLane, OffscreenLane, DeferredLane}

-----------------------------------------------------------------------------
HighestPriorityLane(lanes) == CHOOSE l \in lanes : \A m \in lanes : l <= m

HighestPriorityLanes(lanes) ==
  IF lanes \cap SyncUpdateLanes # {} THEN lanes \cap SyncUpdateLanes
  ELSE LET highest == HighestPriorityLane(lanes)
       IN  CASE highest \in TransitionLanes -> lanes \cap TransitionLanes
             [] highest \in RetryLanes -> lanes \cap RetryLanes
             [] highest = DeferredLane -> {}
             [] OTHER -> {highest}

(* The unblocked lanes, or else the pinged ones.  Idle work waits for all  *)
(* the other work, even if that is suspended.                              *)
Candidates(root) ==
  LET pending == root.pendingLanes
      nonIdle == pending \cap NonIdleLanes
      eligible == IF nonIdle # {} THEN nonIdle ELSE pending
      unblocked == eligible \ root.suspendedLanes
  IN  IF unblocked # {} THEN unblocked
      ELSE IF nonIdle # {} THEN nonIdle \cap root.pingedLanes
      ELSE IF pending # {} THEN root.pingedLanes
      ELSE {}

(* Switching lanes interrupts the render in progress: only higher priority *)
(* lanes may, or any if that render has suspended with a delay.            *)
MayInterrupt(nextLanes, wipLanes) ==
  LET next == HighestPriorityLane(nextLanes)
      wip == HighestPriorityLane(wipLanes)
  IN  next < wip /\ ~(next = DefaultLane /\ wip \in TransitionLanes)

GetNextLanes(root, wipLanes) ==
  LET candidates == Candidates(root)
      nextLanes == IF candidates = {} THEN {} ELSE HighestPriorityLanes(candidates)
  IN  IF /\ nextLanes # {} /\ wipLanes \notin {{}, nextLanes}
         /\ wipLanes \cap root.suspendedLanes = {}
         /\ ~MayInterrupt(nextLanes, wipLanes)
      THEN wipLanes
      ELSE nextLanes

(* One pass over the lanes asked for: entanglement is not followed further.*)
(* (allowConcurrentByDefault is off, and DefaultLane is added only to a    *)
(* set that has it.)                                                       *)
GetEntangledLanes(root, lanes) ==
  lanes \cup UNION {root.entanglements[l] : l \in lanes \cap root.entangledLanes}

LanesToRetrySynchronouslyOnError(root, lanes) ==
  IF root.errorRecoveryDisabledLanes \cap lanes # {} THEN {}
  ELSE root.pendingLanes \ {OffscreenLane}

-----------------------------------------------------------------------------
(* Called when the root yields or is scheduled: a lane that is not         *)
(* suspended gets an expiration time, one whose time is reached expires.   *)
MarkStarvedLanesAsExpired(root) ==
  LET lanes == root.pendingLanes \ RetryLanes
      Starts(l) == /\ root.expirationTimes[l] = "none" /\ l \notin NeverExpire
                   /\ l \notin root.suspendedLanes \/ l \in root.pingedLanes
  IN  [root EXCEPT
         !.expirationTimes = [l \in DOMAIN @ |->
            IF l \in lanes /\ Starts(l) THEN "later" ELSE @[l]],
         !.expiredLanes = @ \cup
            {l \in lanes : root.expirationTimes[l] = "reached"}]

MarkRootUpdated(root, lane) ==
  [root EXCEPT !.pendingLanes = @ \cup {lane},
               !.suspendedLanes = IF lane = IdleLane THEN @ ELSE {},
               !.pingedLanes = IF lane = IdleLane THEN @ ELSE {}]

MarkRootSuspended(root, lanes) ==
  [root EXCEPT !.suspendedLanes = @ \cup lanes,
               !.pingedLanes = @ \ lanes,
               !.expirationTimes = [l \in DOMAIN @ |->
                  IF l \in lanes THEN "none" ELSE @[l]]]

MarkRootPinged(root, lanes) ==
  [root EXCEPT !.pingedLanes = @ \cup (root.suspendedLanes \cap lanes)]

MarkRootFinished(root, remainingLanes) ==
  LET finished == root.pendingLanes \ remainingLanes
  IN  [root EXCEPT
         !.pendingLanes = remainingLanes,
         !.suspendedLanes = {}, !.pingedLanes = {},
         !.expiredLanes = @ \cap remainingLanes,
         !.entangledLanes = @ \cap remainingLanes,
         !.errorRecoveryDisabledLanes = @ \cap remainingLanes,
         !.entanglements = [l \in DOMAIN @ |->
            IF l \in finished THEN {} ELSE @[l]],
         !.expirationTimes = [l \in DOMAIN @ |->
            IF l \in finished THEN "none" ELSE @[l]]]

(* Whatever was entangled with one of the lanes is now with all of them.   *)
MarkRootEntangled(root, lanes) ==
  [root EXCEPT
     !.entangledLanes = @ \cup lanes,
     !.entanglements = [l \in DOMAIN @ |->
        IF l \in lanes \/ @[l] \cap lanes # {} THEN @[l] \cup lanes ELSE @[l]]]

(* During a popstate event: see ProcessRootSchedule.                       *)
UpgradePendingLaneToSync(root, lane) ==
  [root EXCEPT !.pendingLanes = @ \cup {SyncLane},
               !.entangledLanes = @ \cup {SyncLane},
               !.entanglements[SyncLane] = @ \cup {lane}]
=============================================================================
