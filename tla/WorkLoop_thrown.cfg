SPECIFICATION Spec
CONSTANTS
  r1 = r1
  r2 = r2
  Roots = {r1}
  NoRoot = NoRoot
  LanesInUse <- MCLanes
  LastTransitionLane = 9
  LastRetryLane = 24
  MaxUpdates = 2
  Environments <- Throwing
VIEW RelevantState
INVARIANTS
  SyncWorkIsFlushed
CHECK_DEADLOCK FALSE
