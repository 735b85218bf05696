SPECIFICATION Spec
CONSTANTS
  r1 = r1
  r2 = r2
  Roots = {r1}
  NoRoot = NoRoot
  LanesInUse <- MCLanes
  LastTransitionLane = 9
  LastRetryLane = 23
  MaxUpdates = 4
  Environments <- Delaying
VIEW RelevantState
INVARIANTS
  WorkIsScheduled
CHECK_DEADLOCK FALSE
