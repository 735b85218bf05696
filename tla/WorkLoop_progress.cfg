SPECIFICATION FairSpec
CONSTANTS
  r1 = r1
  r2 = r2
  Roots = {r1}
  NoRoot = NoRoot
  LanesInUse <- MCLanes
  LastTransitionLane = 9
  LastRetryLane = 24
  MaxUpdates = 2
  Environments <- Loading
PROPERTIES
  EveryUpdateIsShown
CHECK_DEADLOCK FALSE
