SPECIFICATION Spec
CONSTANTS
  r1 = r1
  r2 = r2
  Roots = {r1, r2}
  NoRoot = NoRoot
  LanesInUse <- MCLanes
  LastTransitionLane = 9
  LastRetryLane = 24
  MaxUpdates = 2
  Environments <- AllEnvironments
SYMMETRY RootsAreAlike
VIEW RelevantState
INVARIANTS
  TypeOK
  UpdatesArePending
  FallbacksAreRetried
  WorkIsScheduledUnlessDangling
  CallbackIsUrgentEnough
  SyncWorkIsFlushedUnlessThrown
  SuspendedWorkWakesUp
PROPERTIES
  UnrecoveredTreesAreComplete
  TransitionsKeepTheScreen
CHECK_DEADLOCK FALSE
