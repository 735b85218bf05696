SPECIFICATION CurrentSpec
CONSTANTS
  EventLanes <- DiscreteEvents
  Kinds <- AddOrReset
  LastTransitionLane = 8
  MaxUpdates = 3
  MaxActions = 2
INVARIANTS TypeOK UpdatesArePending
PROPERTIES ImplementsOptimisticLog ActionUpdatesWait EverythingSettles
CHECK_DEADLOCK FALSE
