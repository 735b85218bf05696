SPECIFICATION Spec
CONSTANTS
  EventLanes <- DiscreteEvents
  Kinds <- OnlyAdd
  LastTransitionLane = 8
  MaxUpdates = 3
  MaxActions = 1
PROPERTIES EagerStateIsCurrent
CHECK_DEADLOCK FALSE
