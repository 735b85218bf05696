SPECIFICATION Spec
CONSTANTS
  SortIndexes = {1, 2, 3}
  MaxPushes = 6
INVARIANTS TypeOK HeapOrdered
PROPERTIES ImplementsPriorityQueue
CHECK_DEADLOCK FALSE
