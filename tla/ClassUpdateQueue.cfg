SPECIFICATION FairSpec
CONSTANTS
  T1 = T1
  T2 = T2
  NoLane = NoLane
  Lanes <- TwoTransitions
  TransitionLanes <- TwoTransitions
  MaxUpdates = 3
INVARIANTS TypeOK UpdatesInOrder UpdateLanesArePending TransitionsAreInSharedLanes CallbacksFireOnce
PROPERTIES ImplementsUpdateLog EveryUpdateIsShown
CHECK_DEADLOCK FALSE
