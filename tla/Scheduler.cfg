SPECIFICATION FairSpec
CONSTANTS
  MaxTasks = 3
  MaxTime = 2
  MaxTimeouts = 1
  Priorities <- TwoPriorities
  Delays = {1}
  FrameIntervals = {1}
  UserBlockingTimeout = 1
  NormalTimeout = 2
  LowTimeout = 3
  IdleTimeout = 9
INVARIANTS TypeOK ReadyTasksHaveMessage TimersHaveTimeout LiveTasksAreQueued
PROPERTIES CancelledStaysCancelled MostUrgentFirst EveryTaskSurfaces ImplementsTaskService
