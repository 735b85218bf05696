SPECIFICATION FairSpec
CONSTANTS
  MaxHoles = 1
  MaxBoundaries = 2
  MayAbort = TRUE
  PipesIn = {"onShellReady", "onAllReady", "elsewhere"}
  MaxCalls = 30
  Rooms = {0, 1, 9}
INVARIANTS
  TypeOK
  TasksAreCounted
  AnnouncedOnce
  ShownInstructionsFit
  CompleteWhenClosed
  OnlyKnownErrors
PROPERTY
  Finishes
CHECK_DEADLOCK FALSE
