SPECIFICATION Spec
CONSTANTS
  MaxHoles = 1
  MaxBoundaries = 2
  MayAbort = FALSE
  PipesIn = {"onShellReady"}
  MaxCalls = 30
  Rooms = {9}
INVARIANT
  NoInternalError
CHECK_DEADLOCK FALSE
