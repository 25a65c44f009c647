SPECIFICATION Spec
CONSTANTS
  Timeout = 2
  MaxTime = 5
  MaxCycles = 5
  None = None
INVARIANT TimersKeepTime
INVARIANT EdgesAreReal
INVARIANT OutputFollows
PROPERTY InputFollows
CHECK_DEADLOCK FALSE
