SPECIFICATION Spec
CONSTANTS
  Shapes = {1, 2}
  MaxCalls = 2
INVARIANT FutureRefuses
CHECK_DEADLOCK FALSE
