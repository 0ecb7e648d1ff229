SPECIFICATION FairSpec
CONSTANTS
  Shapes = {1, 2}
  MaxCalls = 3
INVARIANTS Paired BothStop
PROPERTIES Informed CallsReturn
CHECK_DEADLOCK FALSE
