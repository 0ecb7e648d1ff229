SPECIFICATION FairSpec
CONSTANTS
  w1 = w1
  w2 = w2
  w3 = w3
  Threads = {w1, w2}
  Total = 4
  Prefetch = 1
  MayTimeOut = TRUE
PROPERTIES ImplementsOrderedStream CallsReturn WorkersStop
CHECK_DEADLOCK FALSE
