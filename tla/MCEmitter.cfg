SPECIFICATION EmitterFairSpec
CHECK_DEADLOCK FALSE
CONSTANTS
  t1 = t1
  t2 = t2
  Producers = {t1, t2}
  BulkCap = 1
  PriorityCap = 1
  Batch = 1
  MaxEvents = 2
INVARIANTS LossIsCounted ShutdownFlushes PriorityNotStarved
PROPERTIES CallsReturn
