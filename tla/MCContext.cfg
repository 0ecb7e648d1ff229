SPECIFICATION FairSpec
CONSTANTS
  a = a
  b = b
  t1 = t1
  t2 = t2
  Runs = {a, b}
  Threads = {t1, t2}
  MaxCalls = 3
  MaxFaults = 1
INVARIANTS ShutdownAcknowledged
PROPERTIES CallsReturn PeerLossNoticed
CHECK_DEADLOCK FALSE
