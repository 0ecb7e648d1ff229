SPECIFICATION CacheFairSpec
CONSTANTS
  p = p
  q = q
  Processes = {p, q}
  Keys = {1, 2}
  Sizes = {1, 2}
  Overhead = 1
  Limits <- Mixed
  MaxTime = 1
  MaxCommits = 2
  MaxFaults = 1
INVARIANTS NeverTorn
PROPERTIES OnlyOldestEvicted AckedSurvives CallsEnd
CHECK_DEADLOCK FALSE
