CONSTANTS
  a = a  b = b  c = c  d = d  e = e  none = none
  Values <- MCValues
  Empty = none
  MaxNodes = 3
  MaxReads = 2
  MaxSources = 2
SPECIFICATION Spec
SYMMETRY Symmetric
INVARIANTS
  ReadsItsOwn
  PlanIsTight
