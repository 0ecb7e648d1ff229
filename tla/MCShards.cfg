SPECIFICATION EpochFairSpec
CONSTANTS
  Lengths = {0, 1, 2, 3, 4, 5}
  World = 3
  BatchSizes = {1, 2}
  Policies = {"Drop", "Pad"}
INVARIANTS SharedFairly
PROPERTIES EpochEnds
CHECK_DEADLOCK FALSE
