SPECIFICATION FairSpec
CHECK_DEADLOCK FALSE
CONSTANTS
  N = 2
  Stages = {"none", "zero1", "zero2"}
  Scalings = {TRUE, FALSE}
  InitialScale = 1
  GrowthInterval = 2
  MaxBatches = 2
INVARIANTS ReplicasAgree PairsAlike MatchesOneProcess
PROPERTIES RunsToTheEnd
