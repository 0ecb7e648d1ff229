SPECIFICATION FairSpec
CONSTANTS
  MicrobatchLimit = 4
  Boundaries = {1}
  MaxMicrobatches = 3
  MaxFaults = 1
  WithContext = TRUE
INVARIANTS TransfersPair CausalOrder LiveBounded
PROPERTIES StepCompletes NobodyHangs
CHECK_DEADLOCK FALSE
