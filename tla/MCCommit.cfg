CONSTANTS
  weight = weight  tied = tied  bias = bias
  shared = shared  own = own
  x = x  y = y
  Leaves = {weight, tied, bias}
  Slots = {shared, own}
  SlotOf <- MCSlotOf
  Contents <- MCContents
  MaxSteps = 1
SPECIFICATION Spec
SYMMETRY Symmetric
INVARIANTS
  AllOrNothing
  UnrestoredIsMarked
  StagingReleased
