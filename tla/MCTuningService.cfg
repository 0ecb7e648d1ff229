SPECIFICATION FairSpec
CHECK_DEADLOCK FALSE
CONSTANTS
  c1 = c1
  c2 = c2
  k1 = k1
  fast = fast
  slow = slow
  r0 = r0
  r1 = r1
  None = None
  Callers = {c1, c2}
  Keys = {k1}
  Candidates = {fast, slow}
  LegalSets <- TwoLegalSets
  Ranks = {r0, r1}
  Pair = {r0, r1}
  Topologies = {{r0}, {r0, r1}}
  Policies = {"Disabled", "Heuristic", "ProfileGuided", "CoordinatedWarmup"}
  PolicyBudget = 2
  TimeBudgets = {1}
  Imported <- RightAndWrong
  MaxTime = 1
  MaxVotes = 2
  MaxEpoch = 2
INVARIANTS SelectionLegal SingleFlight NoLostWakeup PublishedUnanimously
PROPERTIES ImplementsSingleFlight DecideReturns
