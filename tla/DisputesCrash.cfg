SPECIFICATION FairSpec
CONSTANTS
  w1 = w1
  w2 = w2
  Milestones <- OneMilestone
  Arbiters <- TwoArbiters
  Eligible <- BothEligible
  Workers = {w1}
  MaxDisputes = 1
  MaxRounds = 1
  MaxTime = 3
  AppealWindow = 1
  ArbiterFee = 1
  ExternalResolve = FALSE
  Faults = {"crash"}
  MaxFaults = 1
PROPERTIES
  DecisionsSettle
CHECK_DEADLOCK FALSE
