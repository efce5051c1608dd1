SPECIFICATION Spec
CONSTANTS
  w1 = w1
  w2 = w2
  Milestones <- OneMilestone
  Arbiters <- TwoArbiters
  Eligible <- BothEligible
  Workers = {w1, w2}
  MaxDisputes = 1
  MaxRounds = 1
  MaxTime = 2
  AppealWindow = 1
  ArbiterFee = 1
  ExternalResolve = FALSE
  Faults = {}
  MaxFaults = 0
SYMMETRY WorkerSymmetry
INVARIANTS
  AppealHoldsFunds
CHECK_DEADLOCK FALSE
