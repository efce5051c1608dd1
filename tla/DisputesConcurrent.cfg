SPECIFICATION Spec
CONSTANTS
  w1 = w1
  w2 = w2
  Milestones <- OneMilestone
  Arbiters <- OneArbiter
  Eligible <- OneEligible
  Workers = {w1, w2}
  MaxDisputes = 1
  MaxRounds = 1
  MaxTime = 2
  AppealWindow = 1
  ArbiterFee = 1
  ExternalResolve = TRUE
  Faults = {"timeout", "handler", "crash"}
  MaxFaults = 1
SYMMETRY WorkerSymmetry
INVARIANTS
  TypeOK
  FinalityJustified
  MilestoneSettledFirst
  
PROPERTIES
  AppealVerdictFinal
CHECK_DEADLOCK FALSE
