SPECIFICATION FairSpec
CONSTANTS
  w1 = w1
  w2 = w2
  Milestones <- OneMilestone
  Arbiters <- TwoArbiters
  Eligible <- BothEligible
  Workers = {w1}
  MaxDisputes = 2
  MaxRounds = 2
  MaxTime = 4
  AppealWindow = 1
  ArbiterFee = 1
  ExternalResolve = FALSE
  Faults = {"rpc", "expire"}
  MaxFaults = 2
INVARIANTS
  TrackedFundsWait
  OutcomeAgrees
  AppealHoldsFunds
  EveryRoundTracked
  AssignedNeverHears
  RefundOnlyIfRefunded
PROPERTIES
  DecisionsSettle
CHECK_DEADLOCK FALSE
