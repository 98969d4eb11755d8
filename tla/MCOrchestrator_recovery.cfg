SPECIFICATION FairSpec
CONSTANTS
  Name = {"baseline", "candidate-0"}
  NoName = "none"
  Calls <- OneCandidatePerCall
  Resource <- BothResources
  Estimate <- EstimateOf
  Measured <- MeasuredCosts
  Limit <- LimitOf
  Identity = {"p", "q"}
  NoIdentity = "none"
  Cancellable = TRUE
  MaxStarts = 3
INVARIANTS
  AttemptHistory
  RerunsAreMarked
  BudgetIsReplay
PROPERTIES
  SpendingGate
  NoRerun
  RunReturns
CHECK_DEADLOCK FALSE
