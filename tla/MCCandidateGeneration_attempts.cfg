SPECIFICATION Spec
CONSTANTS
  MISSING = MISSING
  MaxFailures = 6
  MaxAttempts = 6
  Inputs <- MCInputs
  Batches <- MCBatches
INVARIANTS
  EveryMethodIsDisposed
  FailedMethodYields
  TokensAreDeltas
PROPERTIES
  GenerationReturns
CHECK_DEADLOCK FALSE
