SPECIFICATION Spec
CONSTANTS
  Kid = {k1, k2}
INVARIANTS
  NothingIsLeft
  RunsInItsJob
  CompletedByItself
PROPERTIES
  CallReturns
CHECK_DEADLOCK FALSE
