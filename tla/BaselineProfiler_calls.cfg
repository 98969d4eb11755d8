SPECIFICATION ProfileSpec
CONSTANTS
  MaxCalls = 3
INVARIANTS
  CollectedIsThere
  EachBillOnRecord
PROPERTY ProfilingReturns
CHECK_DEADLOCK FALSE
