SPECIFICATION Spec
CONSTANTS
  Lapses = {}
  Cancels = FALSE
  Stage = {"evaluate", "correctness_pro"}
INVARIANTS
  CutShortNeverScores
CHECK_DEADLOCK FALSE
