SPECIFICATION Spec
CONSTANTS
  Lapses = {"inspect", "late"}
  Cancels = TRUE
  Stage = {"evaluate", "correctness_pro", "timing"}
INVARIANTS
  OutcomeMeansGone
  CompletedRanToItsEnd
PROPERTIES
  StageAnswers
CHECK_DEADLOCK FALSE
