SPECIFICATION Spec
CONSTANTS
  w1 = w1  w2 = w2  c1 = c1  c2 = c2  c3 = c3  d1 = d1  d2 = d2
  Proc = {w1, w2, c1}
  Web = {w1, w2}
  Nobody = Nobody
  Dir = {d1, d2}
  RunsRoot = {d1}
  MayStart = {d2}
  Config <- ConfigValue
  Form <- FormValue
  MaxEntries = 3
INVARIANTS OneIdentity OverridesAreJournaled RefusedLeavesNoTrace
PROPERTIES AnswerWasTrue JobSettles
CHECK_DEADLOCK FALSE
