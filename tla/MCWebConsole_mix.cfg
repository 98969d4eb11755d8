SPECIFICATION Spec
CONSTANTS
  w1 = w1  w2 = w2  c1 = c1  c2 = c2  c3 = c3  d1 = d1  d2 = d2
  Proc = {c1, c2, c3}
  Web = {}
  Nobody = Nobody
  Dir = {d1}
  RunsRoot = {}
  MayStart = {d1}
  Config <- SettingValue
  Form <- FormValue
  MaxEntries = 4
SYMMETRY Commands
INVARIANT RefusesToMix
CHECK_DEADLOCK FALSE
