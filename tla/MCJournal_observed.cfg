SPECIFICATION ObservedSpec
CONSTANTS
  Writer = {w1}
  Observer = {o1}
  NoProc = NoProc
  Body = {"entry"}
  MaxHash = 5
PROPERTIES
  AppendOnly
CHECK_DEADLOCK FALSE
