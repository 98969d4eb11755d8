SPECIFICATION LockedSpec
CONSTANTS
  Writer = {w1, w2}
  Observer = {}
  NoProc = NoProc
  Body = {"entry"}
  MaxHash = 6
INVARIANTS
  ChainIntact
  MemoryIsFile
PROPERTIES
  DamageStands
  ImplementsLedger
