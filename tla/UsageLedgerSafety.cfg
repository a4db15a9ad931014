SPECIFICATION FairSpec
CONSTANTS
  Calls = {c1, c2, c3}
  c1 = c1 c2 = c2 c3 = c3
  o1 = o1
  o2 = o2
  Existing <- FullLedger
  Cap = 2
  Attempts = 2
  MaxFaults = 1
  SlowCalls = {c1}
  NoOne = NoOne
CHECK_DEADLOCK FALSE
INVARIANTS
  HoldersSerialized
  NewestRowsKept
  
PROPERTIES
  EveryCallReturns
