SPECIFICATION Spec
CONSTANTS
  i1 = i1 i2 = i2 a = a b = b b1 = b1 b2 = b2 ta = ta tb = tb bad = bad
  ha = ha hb = hb p1 = p1 p2 = p2 r1 = r1 r2 = r2
  Ids = {i1, i2}
  Pairs = {a, b}
  Bodies = {b1, b2}
  Tokens = {ta, tb}
  Unbound = Unbound
  NoProc = NoProc
  Binding <- TwoBindings
  Hosts = {ha, hb}
  Procs = {p1, p2}
  Requests = {r1, r2}
  BatchLimit = 2
  CapAttempts = 1
  CapDelay = 1
  HostOf <- TwoHosts
  MaxFaults = 1
  MaxDeletes = 1
  Events <- ThreeEvents
  Credentials <- Matching
  FlushTokens = {ta}
INVARIANTS NoAcceptedEventLost ExactlyOnce OwnStoreOnly ReceiptsMatchMemories
PROPERTY ImplementsContract
SYMMETRY Symmetry
