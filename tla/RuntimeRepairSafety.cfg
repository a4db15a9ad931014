SPECIFICATION Spec
CONSTANTS
  s1 = s1 m1 = m1 c1 = c1 g1 = g1 id = id l1 = l1 l2 = l2
  NoCache = NoCache NoSession = NoSession NoParent = NoParent Global = Global
  Sessions = {s1, m1, c1, g1}
  Parent <- FourParents
  WellFormed = {s1, c1, g1}
  Brought = {m1, c1}
  Ids = {id}
  Launches = {l1, l2}
  RefreshTries = 2
  MaxLaunches = 2
  MaxMerges = 1
  MaxWrites = 1
  MaxFaults = 1
SYMMETRY Symmetry
INVARIANTS CheckpointVouches RootsCurrent ArchivedBeforeRemoved
CHECK_DEADLOCK FALSE
