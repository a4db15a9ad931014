SPECIFICATION Spec
CONSTANTS
  s1 = s1 s2 = s2 s3 = s3 v1 = v1 v2 = v2 e1 = e1 e2 = e2 pa = pa leg = leg
  apply = apply launch = launch
  NoRow = NoRow NoDest = NoDest NoParent = NoParent NoCmd = NoCmd
  Sessions = {s1, s2, s3}
  Keys = {s1, s2, s3}
  Owner <- ThreeOwner
  Vals = {v1, v2}
  Events = {e1, e2}
  Dests = {pa, leg}
  Legacy = leg
  Direct <- ThreeDirect
  Parent <- ThreeParent
  WellFormed = {s1, s2}
  Cmds = {apply, launch}
  Launches = {launch}
  ProjectOf <- OneLaunch
  Missing = {leg}
  ReadTries = 2
  MaxRuns = 1
  MaxWrites = 4
  MaxFaults = 1
SYMMETRY Symmetry
INVARIANTS PrivateRowsKept UpToDateMeansCopied EventIdsUnique MergeIdempotent
CHECK_DEADLOCK FALSE
