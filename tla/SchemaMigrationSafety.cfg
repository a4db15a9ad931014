SPECIFICATION FairOpenSpec

CONSTANTS
  c1 = c1
  c2 = c2
  pa = pa
  pb = pb
  NoIdentity = NoIdentity
  Openers = {c1, c2}
  Identities = {pa, pb}
  MaxFaults = 1

INVARIANTS
  StoreTypeOK
  OpenedIsComplete
  OwnProjectOnly
  RefusedOnlyIfHurt

PROPERTIES
  Upgraded
