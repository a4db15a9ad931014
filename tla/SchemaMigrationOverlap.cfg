SPECIFICATION OpenSpec

CONSTANTS
  c1 = c1
  c2 = c2
  pa = pa
  pb = pb
  NoIdentity = NoIdentity
  Openers = {c1, c2}
  Identities = {pa}
  MaxFaults = 0

INVARIANTS
  StoreOpens
