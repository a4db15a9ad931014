SPECIFICATION Spec

CONSTANTS
  c1 = c1
  c2 = c2
  m1 = m1
  m2 = m2
  Conns = {c1, c2}
  Ids = {1, 2, 3}
  Models = {m1, m2}
  Dims = {1, 2}

SYMMETRY Symmetric

INVARIANTS
  TypeOK
  RegistryHolds

PROPERTIES
  NeverMixed
