SPECIFICATION Spec

CONSTANTS
  c1 = c1
  c2 = c2
  w1 = w1
  Conns = {c1, c2}
  Rewrites = {w1}
  KeepRecent = 1
  Ops = {"save", "set_block", "delete_row", "archive", "compress_project"}
  Repeats = {0}
  MaxId = 5
  MaxSaves = 3
  MaxFaults = 1

SYMMETRY ConnSymmetry

INVARIANTS
  NothingVanishes

CHECK_DEADLOCK FALSE
