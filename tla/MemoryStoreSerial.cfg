SPECIFICATION Spec

CONSTANTS
  c1 = c1
  w1 = w1
  w2 = w2
  Conns = {c1}
  Rewrites = {w1, w2}
  KeepRecent = 1
  Ops = {"save", "compress", "delete_row", "delete_rows", "archive", "compress_project"}
  Repeats = {0}
  MaxId = 4
  MaxSaves = 3
  MaxFaults = 1

INVARIANTS
  IndexExact
  OriginalKept

PROPERTIES
  SweepSettles

CHECK_DEADLOCK FALSE
