--------------------------- MODULE MCMemoryStore ---------------------------
(* Small instances of MemoryStore for TLC.                                  *)
EXTENDS MemoryStore, TLC

ConnSymmetry == Permutations(Conns)
=============================================================================
