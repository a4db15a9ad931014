--------------------------- MODULE MCRuntimeRepair ---------------------------
(* Instances of RuntimeRepair for TLC. *)
EXTENDS RuntimeRepair, TLC

CONSTANTS s1, m1, c1, g1, id, l1, l2

\* s1 is a root; m1 has a malformed id, c1 was started from it and g1 from c1.
FourParents == (s1 :> NoParent) @@ (m1 :> NoParent) @@ (c1 :> m1) @@ (g1 :> c1)
Symmetry == Permutations({l1, l2})
=============================================================================
