------------------------- MODULE MCSessionMigration -------------------------
(* Instances of SessionMigration for TLC. *)
EXTENDS SessionMigration

CONSTANTS s1, s2, s3, v1, v2, e1, e2, pa, leg, apply, launch

\* s1 belongs to project pa; s2 names no project and was started from s1; s3
\* has an id OpenCode would not give and names a project nobody knows.
ThreeOwner == (s1 :> s1) @@ (s2 :> s2) @@ (s3 :> s3)
ThreeDirect == (s1 :> pa) @@ (s2 :> NoDest) @@ (s3 :> leg)
ThreeParent == (s1 :> NoParent) @@ (s2 :> s1) @@ (s3 :> NoParent)
Symmetry == Permutations({v1, v2}) \union Permutations({e1, e2})
OneLaunch == (launch :> pa)
=============================================================================
