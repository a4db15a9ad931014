------------------------- MODULE MCSchemaMigration -------------------------
(* Instances of SchemaMigration for TLC. *)
EXTENDS SchemaMigration, TLC

CONSTANTS c1, c2, pa, pb
=============================================================================
