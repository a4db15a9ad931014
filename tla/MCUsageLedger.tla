---------------------------- MODULE MCUsageLedger ----------------------------
(* Small instances of UsageLedger: a ledger that is already at its cap. *)
EXTENDS UsageLedger, TLC

CONSTANTS o1, o2, c1, c2, c3

FullLedger == <<o1, o2>>
Symmetric == Permutations(Calls)
==============================================================================
