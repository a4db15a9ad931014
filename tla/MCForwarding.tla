---------------------------- MODULE MCForwarding ----------------------------
(* Instances of Forwarding for TLC. *)
EXTENDS Forwarding, TLC

CONSTANTS i1, i2, a, b, b1, b2, ta, tb, bad, ha, hb, p1, p2, r1, r2

\* Two pairs, an event each, under different ids.
TwoPairEvents == {[id |-> i1, pair |-> a, body |-> b1], [id |-> i2, pair |-> b, body |-> b1]}
\* One id of one pair, with two payloads.
TwoBodyEvents == {[id |-> i1, pair |-> a, body |-> b1], [id |-> i1, pair |-> a, body |-> b2]}

\* Two pairs, and two payloads under one id of one of them.
ThreeEvents == TwoPairEvents \union TwoBodyEvents

TwoBindings == (ta :> a) @@ (tb :> b)
TwoHosts == (a :> ha) @@ (b :> hb)
OneHost == (a :> ha) @@ (b :> ha)
Matching == {<<a, ta>>, <<b, tb>>}

Symmetry == Permutations(Procs) \union Permutations(Requests)
=============================================================================
