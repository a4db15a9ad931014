------------------------------ MODULE MCGateway ------------------------------
(* Two providers: a owns the family x, b accepts any and is the default. *)
EXTENDS Gateway

CONSTANTS a, b, x, y

TwoProviders == <<[name |-> a, prefixes |-> {x}], [name |-> b, prefixes |-> {}]>>

Ask(hint, upstream) == [model |-> [hint |-> hint, upstream |-> upstream], body |-> "hello"]

\* Prefix routing with fallback, an explicit route, and an explicit route to a
\* provider that does not own the model.
MixedRequests == {Ask(NoHint, x), Ask(a, x), Ask(a, y)}
==============================================================================
