-------------------------- MODULE ForwardingContract --------------------------
(***************************************************************************)
(* What forwarding promises, whatever spool, network and collector do: an  *)
(* accepted event stays queued until the host has stored it, and the host  *)
(* holds at most one copy of it at a time.                                 *)
(***************************************************************************)
CONSTANT Keys       \* (event id, pair)

VARIABLES
    accepted,   \* keys the guest has accepted
    queued,     \* keys the guest still holds
    stored,     \* keys the host has stored at some time
    copies      \* key -> the live memories made from it

vars == <<accepted, queued, stored, copies>>

Init ==
    /\ accepted = {}
    /\ queued = {}
    /\ stored = {}
    /\ copies = [k \in Keys |-> {}]

Accept(k) ==
    /\ accepted' = accepted \union {k}
    /\ queued' = queued \union {k}
    /\ UNCHANGED <<stored, copies>>

\* The host stores an accepted event of which it holds no copy.
Ingest(k) ==
    /\ k \in accepted
    /\ copies[k] = {}
    /\ \E m \in copies'[k] : copies' = [copies EXCEPT ![k] = {m}]
    /\ stored' = stored \union {k}
    /\ UNCHANGED <<accepted, queued>>

\* The guest forgets an event that the host has stored.
Forget(k) ==
    /\ k \in stored
    /\ queued' = queued \ {k}
    /\ UNCHANGED <<accepted, stored, copies>>

\* The host's owner deletes the copy.
Purge(k) ==
    /\ copies' = [copies EXCEPT ![k] = {}]
    /\ UNCHANGED <<accepted, queued, stored>>

Next == \E k \in Keys : Accept(k) \/ Ingest(k) \/ Forget(k) \/ Purge(k)

Spec == Init /\ [][Next]_vars
=============================================================================
