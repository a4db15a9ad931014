----------------------------- MODULE Embeddings -----------------------------
(***************************************************************************)
(* The vectors of the memory store and the registry of their dimensions    *)
(* (crates/rtrt-memory/src/lib.rs).  Several connections embed rows at     *)
(* once: an embedder attached to a save, the auto-embed daemon and the     *)
(* sweep after a save (INSERT OR IGNORE), and `rtrt memory reembed`, which *)
(* moves rows to another model (INSERT OR REPLACE).  A model name may      *)
(* answer with vectors of different lengths over time; recall compares     *)
(* vectors of one model only if they have one length.                      *)
(*                                                                         *)
(* One action is one SQL statement.  A batch is modelled row by row: what  *)
(* matters is that a row is fetched in one statement and stored in a later *)
(* one.  A vector is its model and its length.                             *)
(***************************************************************************)
EXTENDS Integers, FiniteSets, Functions

CONSTANTS
  Conns,      \* connections
  Ids,        \* memory rows
  Models,     \* names of embedding models
  Dims        \* lengths of the vectors an embedder may answer; 0 is empty

ASSUME EmbedAssumption == Dims \subseteq Nat \ {0} /\ "none" \notin Models /\ 0 \notin Ids

VARIABLES
  rows,       \* ids in table memories
  unused,     \* ids AUTOINCREMENT has not handed out
  vectors,    \* table embeddings: id -> model and length
  registry,   \* table embedding_models: model -> length, 0 when absent
  call        \* what each connection is doing

vars == <<rows, unused, vectors, registry, call>>

Closed == [pc |-> "closed", mode |-> "ignore", model |-> "none", expected |-> 0,
           id |-> 0, dim |-> 0]
Idle == [Closed EXCEPT !.pc = "idle"]

Embedded == DOMAIN vectors

(* SELECT DISTINCT length(vector) FROM embeddings WHERE model = ?1.         *)
LengthsOf(m) == {vectors[i].dim : i \in {j \in Embedded : vectors[j].model = m}}

(* A file of a version without the registry holds whatever was stored.      *)
Init ==
  /\ rows \in SUBSET Ids
  /\ unused = Ids \ rows
  /\ \E S \in SUBSET rows : vectors \in [S -> [model : Models, dim : Dims]]
  /\ registry = [m \in Models |-> 0]
  /\ call = [c \in Conns |-> Closed]

At(c, pc) == call[c].pc = pc

(***************************************************************************)
(* migrate: register each model whose stored vectors have one length.      *)
(***************************************************************************)
Open(c) ==
  /\ At(c, "closed")
  /\ registry' = [m \in Models |->
                    IF registry[m] = 0 /\ \E d \in Dims : LengthsOf(m) = {d}
                    THEN CHOOSE d \in Dims : LengthsOf(m) = {d}
                    ELSE registry[m]]
  /\ call' = [call EXCEPT ![c] = Idle]
  /\ UNCHANGED <<rows, unused, vectors>>

(* Rows come and go; a deletion takes the vector with it, foreign keys      *)
(* being on for every connection.                                           *)
SaveRow ==
  /\ \E i \in unused : rows' = rows \cup {i} /\ unused' = unused \ {i}
  /\ UNCHANGED <<vectors, registry, call>>

(* Variant: PRAGMA foreign_keys is off.                                     *)
DeleteRowAlone ==
  /\ \E i \in rows : rows' = rows \ {i}
  /\ UNCHANGED <<unused, vectors, registry, call>>

DeleteRow ==
  /\ \E i \in rows :
       /\ rows' = rows \ {i}
       /\ vectors' = Restrict(vectors, Embedded \ {i})
  /\ UNCHANGED <<unused, registry, call>>

(***************************************************************************)
(* A sweep begins.  Re-embedding first reads the length stored for its     *)
(* model, refusing mixed ones, and holds its vectors to it.                *)
(***************************************************************************)
Sweep(c) ==
  /\ At(c, "idle")
  /\ \E m \in Models, mode \in {"ignore", "replace"}, e \in Dims \cup {0} :
       /\ mode = "ignore" => e = 0
       /\ mode = "replace" => LengthsOf(m) = IF e = 0 THEN {} ELSE {e}
       /\ call' = [call EXCEPT ![c] = [Idle EXCEPT !.pc = "fetch", !.mode = mode,
                                                   !.model = m, !.expected = e]]
  /\ UNCHANGED <<rows, unused, vectors, registry>>

(* unembedded_batch and reembed_batch.                                      *)
Pending(c) ==
  {i \in rows : i \notin Embedded \/ (call[c].mode = "replace" /\ vectors[i].model # call[c].model)}

(* A row is fetched and its text embedded.  Re-embedding stops at a vector  *)
(* that does not have the expected length and takes the first one as the    *)
(* expectation when there is none; an error of the embedder stops it too,   *)
(* and only skips the row otherwise.                                        *)
Fetch(c) ==
  /\ At(c, "fetch")
  /\ \E i \in Pending(c), d \in Dims \cup {0} :
       IF call[c].mode = "replace" /\ call[c].expected \notin {0, d}
       THEN call' = [call EXCEPT ![c] = Idle]
       ELSE call' = [call EXCEPT ![c] = [call[c] EXCEPT !.pc = "lookup", !.id = i, !.dim = d,
                       !.expected = IF call[c].mode = "replace" THEN d ELSE 0]]
  /\ UNCHANGED <<rows, unused, vectors, registry>>

(* Nothing is pending, the embedder fails, or the process stops.            *)
Stop(c) ==
  /\ call[c].pc \notin {"closed", "idle"}
  /\ call' = [call EXCEPT ![c] = IF At(c, "fetch") THEN Idle ELSE Closed]
  /\ UNCHANGED <<rows, unused, vectors, registry>>

Goto(c, pc) == call' = [call EXCEPT ![c] = [call[c] EXCEPT !.pc = pc]]

(* Storing fails: the sweeps go on with the next row.  Re-embedding ends at *)
(* once or, when it was retrying a failed batch row by row, after the other *)
(* batches of its pass; after an empty first vector, which no other can     *)
(* equal, nothing more is stored.                                           *)
Refuse(c) ==
  \/ call[c].mode = "replace" /\ call' = [call EXCEPT ![c] = Idle]
  \/ (call[c].mode = "ignore" \/ call[c].dim # 0) /\ Goto(c, "fetch")

(***************************************************************************)
(* ensure_embedding_model_dimension, statement by statement.               *)
(***************************************************************************)
Lookup(c) ==
  /\ At(c, "lookup")
  /\ \/ call[c].dim = 0 /\ Refuse(c)
     \/ call[c].dim # 0 /\ registry[call[c].model] = call[c].dim /\ Goto(c, "write")
     \/ call[c].dim # 0 /\ registry[call[c].model] = 0 /\ Goto(c, "scan")
     \/ call[c].dim # 0 /\ registry[call[c].model] \notin {0, call[c].dim} /\ Refuse(c)
  /\ UNCHANGED <<rows, unused, vectors, registry>>

(* Variant: stored vectors of an unregistered model are not looked at.      *)
ScanNothing(c) ==
  /\ At(c, "scan")
  /\ Goto(c, "register")
  /\ UNCHANGED <<rows, unused, vectors, registry>>

(* Mixed lengths and another length are refused.                            *)
Scan(c) ==
  /\ At(c, "scan")
  /\ IF LengthsOf(call[c].model) \subseteq {call[c].dim} THEN Goto(c, "register") ELSE Refuse(c)
  /\ UNCHANGED <<rows, unused, vectors, registry>>

(* INSERT OR IGNORE: the first registration wins.                           *)
Register(c) ==
  /\ At(c, "register")
  /\ registry' = [registry EXCEPT ![call[c].model] =
                    IF registry[call[c].model] = 0 THEN call[c].dim ELSE registry[call[c].model]]
  /\ Goto(c, "readback")
  /\ UNCHANGED <<rows, unused, vectors>>

(* Variant: having inserted is taken for having won.                        *)
ReadBackTrusting(c) ==
  /\ At(c, "readback")
  /\ Goto(c, "write")
  /\ UNCHANGED <<rows, unused, vectors, registry>>

ReadBack(c) ==
  /\ At(c, "readback")
  /\ IF registry[call[c].model] = call[c].dim THEN Goto(c, "write") ELSE Refuse(c)
  /\ UNCHANGED <<rows, unused, vectors, registry>>

(* INSERT OR IGNORE / OR REPLACE INTO embeddings; the foreign key refuses   *)
(* the vector of a row that is gone.                                        *)
Write(c) ==
  /\ At(c, "write")
  /\ LET i == call[c].id IN
       IF i \notin rows THEN Refuse(c) /\ UNCHANGED vectors
       ELSE /\ Goto(c, "fetch")
            /\ IF call[c].mode = "ignore" /\ i \in Embedded THEN UNCHANGED vectors
               ELSE vectors' = [j \in Embedded \cup {i} |->
                                  IF j = i THEN [model |-> call[c].model, dim |-> call[c].dim]
                                  ELSE vectors[j]]
  /\ UNCHANGED <<rows, unused, registry>>

Next ==
  \/ SaveRow \/ DeleteRow
  \/ \E c \in Conns :
       \/ Open(c) \/ Sweep(c) \/ Fetch(c) \/ Stop(c)
       \/ Lookup(c) \/ Scan(c) \/ Register(c) \/ ReadBack(c) \/ Write(c)

Spec == Init /\ [][Next]_vars

-----------------------------------------------------------------------------
CallRec == [pc : {"closed", "idle", "fetch", "lookup", "scan", "register", "readback", "write"},
            mode : {"ignore", "replace"}, model : Models \cup {"none"},
            expected : Dims \cup {0}, id : Ids \cup {0}, dim : Dims \cup {0}]

(* Shape of the tables; a vector always belongs to a row that is there.     *)
TypeOK ==
  /\ rows \subseteq Ids /\ unused \subseteq Ids
  /\ Embedded \subseteq rows
  /\ vectors \in [Embedded -> [model : Models, dim : Dims]]
  /\ registry \in [Models -> Dims \cup {0}]
  /\ call \in [Conns -> CallRec]

(* Every stored vector of a registered model has the registered length,     *)
(* whoever embeds at the same time and whatever lengths the model answers.  *)
RegistryHolds ==
  \A i \in Embedded : registry[vectors[i].model] \in {0, vectors[i].dim}

OneLength(m) == \A i, j \in Embedded :
  vectors[i].model = m /\ vectors[j].model = m => vectors[i].dim = vectors[j].dim

(* "One model name can never accumulate vectors with incompatible           *)
(* dimensions": no step mixes lengths in a model that has one.              *)
NeverMixed == [][\A m \in Models : OneLength(m) => OneLength(m)']_vars

(* Why: between the scan and the registration no vector of another length   *)
(* can appear while the model is still unregistered, and whoever writes has *)
(* seen the registered length to be its own.                                *)
StoreInv ==
  \A c \in Conns :
    /\ call[c].pc \in {"lookup", "scan", "register", "readback", "write"} =>
         call[c].model \in Models /\ call[c].id \in Ids
    /\ call[c].pc \in {"scan", "register", "readback", "write"} => call[c].dim \in Dims
    /\ At(c, "register") =>
         registry[call[c].model] # 0 \/ LengthsOf(call[c].model) \subseteq {call[c].dim}
    /\ At(c, "write") => registry[call[c].model] = call[c].dim
    /\ At(c, "fetch") => call[c].model \in Models

(* The inductive invariant behind the proofs.                               *)
IndInv == TypeOK /\ RegistryHolds /\ StoreInv
=============================================================================
