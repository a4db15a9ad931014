--------------------------- MODULE StoreFileProofs ---------------------------
(***************************************************************************)
(* Proofs about what the connections to one file of the memory store share *)
(* outside its rows: one length per embedding model, for every number of   *)
(* connections, rows, models and lengths, and the schema, the version and  *)
(* the binding of the file, for every number of opens, identities and      *)
(* faults.                                                                 *)
(***************************************************************************)
EXTENDS Embeddings, SchemaMigration, TLAPS

-----------------------------------------------------------------------------
(* Vectors and the registry of dimensions. *)

USE DEF At, Embedded

(* A length of a model is the length of one of its vectors.                 *)
LEMMA InLengths ==
  ASSUME NEW m, NEW d
  PROVE  d \in LengthsOf(m) <=> \E i \in Embedded : vectors[i].model = m /\ vectors[i].dim = d
BY DEF LengthsOf

LEMMA RecTyped == Closed \in CallRec /\ Idle \in CallRec /\ Idle.pc = "idle"
                  /\ Closed.pc = "closed"
BY DEF Closed, Idle, CallRec

(* Moving on to another statement.                                          *)
LEMMA GotoTyped ==
  ASSUME TypeOK, NEW c \in Conns, Goto(c, "fetch") \/ Goto(c, "lookup") \/ Goto(c, "scan")
           \/ Goto(c, "register") \/ Goto(c, "readback") \/ Goto(c, "write")
  PROVE  /\ call' \in [Conns -> CallRec]
         /\ \A d \in Conns \ {c} : call'[d] = call[d]
         /\ call'[c].model = call[c].model /\ call'[c].dim = call[c].dim
         /\ call'[c].id = call[c].id /\ call'[c].mode = call[c].mode
<1>1. call[c] \in CallRec
  BY DEF TypeOK
<1>2. PICK p \in {"fetch", "lookup", "scan", "register", "readback", "write"} :
        call' = [call EXCEPT ![c] = [call[c] EXCEPT !.pc = p]]
  BY DEF Goto
<1>3. /\ [call[c] EXCEPT !.pc = p] \in CallRec
      /\ [call[c] EXCEPT !.pc = p].model = call[c].model
      /\ [call[c] EXCEPT !.pc = p].dim = call[c].dim
      /\ [call[c] EXCEPT !.pc = p].id = call[c].id
      /\ [call[c] EXCEPT !.pc = p].mode = call[c].mode
  BY <1>1 DEF CallRec
<1>4. call'[c] = [call[c] EXCEPT !.pc = p] /\ \A d \in Conns \ {c} : call'[d] = call[d]
  BY <1>2 DEF TypeOK
<1>. QED
  BY <1>2, <1>3, <1>4 DEF TypeOK

LEMMA GotoPc ==
  ASSUME TypeOK, NEW c \in Conns, NEW p, Goto(c, p) PROVE call'[c].pc = p
<1>1. call[c] \in CallRec
  BY DEF TypeOK
<1>. QED
  BY <1>1 DEF Goto, TypeOK, CallRec

(* A refused vector: back to the sweep or to rest.                          *)
LEMMA RefuseTyped ==
  ASSUME TypeOK, StoreInv, NEW c \in Conns, Refuse(c), call[c].model \in Models
  PROVE  /\ call' \in [Conns -> CallRec]
         /\ \A d \in Conns \ {c} : call'[d] = call[d]
         /\ call'[c].pc \in {"idle", "fetch"}
         /\ call'[c].pc = "fetch" => call'[c].model \in Models
<1>1. CASE call' = [call EXCEPT ![c] = Idle]
  BY <1>1, RecTyped DEF TypeOK
<1>2. CASE Goto(c, "fetch")
  BY <1>2, GotoTyped, GotoPc
<1>. QED
  BY <1>1, <1>2 DEF Refuse

(* What is true of the record of one connection, the registry and the       *)
(* vectors being what they are.                                             *)
Sound(c) ==
  /\ call[c].pc \in {"lookup", "scan", "register", "readback", "write"} =>
       call[c].model \in Models /\ call[c].id \in Ids
  /\ call[c].pc \in {"scan", "register", "readback", "write"} => call[c].dim \in Dims
  /\ At(c, "register") =>
       registry[call[c].model] # 0 \/ LengthsOf(call[c].model) \subseteq {call[c].dim}
  /\ At(c, "write") => registry[call[c].model] = call[c].dim
  /\ At(c, "fetch") => call[c].model \in Models

(* The tables as another connection leaves them: the registry only grows,   *)
(* and an unregistered model gains no vector.                               *)
TablesGrow ==
  /\ \A m \in Models : registry[m] # 0 => registry'[m] = registry[m]
  /\ \A m \in Models : registry[m] # 0 \/ LengthsOf(m)' \subseteq LengthsOf(m)

LEMMA OthersSound ==
  ASSUME NEW c \in Conns, Sound(c), TablesGrow, call'[c] = call[c], TypeOK
  PROVE  Sound(c)'
<1>1. \A m \in Models : registry[m] \in Nat /\ (\A d \in Dims : d # 0)
  BY EmbedAssumption DEF TypeOK
<1>. QED
  BY <1>1 DEF Sound, TablesGrow

LEMMA SameTables == UNCHANGED <<vectors, registry>> => TablesGrow
BY DEF TablesGrow, LengthsOf

(* One connection moves and the rest stand still.                           *)
LEMMA Combine ==
  ASSUME IndInv, NEW c \in Conns, \A d \in Conns \ {c} : call'[d] = call[d],
         TablesGrow, Sound(c)'
  PROVE  StoreInv'
<1>1. \A d \in Conns : Sound(d)
  BY DEF IndInv, StoreInv, Sound
<1>2. \A d \in Conns : Sound(d)'
  BY <1>1, OthersSound DEF IndInv
<1>. QED
  BY <1>2 DEF StoreInv, Sound

(* The registry after migrate: only entries that were missing are new, and  *)
(* they are the length all vectors of the model have.                       *)
LEMMA OpenEffect ==
  ASSUME IndInv, NEW c \in Conns, Open(c)
  PROVE  /\ registry' \in [Models -> Dims \cup {0}] /\ RegistryHolds' /\ TablesGrow
<1>1. registry' = [m \in Models |-> IF registry[m] = 0 /\ \E d \in Dims : LengthsOf(m) = {d}
                                    THEN CHOOSE d \in Dims : LengthsOf(m) = {d}
                                    ELSE registry[m]]
  BY DEF Open
<1>2. \A m \in Models : \/ registry'[m] = registry[m]
                        \/ /\ registry[m] = 0 /\ registry'[m] \in Dims
                           /\ LengthsOf(m) = {registry'[m]}
  BY <1>1
<1>3. registry' \in [Models -> Dims \cup {0}]
  BY <1>1, <1>2 DEF IndInv, TypeOK
<1>4. TablesGrow
  BY <1>2 DEF TablesGrow, Open, LengthsOf
<1>5. ASSUME NEW i \in Embedded PROVE registry'[vectors[i].model] \in {0, vectors[i].dim}
  <2>1. vectors[i].model \in Models
    BY DEF IndInv, TypeOK
  <2>2. vectors[i].dim \in LengthsOf(vectors[i].model)
    BY InLengths
  <2>. QED
    BY <2>1, <2>2, <1>2 DEF IndInv, RegistryHolds
<1>. QED
  BY <1>3, <1>4, <1>5 DEF RegistryHolds, Open

(* A row and its vector go.                                                 *)
LEMMA DeleteEffect ==
  ASSUME IndInv, DeleteRow
  PROVE  TypeOK' /\ RegistryHolds' /\ TablesGrow
<1>1. PICK i \in rows : rows' = rows \ {i} /\ vectors' = Restrict(vectors, Embedded \ {i})
  BY DEF DeleteRow
<1>2. Embedded' = Embedded \ {i} /\ \A j \in Embedded' : vectors'[j] = vectors[j]
  BY <1>1 DEF Restrict
<1>3. vectors' \in [Embedded' -> [model : Models, dim : Dims]]
  BY <1>1, <1>2 DEF IndInv, TypeOK, Restrict
<1>4. TypeOK'
  BY <1>1, <1>2, <1>3 DEF IndInv, TypeOK, DeleteRow
<1>5. RegistryHolds'
  BY <1>2 DEF IndInv, RegistryHolds, DeleteRow
<1>6. \A m : LengthsOf(m)' \subseteq LengthsOf(m)
  BY <1>2 DEF LengthsOf
<1>. QED
  BY <1>4, <1>5, <1>6 DEF TablesGrow, DeleteRow

(* A vector is stored: its length is the registered one.                    *)
LEMMA WriteEffect ==
  ASSUME IndInv, NEW c \in Conns, Write(c)
  PROVE  /\ Embedded' \subseteq rows /\ vectors' \in [Embedded' -> [model : Models, dim : Dims]]
         /\ RegistryHolds' /\ TablesGrow
         /\ \A m \in Models : OneLength(m) => OneLength(m)'
<1>1. /\ call[c].model \in Models /\ call[c].dim \in Dims
      /\ registry[call[c].model] = call[c].dim /\ call[c].dim # 0
  BY EmbedAssumption DEF IndInv, StoreInv, Write
<1>2. CASE UNCHANGED vectors
  BY <1>2 DEF IndInv, TypeOK, RegistryHolds, TablesGrow, LengthsOf, OneLength, Write
<1>3. CASE call[c].id \in rows /\
           vectors' = [j \in Embedded \cup {call[c].id} |->
                         IF j = call[c].id THEN [model |-> call[c].model, dim |-> call[c].dim]
                         ELSE vectors[j]]
  <2>0. PICK v \in [model : Models, dim : Dims] :
          v.model = call[c].model /\ v.dim = call[c].dim
          /\ v = [model |-> call[c].model, dim |-> call[c].dim]
    BY <1>1
  <2>1. vectors' = [j \in Embedded \cup {call[c].id} |->
                      IF j = call[c].id THEN v ELSE vectors[j]]
    BY <1>3, <2>0
  <2>2. Embedded' = Embedded \cup {call[c].id} /\ Embedded' \subseteq rows
    BY <1>3, <2>1 DEF IndInv, TypeOK
  <2>3. vectors' \in [Embedded' -> [model : Models, dim : Dims]]
    BY <2>1, <2>2 DEF IndInv, TypeOK
  <2>4. \A j \in Embedded' : (j = call[c].id /\ vectors'[j] = v)
                             \/ (j \in Embedded /\ vectors'[j] = vectors[j])
    BY <2>1, <2>2
  <2>5. registry' = registry
    BY DEF Write
  <2>6. RegistryHolds'
    BY <2>0, <2>4, <2>5, <1>1 DEF IndInv, RegistryHolds
  <2>7. ASSUME NEW m \in Models, registry[m] = 0 PROVE LengthsOf(m)' \subseteq LengthsOf(m)
    <3>1. m # call[c].model
      BY <2>7, <1>1
    <3>. QED
      BY <3>1, <2>0, <2>4 DEF LengthsOf
  <2>8. TablesGrow
    BY <2>5, <2>7 DEF TablesGrow
  <2>9. ASSUME NEW m \in Models, OneLength(m) PROVE OneLength(m)'
    <3>1. \A j \in Embedded : vectors[j].model = call[c].model => vectors[j].dim = call[c].dim
      BY <1>1 DEF IndInv, RegistryHolds
    <3>. QED
      BY <3>1, <2>0, <2>4, <2>9 DEF OneLength
  <2>. QED
    BY <2>2, <2>3, <2>6, <2>8, <2>9
<1>. QED
  BY <1>2, <1>3 DEF Write

LEMMA RegisterEffect ==
  ASSUME IndInv, NEW c \in Conns, Register(c)
  PROVE  registry' \in [Models -> Dims \cup {0}] /\ RegistryHolds' /\ TablesGrow
<1>1. /\ call[c].model \in Models /\ call[c].dim \in Dims
      /\ registry[call[c].model] # 0 \/ LengthsOf(call[c].model) \subseteq {call[c].dim}
  BY DEF IndInv, StoreInv, Register
<1>2. \A m \in Models : registry'[m] = IF m = call[c].model /\ registry[m] = 0
                                       THEN call[c].dim ELSE registry[m]
  BY <1>1 DEF IndInv, TypeOK, Register
<1>3. registry' \in [Models -> Dims \cup {0}]
  BY <1>1, <1>2 DEF IndInv, TypeOK, Register
<1>4. TablesGrow
  BY <1>2 DEF TablesGrow, LengthsOf, Register
<1>5. ASSUME NEW i \in Embedded PROVE registry'[vectors[i].model] \in {0, vectors[i].dim}
  <2>1. vectors[i].model \in Models
    BY DEF IndInv, TypeOK
  <2>2. vectors[i].dim \in LengthsOf(vectors[i].model)
    BY InLengths
  <2>. QED
    BY <2>1, <2>2, <1>1, <1>2 DEF IndInv, RegistryHolds
<1>. QED
  BY <1>3, <1>4, <1>5 DEF RegistryHolds, Register

LEMMA StepInv == IndInv /\ [Next]_vars => IndInv'
<1>. SUFFICES ASSUME IndInv, [Next]_vars PROVE IndInv'
  OBVIOUS
<1>t. TypeOK /\ StoreInv /\ RegistryHolds
  BY DEF IndInv
<1>0. CASE UNCHANGED vars
  BY <1>0 DEF vars, IndInv, TypeOK, RegistryHolds, StoreInv, LengthsOf
<1>1. CASE SaveRow
  BY <1>1 DEF SaveRow, IndInv, TypeOK, RegistryHolds, StoreInv, LengthsOf
<1>2. CASE DeleteRow
  <2>1. TypeOK' /\ RegistryHolds' /\ TablesGrow
    BY <1>2, DeleteEffect
  <2>2. \A d \in Conns : Sound(d)
    BY DEF IndInv, StoreInv, Sound
  <2>3. \A d \in Conns : Sound(d)'
    BY <2>1, <2>2, <1>t, <1>2, OthersSound DEF DeleteRow
  <2>. QED
    BY <2>1, <2>3 DEF IndInv, StoreInv, Sound
<1>3. ASSUME NEW c \in Conns,
             \/ Open(c) \/ Sweep(c) \/ Fetch(c) \/ Stop(c)
             \/ Lookup(c) \/ Scan(c) \/ Register(c) \/ ReadBack(c) \/ Write(c)
      PROVE  IndInv'
  <2>s. Sound(c) /\ call[c] \in CallRec
    BY <1>t DEF StoreInv, Sound, TypeOK
  <2>1. CASE Open(c)
    <3>1. call' \in [Conns -> CallRec] /\ call'[c].pc = "idle"
          /\ \A d \in Conns \ {c} : call'[d] = call[d]
      BY <2>1, <1>t, RecTyped DEF Open, TypeOK
    <3>2. Sound(c)'
      BY <3>1 DEF Sound
    <3>3. registry' \in [Models -> Dims \cup {0}] /\ RegistryHolds' /\ TablesGrow
      BY <2>1, OpenEffect
    <3>4. TypeOK'
      BY <3>1, <3>3, <2>1, <1>t DEF TypeOK, Open
    <3>. QED
      BY <3>1, <3>2, <3>3, <3>4, Combine DEF IndInv
  <2>2. CASE Sweep(c)
    <3>1. PICK m \in Models, mode \in {"ignore", "replace"}, e \in Dims \cup {0} :
            call' = [call EXCEPT ![c] = [Idle EXCEPT !.pc = "fetch", !.mode = mode,
                                                     !.model = m, !.expected = e]]
      BY <2>2 DEF Sweep
    <3>2. PICK k \in CallRec :
            k.pc = "fetch" /\ k.model = m
            /\ k = [Idle EXCEPT !.pc = "fetch", !.mode = mode, !.model = m, !.expected = e]
      BY RecTyped DEF CallRec, Idle, Closed
    <3>3. call' \in [Conns -> CallRec] /\ call'[c] = k
          /\ \A d \in Conns \ {c} : call'[d] = call[d]
      BY <3>1, <3>2, <1>t DEF TypeOK
    <3>4. Sound(c)'
      BY <3>2, <3>3 DEF Sound
    <3>. QED
      BY <3>3, <3>4, <2>2, <1>t, SameTables, Combine DEF Sweep, IndInv, TypeOK, RegistryHolds
  <2>3. CASE Fetch(c)
    <3>1. PICK i \in Ids, d \in Dims \cup {0}, e \in Dims \cup {0} :
            \/ call' = [call EXCEPT ![c] = Idle]
            \/ call' = [call EXCEPT ![c] = [call[c] EXCEPT !.pc = "lookup", !.id = i,
                                                           !.dim = d, !.expected = e]]
      <4>1. PICK i \in Pending(c), d \in Dims \cup {0} :
              IF call[c].mode = "replace" /\ call[c].expected \notin {0, d}
              THEN call' = [call EXCEPT ![c] = Idle]
              ELSE call' = [call EXCEPT ![c] = [call[c] EXCEPT !.pc = "lookup", !.id = i,
                     !.dim = d, !.expected = IF call[c].mode = "replace" THEN d ELSE 0]]
        BY <2>3 DEF Fetch
      <4>2. i \in Ids
        BY <1>t DEF Pending, TypeOK
      <4>3. PICK e \in Dims \cup {0} : e = IF call[c].mode = "replace" THEN d ELSE 0
        OBVIOUS
      <4>. QED
        BY <4>1, <4>2, <4>3
    <3>2. PICK k \in CallRec : /\ k.pc = "lookup" => k.model \in Models /\ k.id \in Ids
                               /\ k.pc \in {"lookup", "idle"}
                               /\ call' = [call EXCEPT ![c] = k]
      <4>1. CASE call' = [call EXCEPT ![c] = Idle]
        BY <4>1, RecTyped
      <4>2. CASE call' = [call EXCEPT ![c] = [call[c] EXCEPT !.pc = "lookup", !.id = i,
                                                             !.dim = d, !.expected = e]]
        <5>1. call[c].model \in Models
          BY <2>3, <2>s DEF Fetch, Sound
        <5>. QED
          BY <5>1, <4>2, <2>s DEF CallRec
      <4>. QED
        BY <4>1, <4>2, <3>1
    <3>3. call' \in [Conns -> CallRec] /\ call'[c] = k
          /\ \A q \in Conns \ {c} : call'[q] = call[q]
      BY <3>2, <1>t DEF TypeOK
    <3>4. Sound(c)'
      BY <3>2, <3>3 DEF Sound
    <3>. QED
      BY <3>3, <3>4, <2>3, <1>t, SameTables, Combine DEF Fetch, IndInv, TypeOK, RegistryHolds
  <2>4. CASE Stop(c)
    <3>1. call' \in [Conns -> CallRec] /\ call'[c].pc \in {"idle", "closed"}
          /\ \A d \in Conns \ {c} : call'[d] = call[d]
      BY <2>4, <1>t, RecTyped DEF Stop, TypeOK
    <3>2. Sound(c)'
      BY <3>1 DEF Sound
    <3>. QED
      BY <3>1, <3>2, <2>4, <1>t, SameTables, Combine DEF Stop, IndInv, TypeOK, RegistryHolds
  <2>5. CASE Lookup(c)
    <3>1. /\ call' \in [Conns -> CallRec] /\ Sound(c)'
          /\ \A d \in Conns \ {c} : call'[d] = call[d]
      <4>m. call[c].model \in Models /\ call[c].id \in Ids /\ call[c].dim \in Dims \cup {0}
        BY <2>5, <2>s DEF Lookup, Sound, CallRec
      <4>1. CASE Refuse(c)
        BY <4>1, <4>m, <1>t, RefuseTyped DEF Sound
      <4>2. CASE call[c].dim # 0 /\ registry[call[c].model] = call[c].dim /\ Goto(c, "write")
        BY <4>2, <4>m, <2>5, <1>t, GotoTyped, GotoPc DEF Sound, Lookup
      <4>3. CASE call[c].dim # 0 /\ Goto(c, "scan")
        BY <4>3, <4>m, <1>t, GotoTyped, GotoPc DEF Sound
      <4>. QED
        BY <4>1, <4>2, <4>3, <2>5 DEF Lookup
    <3>. QED
      BY <3>1, <2>5, <1>t, SameTables, Combine DEF Lookup, IndInv, TypeOK, RegistryHolds
  <2>6. CASE Scan(c)
    <3>1. /\ call' \in [Conns -> CallRec] /\ Sound(c)'
          /\ \A d \in Conns \ {c} : call'[d] = call[d]
      <4>m. call[c].model \in Models /\ call[c].id \in Ids /\ call[c].dim \in Dims
        BY <2>6, <2>s DEF Scan, Sound
      <4>1. CASE Refuse(c)
        BY <4>1, <4>m, <1>t, RefuseTyped DEF Sound
      <4>2. CASE LengthsOf(call[c].model) \subseteq {call[c].dim} /\ Goto(c, "register")
        <5>1. PICK m \in Models, d \in Dims : m = call[c].model /\ d = call[c].dim
          BY <4>m
        <5>2. call'[c].pc = "register" /\ call'[c].model = m /\ call'[c].dim = d
              /\ call'[c].id \in Ids
          BY <5>1, <4>2, <4>m, <1>t, GotoTyped, GotoPc
        <5>3. LengthsOf(m)' \subseteq {d}
          BY <5>1, <4>2, <2>6 DEF Scan, LengthsOf
        <5>4. Sound(c)'
          BY <5>2, <5>3 DEF Sound, LengthsOf
        <5>. QED
          BY <5>4, <4>2, <1>t, GotoTyped
      <4>. QED
        BY <4>1, <4>2, <2>6 DEF Scan
    <3>. QED
      BY <3>1, <2>6, <1>t, SameTables, Combine DEF Scan, IndInv, TypeOK, RegistryHolds
  <2>7. CASE Register(c)
    <3>1. /\ call' \in [Conns -> CallRec] /\ Sound(c)'
          /\ \A d \in Conns \ {c} : call'[d] = call[d]
      BY <2>7, <2>s, <1>t, GotoTyped, GotoPc DEF Sound, Register
    <3>2. registry' \in [Models -> Dims \cup {0}] /\ RegistryHolds' /\ TablesGrow
      BY <2>7, RegisterEffect
    <3>3. TypeOK'
      BY <3>1, <3>2, <2>7, <1>t DEF TypeOK, Register
    <3>. QED
      BY <3>1, <3>2, <3>3, Combine DEF IndInv
  <2>8. CASE ReadBack(c)
    <3>1. /\ call' \in [Conns -> CallRec] /\ Sound(c)'
          /\ \A d \in Conns \ {c} : call'[d] = call[d]
      <4>m. call[c].model \in Models /\ call[c].id \in Ids /\ call[c].dim \in Dims
        BY <2>8, <2>s DEF ReadBack, Sound
      <4>1. CASE Refuse(c)
        BY <4>1, <4>m, <1>t, RefuseTyped DEF Sound
      <4>2. CASE registry[call[c].model] = call[c].dim /\ Goto(c, "write")
        BY <4>2, <4>m, <2>8, <1>t, GotoTyped, GotoPc DEF Sound, ReadBack
      <4>. QED
        BY <4>1, <4>2, <2>8 DEF ReadBack
    <3>. QED
      BY <3>1, <2>8, <1>t, SameTables, Combine DEF ReadBack, IndInv, TypeOK, RegistryHolds
  <2>9. CASE Write(c)
    <3>1. /\ call' \in [Conns -> CallRec] /\ Sound(c)'
          /\ \A d \in Conns \ {c} : call'[d] = call[d]
      <4>m. call[c].model \in Models
        BY <2>9, <2>s DEF Write, Sound
      <4>1. CASE Refuse(c)
        BY <4>1, <4>m, <1>t, RefuseTyped DEF Sound
      <4>2. CASE Goto(c, "fetch")
        BY <4>2, <4>m, <1>t, GotoTyped, GotoPc DEF Sound
      <4>. QED
        BY <4>1, <4>2, <2>9 DEF Write
    <3>2. /\ Embedded' \subseteq rows
          /\ vectors' \in [Embedded' -> [model : Models, dim : Dims]]
          /\ RegistryHolds' /\ TablesGrow
      BY <2>9, WriteEffect
    <3>3. TypeOK'
      BY <3>1, <3>2, <2>9, <1>t DEF TypeOK, Write
    <3>. QED
      BY <3>1, <3>2, <3>3, Combine DEF IndInv
  <2>. QED
    BY <1>3, <2>1, <2>2, <2>3, <2>4, <2>5, <2>6, <2>7, <2>8, <2>9
<1>. QED
  BY <1>0, <1>1, <1>2, <1>3 DEF Next

LEMMA InitInv == Init => IndInv
<1>. SUFFICES ASSUME Init PROVE IndInv
  OBVIOUS
<1>1. PICK S \in SUBSET rows : vectors \in [S -> [model : Models, dim : Dims]]
  BY DEF Init
<1>2. TypeOK /\ \A c \in Conns : call[c].pc = "closed"
  BY <1>1, RecTyped DEF Init, TypeOK
<1>. QED
  BY <1>1, <1>2 DEF Init, IndInv, RegistryHolds, StoreInv

(* The tables and the calls keep their types, and no vector outlives its    *)
(* row.                                                                     *)
THEOREM Invariance == Spec => []IndInv
BY InitInv, StepInv, PTL DEF Spec

(* The tables and the calls in progress keep their shape, and no vector     *)
(* outlives its row: the foreign key refuses the vector of a row deleted    *)
(* while its text was being embedded.                                       *)
THEOREM TypeCorrect == Spec => []TypeOK
BY Invariance, PTL DEF IndInv

(* Every vector of a registered model has the registered length, for any    *)
(* number of connections embedding and re-embedding at once.                *)
THEOREM RegistryCorrect == Spec => []RegistryHolds
BY Invariance, PTL DEF IndInv

(* No step, of whatever connection, ever mixes lengths in a model whose     *)
(* vectors had one, even in a file written before the registry existed.     *)
THEOREM NoMixing == Spec => NeverMixed
<1>1. IndInv /\ [Next]_vars => [\A m \in Models : OneLength(m) => OneLength(m)']_vars
  <2>. SUFFICES ASSUME IndInv, Next
                PROVE  \A m \in Models : OneLength(m) => OneLength(m)'
    OBVIOUS
  <2>1. ASSUME UNCHANGED vectors PROVE \A m \in Models : OneLength(m) => OneLength(m)'
    BY <2>1 DEF OneLength
  <2>2. CASE DeleteRow
    <3>1. PICK i \in rows : vectors' = Restrict(vectors, Embedded \ {i})
      BY <2>2 DEF DeleteRow
    <3>2. Embedded' \subseteq Embedded /\ \A j \in Embedded' : vectors'[j] = vectors[j]
      BY <3>1 DEF Restrict
    <3>. QED
      BY <3>2 DEF OneLength
  <2>3. ASSUME NEW c \in Conns, Write(c)
        PROVE  \A m \in Models : OneLength(m) => OneLength(m)'
    BY <2>3, WriteEffect
  <2>. QED
    BY <2>1, <2>2, <2>3
       DEF Next, SaveRow, Open, Sweep, Fetch, Stop, Lookup, Scan, Register, ReadBack
<1>. QED
  BY <1>1, Invariance, PTL DEF Spec, NeverMixed

-----------------------------------------------------------------------------
(* The batches of the schema. *)

(* The statements that add columns, by batch and place.                     *)
Adds(k, i) == (k \in {2, 3, 4, 6} /\ i = 1) \/ (k = 4 /\ i = 2)
ColumnAt(k, i) ==
  CASE k = 2 -> "scope" [] k = 3 -> "metadata" [] k = 4 /\ i = 1 -> "session_id"
    [] k = 4 /\ i = 2 -> "body_sha" [] OTHER -> "body_full"
Added == {"scope", "metadata", "session_id", "body_sha", "body_full"}

(* Only the last statement of a batch stamps, with the batch's number.      *)
Shaped(k, i) ==
  LET s == Batches[k][i] IN
  /\ s.op \in {"make", "add", "stamp"}
  /\ s.op = "stamp" <=> k # 1 /\ i = Len(Batches[k])
  /\ s.op = "stamp" => s = Stamp(k) /\ s.ver = k
  /\ s.op # "stamp" => s # Stamp(k)
  /\ s.op = "add" <=> Adds(k, i)
  /\ s.op = "add" => s.obj = ColumnAt(k, i)
  /\ s.op = "make" => s.obj \notin Added
  /\ k # 1 => s.obj \notin Late

LEMMA Nine == SchemaVersion = 9
  BY DEF SchemaVersion, Batches

LEMMA Shape ==
  \A k \in 1..9 : /\ Len(Batches[k]) \in Nat /\ Len(Batches[k]) >= 2 /\ DOMAIN Batches[k] = 1..Len(Batches[k])
                  /\ \A i \in 1..Len(Batches[k]) : Shaped(k, i)
                  /\ k = 4 => Len(Batches[k]) >= 3
<1> DEFINE Fits(k) == /\ Len(Batches[k]) \in Nat /\ Len(Batches[k]) >= 2 /\ DOMAIN Batches[k] = 1..Len(Batches[k])
                      /\ \A i \in 1..Len(Batches[k]) : Shaped(k, i)
                      /\ k = 4 => Len(Batches[k]) >= 3
<1>1. Fits(1)
  <2>1. Batches[1] = << Make("store_identity"), Make("memories"), Make("idx_memories_project"),
          Make("memories_fts"), Make("embeddings"), Make("embedding_models"), Make("edges") >>
    BY DEF Batches
  <2> QED BY <2>1 DEF Shaped, Make, Adds, ColumnAt, Added, Stamp, Late
<1>2. Fits(2)
  <2>1. Batches[2] = << Add("scope"), Make("idx_memories_scope"), Stamp(2) >>
    BY DEF Batches
  <2> QED BY <2>1 DEF Shaped, Make, Adds, ColumnAt, Added, Stamp, Add, Late
<1>3. Fits(3)
  <2>1. Batches[3] = << Add("metadata"), Stamp(3) >>
    BY DEF Batches
  <2> QED BY <2>1 DEF Shaped, Make, Adds, ColumnAt, Added, Stamp, Add, Late
<1>4. Fits(4)
  <2>1. Batches[4] = << Add("session_id"), Add("body_sha"),
          Make("idx_memories_session"), Make("idx_memories_body_sha"), Stamp(4) >>
    BY DEF Batches
  <2> QED BY <2>1 DEF Shaped, Make, Adds, ColumnAt, Added, Stamp, Add, Late
<1>5. Fits(5)
  <2>1. Batches[5] = << Make("idx_memories_timeline"), Stamp(5) >>
    BY DEF Batches
  <2> QED BY <2>1 DEF Shaped, Make, Adds, ColumnAt, Added, Stamp, Late
<1>6. Fits(6)
  <2>1. Batches[6] = << Add("body_full"), Stamp(6) >>
    BY DEF Batches
  <2> QED BY <2>1 DEF Shaped, Adds, ColumnAt, Added, Stamp, Add, Late
<1>7. Fits(7)
  <2>1. Batches[7] = << Make("entities"), Make("memory_entities"), Make("idx_memory_entities_entity"),
          Make("idx_memory_entities_memory"), Stamp(7) >>
    BY DEF Batches
  <2> QED BY <2>1 DEF Shaped, Make, Adds, ColumnAt, Added, Stamp, Late
<1>8. Fits(8)
  <2>1. Batches[8] = << Make("invocation_provenance"), Make("idx_invocation_provenance_parent"),
          Make("idx_invocation_provenance_invocation"), Stamp(8) >>
    BY DEF Batches
  <2> QED BY <2>1 DEF Shaped, Make, Adds, ColumnAt, Added, Stamp, Late
<1>9. Fits(9)
  <2>1. Batches[9] = << Make("forwarded_event_receipts"), Make("idx_forwarded_receipts_memory"), Stamp(9) >>
    BY DEF Batches
  <2> QED BY <2>1 DEF Shaped, Make, Adds, ColumnAt, Added, Stamp, Late
<1> HIDE DEF Fits
<1>10. \A k \in 1..9 : Fits(k)
  BY <1>1, <1>2, <1>3, <1>4, <1>5, <1>6, <1>7, <1>8, <1>9
<1> QED BY <1>10 DEF Fits

(* Every batch begins with a statement.                                     *)
LEMMA FirstPlace ==
  ASSUME NEW k \in 1..9
  PROVE  1 \in 1..Len(Batches[k]) /\ Shaped(k, 1)
<1>1. PICK n : n = Len(Batches[k])
  OBVIOUS
<1>2. n \in Nat /\ n >= 2 /\ \A i \in 1..n : Shaped(k, i)
  BY <1>1, Shape
<1>3. 1 \in 1..n
  BY <1>2
<1>4. Shaped(k, 1)
  BY <1>2, <1>3
<1> QED BY <1>1, <1>3, <1>4

LEMMA ObjectIn ==
  ASSUME NEW k \in 1..9, NEW x
  PROVE  x \in Objects(k) <=> \E i \in 1..Len(Batches[k]) : Batches[k][i].op # "stamp" /\ x = Batches[k][i].obj
<1>1. DOMAIN Batches[k] = 1..Len(Batches[k]) /\ \A i \in 1..Len(Batches[k]) : Shaped(k, i)
  BY Shape
<1>2. \A i \in 1..Len(Batches[k]) : Batches[k][i] # Stamp(k) <=> Batches[k][i].op # "stamp"
  BY <1>1 DEF Shaped
<1> QED BY <1>1, <1>2 DEF Objects

LEMMA ColumnIn ==
  ASSUME NEW k \in 1..9, NEW x
  PROVE  x \in Columns(k) <=> \E i \in 1..Len(Batches[k]) : Adds(k, i) /\ x = ColumnAt(k, i)
<1>1. DOMAIN Batches[k] = 1..Len(Batches[k]) /\ \A i \in 1..Len(Batches[k]) : Shaped(k, i)
  BY Shape
<1>2. \A i \in 1..Len(Batches[k]) : (Batches[k][i].op = "add" <=> Adds(k, i)) /\ (Adds(k, i) => Batches[k][i].obj = ColumnAt(k, i))
  BY <1>1 DEF Shaped
<1> QED BY <1>1, <1>2 DEF Columns

LEMMA ColumnOnce ==
  ASSUME NEW k, NEW l, NEW i, NEW j, Adds(k, i), Adds(l, j), ColumnAt(k, i) = ColumnAt(l, j)
  PROVE  k = l /\ i = j
BY DEF Adds, ColumnAt

(* A column belongs to one batch.                                           *)
LEMMA ColumnHome ==
  ASSUME NEW k \in 1..9, NEW l \in 1..9, NEW x, x \in Columns(k), x \in Objects(l)
  PROVE  k = l
<1>1. PICK i \in 1..Len(Batches[k]) : Adds(k, i) /\ x = ColumnAt(k, i)
  BY ColumnIn
<1>2. PICK j \in 1..Len(Batches[l]) : Batches[l][j].op # "stamp" /\ x = Batches[l][j].obj
  BY ObjectIn
<1>3. Shaped(l, j)
  BY Shape
<1>4. x \in Added
  BY <1>1 DEF Adds, ColumnAt, Added
<1>5. Adds(l, j) /\ x = ColumnAt(l, j)
  BY <1>2, <1>3, <1>4 DEF Shaped
<1> QED BY <1>1, <1>5, ColumnOnce

-----------------------------------------------------------------------------
(* Opening the file: shape. *)

OpenerPcs == {"closed", "stat", "create", "run", "version", "bind", "check", "open"}
OpenerRec == [pc : OpenerPcs,
              who : Identities \union {NoIdentity}, batch : 1..9, pos : Nat]
TypedOpener(o) == o \in OpenerRec /\ o.pos \in 1..Len(Batches[o.batch])
OpenersTyped == opener \in [Openers -> OpenerRec] /\ \A c \in Openers : TypedOpener(opener[c])

FileTyped ==
  /\ exists \in BOOLEAN /\ cut \in BOOLEAN /\ lowered \in BOOLEAN
  /\ schema \subseteq UpTo(9) /\ version \in 0..9
  /\ identity \in Identities \union {NoIdentity} /\ faults \in 0..MaxFaults

ShapeInv == FileTyped /\ OpenersTyped

LEMMA ShapeIsType == ShapeInv => StoreTypeOK
<1> SUFFICES ASSUME ShapeInv PROVE StoreTypeOK
  OBVIOUS
<1>1. FileTyped /\ \A c \in Openers : TypedOpener(opener[c])
  BY DEF ShapeInv, OpenersTyped
<1>2. \A c \in Openers : /\ opener[c].pc \in {"closed", "stat", "create", "run", "version", "bind", "check", "open"}
                         /\ opener[c].who \in Identities \union {NoIdentity}
                         /\ opener[c].batch \in 1..9
                         /\ opener[c].pos \in 1 .. Len(Batches[opener[c].batch])
  BY <1>1 DEF TypedOpener, OpenerRec, OpenerPcs
<1> QED BY <1>1, <1>2, Nine DEF StoreTypeOK, FileTyped

LEMMA NotOpenTyped == TypedOpener(NotOpen) /\ NotOpen.pc = "closed" /\ NotOpen.who = NoIdentity /\ NotOpen.batch = 1 /\ NotOpen.pos = 1
<1>1. NotOpen \in OpenerRec /\ NotOpen.pc = "closed" /\ NotOpen.who = NoIdentity /\ NotOpen.batch = 1 /\ NotOpen.pos = 1
  BY DEF NotOpen, OpenerRec, OpenerPcs
<1>2. 1 \in 1..Len(Batches[1])
  BY FirstPlace
<1> QED BY <1>1, <1>2 DEF TypedOpener

(* Moving on leaves the statement an opener is at alone.                    *)
LEMMA MoveTyped ==
  ASSUME NEW o, TypedOpener(o), NEW pc \in OpenerPcs
  PROVE  /\ TypedOpener([o EXCEPT !.pc = pc])
         /\ [o EXCEPT !.pc = pc].pc = pc /\ [o EXCEPT !.pc = pc].who = o.who
         /\ [o EXCEPT !.pc = pc].batch = o.batch /\ [o EXCEPT !.pc = pc].pos = o.pos
<1>1. o \in OpenerRec /\ o.pos \in 1..Len(Batches[o.batch])
  BY DEF TypedOpener
<1>2. PICK x : x = [o EXCEPT !.pc = pc]
  OBVIOUS
<1>3. x \in OpenerRec /\ x.pc = pc /\ x.who = o.who /\ x.batch = o.batch /\ x.pos = o.pos
  BY <1>1, <1>2 DEF OpenerRec
<1> QED BY <1>1, <1>2, <1>3 DEF TypedOpener

LEMMA ReadyIs ==
  ASSUME NEW o, TypedOpener(o)
  PROVE  /\ TypedOpener(Ready(o)) /\ Ready(o).who = o.who /\ Ready(o).batch = 1 /\ Ready(o).pos = 1
         /\ Ready(o).pc = IF o.who = NoIdentity THEN "open" ELSE "bind"
<1>1. PICK pc \in OpenerPcs : pc = IF o.who = NoIdentity THEN "open" ELSE "bind"
  BY DEF OpenerPcs
<1>2. PICK x : x = Ready(o)
  OBVIOUS
<1>3. PICK k \in 1..9 : k = 1
  OBVIOUS
<1>4. PICK p \in 1..Len(Batches[k]) : p = 1
  <2>1. 1 \in 1..Len(Batches[k])
    BY <1>3, FirstPlace
  <2> QED BY <2>1
<1>5. x = [o EXCEPT !.pc = pc, !.batch = k, !.pos = p]
  BY <1>1, <1>2, <1>3, <1>4 DEF Ready
<1>6. TypedOpener(x) /\ x.pc = pc /\ x.who = o.who /\ x.batch = k /\ x.pos = p
  <2>1. o \in OpenerRec
    BY DEF TypedOpener
  <2>2. p \in Nat
    BY <1>4
  <2>3. x \in OpenerRec /\ x.pc = pc /\ x.who = o.who /\ x.batch = k /\ x.pos = p
    BY <1>1, <1>5, <2>1, <2>2 DEF OpenerRec
  <2> QED BY <2>3 DEF TypedOpener
<1> QED BY <1>1, <1>2, <1>3, <1>4, <1>6

(* The four places after a statement: the next one of the batch, the        *)
(* version, the end, the next batch.                                        *)
LEMMA FollowingIs ==
  ASSUME NEW o, TypedOpener(o), o.pc = "run"
  PROVE  /\ TypedOpener(Following(o)) /\ Following(o).who = o.who
         /\ \/ /\ o.pos < Len(Batches[o.batch])
               /\ Following(o).pc = "run" /\ Following(o).batch = o.batch /\ Following(o).pos = o.pos + 1
            \/ o.pos = Len(Batches[o.batch]) /\ o.batch = 1 /\ Following(o).pc = "version"
            \/ /\ o.pos = Len(Batches[o.batch]) /\ o.batch = 9
               /\ Following(o).pc = IF o.who = NoIdentity THEN "open" ELSE "bind"
            \/ /\ o.pos = Len(Batches[o.batch]) /\ o.batch \in 2..8
               /\ Following(o).pc = "run" /\ Following(o).batch = o.batch + 1 /\ Following(o).pos = 1
<1>1. o \in OpenerRec /\ o.batch \in 1..9 /\ o.pos \in 1..Len(Batches[o.batch]) /\ o.pos \in Nat
  BY DEF TypedOpener, OpenerRec
<1>2. Len(Batches[o.batch]) \in Nat
  BY <1>1, Shape
<1>3. PICK x : x = Following(o)
  OBVIOUS
<1>4. CASE o.pos < Len(Batches[o.batch])
  <2>1. x = [o EXCEPT !.pos = o.pos + 1]
    BY <1>3, <1>4 DEF Following
  <2>2. x \in OpenerRec /\ x.pc = "run" /\ x.who = o.who /\ x.batch = o.batch /\ x.pos = o.pos + 1
    BY <1>1, <2>1 DEF OpenerRec
  <2>3. x.pos \in 1..Len(Batches[o.batch])
    BY <1>1, <1>2, <1>4, <2>2
  <2> QED BY <1>3, <1>4, <2>2, <2>3 DEF TypedOpener
<1>5. CASE ~(o.pos < Len(Batches[o.batch]))
  <2>1. o.pos = Len(Batches[o.batch])
    BY <1>1, <1>2, <1>5
  <2>2. CASE o.batch = 1
    <3>1. x = [o EXCEPT !.pc = "version"]
      BY <1>3, <1>5, <2>2 DEF Following
    <3>2. TypedOpener(x) /\ x.pc = "version" /\ x.who = o.who
      BY <3>1, MoveTyped DEF OpenerPcs
    <3> QED BY <1>3, <2>1, <2>2, <3>2
  <2>3. CASE o.batch = 9
    <3>1. x = Ready(o)
      BY <1>3, <1>5, <2>3, Nine DEF Following
    <3>2. TypedOpener(x) /\ x.who = o.who /\ x.pc = IF o.who = NoIdentity THEN "open" ELSE "bind"
      BY <3>1, ReadyIs
    <3> QED BY <1>3, <2>1, <2>3, <3>2
  <2>4. CASE o.batch \in 2..8
    <3>1. x = [o EXCEPT !.batch = o.batch + 1, !.pos = 1]
      BY <1>3, <1>5, <2>4, Nine DEF Following
    <3>2. PICK k \in 1..9 : k = o.batch + 1
      BY <2>4
    <3>3. 1 \in 1..Len(Batches[k])
      BY FirstPlace
    <3>4. x \in OpenerRec /\ x.pc = "run" /\ x.who = o.who /\ x.batch = k /\ x.pos = 1
      BY <1>1, <3>1, <3>2 DEF OpenerRec
    <3> QED BY <1>3, <2>1, <2>4, <3>2, <3>3, <3>4 DEF TypedOpener
  <2> QED BY <1>1, <2>2, <2>3, <2>4
<1> QED BY <1>4, <1>5

(* Above which batches an open starts, by the version it read.              *)
LEMMA FirstForIs ==
  ASSUME NEW o, TypedOpener(o), NEW v \in 0..9
  PROVE  /\ TypedOpener(FirstFor(o, v)) /\ FirstFor(o, v).who = o.who
         /\ \/ v = 9 /\ FirstFor(o, v).pc = IF o.who = NoIdentity THEN "open" ELSE "bind"
            \/ /\ v # 9 /\ FirstFor(o, v).pc = "run" /\ FirstFor(o, v).pos = 1
               /\ FirstFor(o, v).batch = IF v < 2 THEN 2 ELSE v + 1
<1>1. PICK x : x = FirstFor(o, v)
  OBVIOUS
<1>2. CASE v = 9
  <2>1. x = Ready(o)
    BY <1>1, <1>2, Nine DEF FirstFor, FirstBatch
  <2> QED BY <1>1, <1>2, <2>1, ReadyIs
<1>3. CASE v # 9
  <2>1. PICK k \in 1..9 : k = IF v < 2 THEN 2 ELSE v + 1
    BY <1>3
  <2>2. PICK p \in 1..Len(Batches[k]) : p = 1
    <3>1. 1 \in 1..Len(Batches[k])
      BY FirstPlace
    <3> QED BY <3>1
  <2>3. x = [o EXCEPT !.pc = "run", !.batch = k, !.pos = p]
    BY <1>1, <1>3, <2>1, <2>2, Nine DEF FirstFor, FirstBatch
  <2>4. TypedOpener(x) /\ x.pc = "run" /\ x.who = o.who /\ x.batch = k /\ x.pos = p
    <3>1. o \in OpenerRec
      BY DEF TypedOpener
    <3>2. p \in Nat
      BY <2>2
    <3>3. x \in OpenerRec /\ x.pc = "run" /\ x.who = o.who /\ x.batch = k /\ x.pos = p
      BY <2>3, <3>1, <3>2 DEF OpenerRec, OpenerPcs
    <3> QED BY <3>3 DEF TypedOpener
  <2> QED BY <1>1, <1>3, <2>1, <2>2, <2>4
<1> QED BY <1>2, <1>3

-----------------------------------------------------------------------------
(* What a step does to the file and to the opener o that takes it, which    *)
(* becomes x.                                                               *)

Ended(o, x) ==
  /\ x = NotOpen
  /\ UNCHANGED <<schema, version, identity, lowered>>
  /\ \/ cut' = cut /\ o.pc # "run"
     \/ cut' = cut /\ o.pc = "run" /\ Batches[o.batch][o.pos].op = "add" /\ Batches[o.batch][o.pos].obj \in schema
     \/ cut' = (cut \/ (o.pc = "run" /\ \E i \in 1 .. o.pos - 1 : Batches[o.batch][i].op = "add"))

Begun(o, x) ==
  /\ o.pc \in {"closed", "stat", "create"} /\ x.pc \in {"stat", "create", "run"}
  /\ (x.batch = o.batch /\ x.pos = o.pos) \/ (x.batch = 1 /\ x.pos = 1)
  /\ UNCHANGED <<schema, version, identity, cut, lowered>>

Chosen(o, x) ==
  /\ o.pc = "version"
  /\ \E v \in {0, version} : x = FirstFor(o, v)
  /\ UNCHANGED <<schema, version, identity, cut, lowered>>

Ran(o, x) ==
  /\ o.pc = "run" /\ x = Following(o)
  /\ LET s == Batches[o.batch][o.pos] IN
     \/ /\ s.op = "make" /\ schema' = schema \union {s.obj}
        /\ UNCHANGED <<version, identity, cut, lowered>>
     \/ /\ s.op = "add" /\ s.obj \notin schema /\ schema' = schema \union {s.obj}
        /\ UNCHANGED <<version, identity, cut, lowered>>
     \/ /\ s.op = "stamp" /\ version' = s.ver
        /\ lowered' = (lowered \/ \E k \in version' + 1 .. version : Columns(k) # {})
        /\ UNCHANGED <<schema, identity, cut>>

Bound(o, x) ==
  /\ o.pc = "bind" /\ x = [o EXCEPT !.pc = "check"]
  /\ identity' = IF identity = NoIdentity THEN o.who ELSE identity
  /\ UNCHANGED <<schema, version, cut, lowered>>

Checked(o, x) ==
  /\ o.pc = "check" /\ x = [o EXCEPT !.pc = "open"] /\ identity = o.who
  /\ UNCHANGED <<schema, version, identity, cut, lowered>>

Effect(o, x) ==
  Ended(o, x) \/ Begun(o, x) \/ Chosen(o, x) \/ Ran(o, x) \/ Bound(o, x) \/ Checked(o, x)

Moves(c) == OpenStore(c) \/ Step(c) \/ VersionUnread(c) \/ CloseStore(c) \/ Die(c)

LEMMA EffectOf ==
  ASSUME ShapeInv, NEW c \in Openers, Moves(c)
  PROVE  \E x : TypedOpener(x) /\ opener' = [opener EXCEPT ![c] = x] /\ Effect(opener[c], x)
<1>0. TypedOpener(opener[c]) /\ opener \in [Openers -> OpenerRec] /\ version \in 0..9
  BY DEF ShapeInv, OpenersTyped, FileTyped
<1>1. PICK o : o = opener[c]
  OBVIOUS
<1>2. TypedOpener(o)
  BY <1>0, <1>1
<1> DEFINE Goal == \E x : TypedOpener(x) /\ opener' = [opener EXCEPT ![c] = x] /\ Effect(o, x)
<1> SUFFICES Goal
  BY <1>1
<1>3. ASSUME Fail(c), Ended(o, NotOpen)
      PROVE  Goal
  <2>1. opener' = [opener EXCEPT ![c] = NotOpen] /\ TypedOpener(NotOpen)
    BY <1>3, NotOpenTyped DEF Fail
  <2> QED BY <1>3, <2>1 DEF Effect
<1>4. ASSUME NEW pc \in OpenerPcs, OpenerGoto(c, pc),
             \A x : x.pc = pc /\ x.batch = o.batch /\ x.pos = o.pos /\ x = [o EXCEPT !.pc = pc] => Effect(o, x)
      PROVE  Goal
  <2>1. PICK x : x = [o EXCEPT !.pc = pc]
    OBVIOUS
  <2>2. TypedOpener(x) /\ x.pc = pc /\ x.batch = o.batch /\ x.pos = o.pos
    BY <1>2, <2>1, MoveTyped
  <2>3. opener' = [opener EXCEPT ![c] = x]
    BY <1>1, <1>4, <2>1 DEF OpenerGoto
  <2> QED BY <1>4, <2>1, <2>2, <2>3
<1>5. CASE OpenStore(c)
  <2>1. o.pc = "closed" /\ UNCHANGED <<schema, version, identity, cut, lowered>>
    BY <1>1, <1>5 DEF OpenStore, OpenerAt, history
  <2>2. ASSUME NEW w \in Identities, opener' = [opener EXCEPT ![c] = [NotOpen EXCEPT !.pc = "stat", !.who = w]]
        PROVE  Goal
    <3>1. PICK x : x = [NotOpen EXCEPT !.pc = "stat", !.who = w]
      OBVIOUS
    <3>2. x \in OpenerRec /\ x.pc = "stat" /\ x.batch = 1 /\ x.pos = 1
      <4>1. NotOpen \in OpenerRec /\ NotOpen.batch = 1 /\ NotOpen.pos = 1
        BY NotOpenTyped DEF TypedOpener
      <4> QED BY <3>1, <4>1 DEF OpenerRec, OpenerPcs
    <3>3. TypedOpener(x)
      <4>1. 1 \in 1..Len(Batches[1])
        BY FirstPlace
      <4> QED BY <3>2, <4>1 DEF TypedOpener
    <3>4. Begun(o, x)
      BY <2>1, <3>2 DEF Begun
    <3> QED BY <2>2, <3>1, <3>3, <3>4 DEF Effect
  <2>3. CASE OpenerGoto(c, "run")
    <3>1. \A x : x.pc = "run" /\ x.batch = o.batch /\ x.pos = o.pos => Effect(o, x)
      BY <2>1 DEF Begun, Effect
    <3> QED BY <1>4, <2>3, <3>1 DEF OpenerPcs
  <2> QED BY <1>5, <2>2, <2>3 DEF OpenStore
<1>6. CASE StatFile(c)
  <2>1. o.pc = "stat" /\ UNCHANGED <<schema, version, identity, cut, lowered>>
    BY <1>1, <1>6 DEF StatFile, OpenerAt, history, file
  <2>2. PICK pc \in {"run", "create"} : OpenerGoto(c, pc)
    BY <1>6 DEF StatFile
  <2>3. \A x : x.pc = pc /\ x.batch = o.batch /\ x.pos = o.pos => Effect(o, x)
    BY <2>1 DEF Begun, Effect
  <2> QED BY <1>4, <2>2, <2>3 DEF OpenerPcs
<1>7. CASE CreateFile(c)
  <2>1. o.pc = "create" /\ UNCHANGED <<schema, version, identity, cut, lowered>> /\ (Fail(c) \/ OpenerGoto(c, "run"))
    BY <1>1, <1>7 DEF CreateFile, OpenerAt, history
  <2>2. CASE Fail(c)
    BY <1>3, <2>1, <2>2 DEF Ended
  <2>3. CASE OpenerGoto(c, "run")
    <3>1. \A x : x.pc = "run" /\ x.batch = o.batch /\ x.pos = o.pos => Effect(o, x)
      BY <2>1 DEF Begun, Effect
    <3> QED BY <1>4, <2>3, <3>1 DEF OpenerPcs
  <2> QED BY <2>1, <2>2, <2>3
<1>8. ASSUME o.pc = "run", Advance(c), Ran(o, Following(o))
      PROVE  Goal
  <2>1. opener' = [opener EXCEPT ![c] = Following(o)]
    BY <1>1, <1>8 DEF Advance
  <2>2. TypedOpener(Following(o))
    BY <1>2, <1>8, FollowingIs
  <2> QED BY <1>8, <2>1, <2>2 DEF Effect
<1>9. CASE CreateIfMissing(c)
  <2>1. o.pc = "run" /\ Advance(c) /\ UNCHANGED <<version, identity, cut, lowered>>
    BY <1>1, <1>9 DEF CreateIfMissing, OpenerAt, history
  <2>2. Batches[o.batch][o.pos].op = "make" /\ schema' = schema \union {Batches[o.batch][o.pos].obj}
    BY <1>1, <1>9 DEF CreateIfMissing, Statement
  <2>3. Ran(o, Following(o))
    BY <2>1, <2>2 DEF Ran
  <2> QED BY <1>8, <2>1, <2>3
<1>10. CASE AddColumn(c)
  <2>1. o.pc = "run" /\ UNCHANGED <<version, identity, cut, lowered>>
    BY <1>1, <1>10 DEF AddColumn, OpenerAt, history
  <2>2. Batches[o.batch][o.pos].op = "add"
    BY <1>1, <1>10 DEF AddColumn, Statement
  <2>3. CASE Batches[o.batch][o.pos].obj \in schema
    <3>1. Fail(c) /\ UNCHANGED schema
      BY <1>1, <1>10, <2>3 DEF AddColumn, Statement
    <3>2. Ended(o, NotOpen)
      BY <2>1, <2>2, <2>3, <3>1 DEF Ended
    <3> QED BY <1>3, <3>1, <3>2
  <2>4. CASE Batches[o.batch][o.pos].obj \notin schema
    <3>1. Advance(c) /\ schema' = schema \union {Batches[o.batch][o.pos].obj}
      BY <1>1, <1>10, <2>4 DEF AddColumn, Statement
    <3>2. Ran(o, Following(o))
      BY <2>1, <2>2, <2>4, <3>1 DEF Ran
    <3> QED BY <1>8, <2>1, <3>1, <3>2
  <2> QED BY <2>3, <2>4
<1>11. CASE StampVersion(c)
  <2>1. o.pc = "run" /\ Advance(c) /\ UNCHANGED <<schema, identity, cut>>
    BY <1>1, <1>11 DEF StampVersion, OpenerAt
  <2>2. /\ Batches[o.batch][o.pos].op = "stamp" /\ version' = Batches[o.batch][o.pos].ver
        /\ lowered' = (lowered \/ \E k \in version' + 1 .. version : Columns(k) # {})
    BY <1>1, <1>11 DEF StampVersion, Statement
  <2>3. Ran(o, Following(o))
    BY <2>1, <2>2 DEF Ran
  <2> QED BY <1>8, <2>1, <2>3
<1>12. ASSUME NEW v \in 0..9, v \in {0, version}, o.pc = "version", Start(c, v),
              UNCHANGED <<schema, version, identity, cut, lowered>>
       PROVE  Goal
  <2>1. opener' = [opener EXCEPT ![c] = FirstFor(o, v)]
    BY <1>1, <1>12 DEF Start
  <2>2. TypedOpener(FirstFor(o, v))
    BY <1>2, FirstForIs
  <2>3. Chosen(o, FirstFor(o, v))
    BY <1>12 DEF Chosen
  <2> QED BY <2>1, <2>2, <2>3 DEF Effect
<1>13. CASE ReadVersion(c)
  <2>1. o.pc = "version" /\ Start(c, version) /\ UNCHANGED <<schema, version, identity, cut, lowered>>
    BY <1>1, <1>13 DEF ReadVersion, OpenerAt, file, history
  <2> QED BY <1>0, <1>12, <2>1
<1>14. CASE VersionUnread(c)
  <2>1. o.pc = "version" /\ Start(c, 0) /\ UNCHANGED <<schema, version, identity, cut, lowered>>
    BY <1>1, <1>14 DEF VersionUnread, OpenerAt, file
  <2>2. 0 \in 0..9 /\ 0 \in {0, version}
    OBVIOUS
  <2> QED BY <1>12, <2>1, <2>2
<1>15. CASE BindIdentity(c)
  <2>1. /\ o.pc = "bind" /\ OpenerGoto(c, "check") /\ UNCHANGED <<schema, version, cut, lowered>>
        /\ identity' = IF identity = NoIdentity THEN o.who ELSE identity
    BY <1>1, <1>15 DEF BindIdentity, OpenerAt, history
  <2>2. \A x : x = [o EXCEPT !.pc = "check"] => Effect(o, x)
    BY <2>1 DEF Bound, Effect
  <2> QED BY <1>4, <2>1, <2>2 DEF OpenerPcs
<1>16. CASE CheckIdentity(c)
  <2>1. o.pc = "check" /\ UNCHANGED <<schema, version, identity, cut, lowered>>
    BY <1>1, <1>16 DEF CheckIdentity, OpenerAt, history, file
  <2>2. (identity = o.who /\ OpenerGoto(c, "open")) \/ Fail(c)
    BY <1>1, <1>16 DEF CheckIdentity
  <2>3. CASE identity = o.who /\ OpenerGoto(c, "open")
    <3>1. \A x : x = [o EXCEPT !.pc = "open"] => Effect(o, x)
      BY <2>1, <2>3 DEF Checked, Effect
    <3> QED BY <1>4, <2>3, <3>1 DEF OpenerPcs
  <2>4. CASE Fail(c)
    BY <1>3, <2>1, <2>4 DEF Ended
  <2> QED BY <2>2, <2>3, <2>4
<1>17. CASE CloseStore(c)
  <2>1. o.pc = "open" /\ Fail(c) /\ UNCHANGED <<schema, version, identity, cut, lowered>>
    BY <1>1, <1>17 DEF CloseStore, OpenerAt, history, file
  <2> QED BY <1>3, <2>1 DEF Ended
<1>18. CASE Die(c)
  <2>1. Fail(c) /\ UNCHANGED <<schema, version, identity, lowered>>
    BY <1>18 DEF Die, file
  <2>2. cut' = (cut \/ (o.pc = "run" /\ \E i \in 1 .. o.pos - 1 : Batches[o.batch][i].op = "add"))
    BY <1>1, <1>18 DEF Die, InGap, OpenerAt
  <2>3. Ended(o, NotOpen)
    BY <2>1, <2>2 DEF Ended
  <2> QED BY <1>3, <2>1, <2>3
<1> HIDE DEF Goal
<1> QED
  BY <1>5, <1>6, <1>7, <1>9, <1>10, <1>11, <1>13, <1>14, <1>15, <1>16, <1>17, <1>18 DEF Moves, Step

(* What a statement makes is part of the schema.                            *)
LEMMA InSchema ==
  ASSUME NEW k \in 1..9, NEW i \in 1..Len(Batches[k]), Batches[k][i].op # "stamp"
  PROVE  Batches[k][i].obj \in Objects(k) /\ Batches[k][i].obj \in UpTo(9)
<1>1. Batches[k][i].obj \in Objects(k)
  BY ObjectIn
<1> QED BY <1>1 DEF UpTo

LEMMA TypedAt ==
  ASSUME NEW o, TypedOpener(o)
  PROVE  /\ o.batch \in 1..9 /\ o.pos \in 1..Len(Batches[o.batch]) /\ o.pc \in OpenerPcs
         /\ o.who \in Identities \union {NoIdentity} /\ Shaped(o.batch, o.pos)
<1>1. o.batch \in 1..9 /\ o.pos \in 1..Len(Batches[o.batch]) /\ o.pc \in OpenerPcs /\ o.who \in Identities \union {NoIdentity}
  BY DEF TypedOpener, OpenerRec
<1> QED BY <1>1, Shape

LEMMA ShapeStep ==
  ASSUME ShapeInv, NEW c \in Openers, Moves(c)
  PROVE  ShapeInv'
<1>1. PICK x : TypedOpener(x) /\ opener' = [opener EXCEPT ![c] = x] /\ Effect(opener[c], x)
  BY EffectOf
<1>2. OpenersTyped'
  <2>1. opener \in [Openers -> OpenerRec] /\ \A d \in Openers : TypedOpener(opener[d])
    BY DEF ShapeInv, OpenersTyped
  <2>2. x \in OpenerRec
    BY <1>1 DEF TypedOpener
  <2>3. opener' \in [Openers -> OpenerRec] /\ \A d \in Openers : TypedOpener(opener'[d])
    BY <1>1, <2>1, <2>2
  <2> QED BY <2>3 DEF OpenersTyped, TypedOpener
<1>3. exists' \in BOOLEAN
  <2>1. exists' = exists \/ exists' = TRUE
    BY DEF Moves, OpenStore, Step, StatFile, CreateFile, CreateIfMissing, AddColumn, StampVersion, ReadVersion,
           BindIdentity, CheckIdentity, VersionUnread, CloseStore, Die, file
  <2> QED BY <2>1 DEF ShapeInv, FileTyped
<1>4. faults' \in 0..MaxFaults
  <2>1. faults' = faults \/ (faults < MaxFaults /\ faults' = faults + 1)
    BY DEF Moves, OpenStore, Step, StatFile, CreateFile, CreateIfMissing, AddColumn, StampVersion, ReadVersion,
           BindIdentity, CheckIdentity, VersionUnread, CloseStore, Die, history
  <2> QED BY <2>1, OpenAssumption DEF ShapeInv, FileTyped
<1>5. PICK o : o = opener[c]
  OBVIOUS
<1>6. TypedOpener(o) /\ Effect(o, x)
  BY <1>1, <1>5 DEF ShapeInv, OpenersTyped
<1>7. /\ o.batch \in 1..9 /\ o.pos \in 1..Len(Batches[o.batch]) /\ o.who \in Identities \union {NoIdentity}
      /\ Shaped(o.batch, o.pos)
  BY <1>6, TypedAt
<1>8. /\ cut \in BOOLEAN /\ lowered \in BOOLEAN /\ schema \subseteq UpTo(9) /\ version \in 0..9
      /\ identity \in Identities \union {NoIdentity}
  BY DEF ShapeInv, FileTyped
<1>9. cut' \in BOOLEAN /\ lowered' \in BOOLEAN
  BY <1>6, <1>8, Zenon DEF Effect, Ended, Begun, Chosen, Ran, Bound, Checked
<1>10. identity' \in Identities \union {NoIdentity}
  BY <1>6, <1>7, <1>8 DEF Effect, Ended, Begun, Chosen, Ran, Bound, Checked
<1>11. schema' \subseteq UpTo(9)
  <2>1. schema' = schema \/ (Batches[o.batch][o.pos].op # "stamp" /\ schema' = schema \union {Batches[o.batch][o.pos].obj})
    BY <1>6 DEF Effect, Ended, Begun, Chosen, Ran, Bound, Checked
  <2>2. Batches[o.batch][o.pos].op # "stamp" => Batches[o.batch][o.pos].obj \in UpTo(9)
    BY <1>7, InSchema
  <2> QED BY <1>8, <2>1, <2>2
<1>12. version' \in 0..9
  <2>1. version' = version \/ (Batches[o.batch][o.pos].op = "stamp" /\ version' = Batches[o.batch][o.pos].ver)
    BY <1>6 DEF Effect, Ended, Begun, Chosen, Ran, Bound, Checked
  <2>2. Batches[o.batch][o.pos].op = "stamp" => Batches[o.batch][o.pos].ver = o.batch
    BY <1>7 DEF Shaped
  <2> QED BY <1>7, <1>8, <2>1, <2>2
<1> QED BY <1>2, <1>3, <1>4, <1>9, <1>10, <1>11, <1>12 DEF ShapeInv, FileTyped

LEMMA OpenersInit == FileInit => OpenersTyped /\ \A c \in Openers : opener[c] = NotOpen
<1> SUFFICES ASSUME FileInit PROVE OpenersTyped /\ \A c \in Openers : opener[c] = NotOpen
  OBVIOUS
<1>1. opener = [c \in Openers |-> NotOpen]
  BY DEF FileInit
<1>2. TypedOpener(NotOpen) /\ NotOpen \in OpenerRec
  BY NotOpenTyped DEF TypedOpener
<1>3. opener \in [Openers -> OpenerRec] /\ \A c \in Openers : opener[c] = NotOpen
  BY <1>1, <1>2
<1> QED BY <1>2, <1>3 DEF OpenersTyped

(* A file starts with the schema of its version, less tables that were      *)
(* added to the first batch later.                                          *)
LEMMA SchemaInit ==
  ASSUME FileInit
  PROVE  /\ version \in 0..9 /\ cut = FALSE /\ lowered = FALSE
         /\ (schema = {} /\ version = 0) \/ \E L \in SUBSET Late : schema = UpTo(IF version = 0 THEN 1 ELSE version) \ L
BY Nine DEF FileInit

LEMMA ShapeInit == FileInit => ShapeInv
<1> SUFFICES ASSUME FileInit PROVE ShapeInv
  OBVIOUS
<1>1. /\ version \in 0..9
      /\ (schema = {} /\ version = 0) \/ \E L \in SUBSET Late : schema = UpTo(IF version = 0 THEN 1 ELSE version) \ L
  BY SchemaInit
<1>2. schema \subseteq UpTo(9)
  <2>1. \A k \in 1..9 : UpTo(k) \subseteq UpTo(9)
    BY DEF UpTo
  <2>2. PICK k \in 1..9 : k = IF version = 0 THEN 1 ELSE version
    BY <1>1
  <2>3. schema \subseteq UpTo(k)
    BY <1>1, <2>2
  <2> QED BY <2>1, <2>3
<1>3. exists \in BOOLEAN /\ identity \in Identities \union {NoIdentity} /\ cut \in BOOLEAN /\ lowered \in BOOLEAN
  BY DEF FileInit
<1>4. faults \in 0..MaxFaults
  BY OpenAssumption DEF FileInit
<1>5. OpenersTyped
  BY OpenersInit
<1> QED BY <1>1, <1>2, <1>3, <1>4, <1>5 DEF ShapeInv, FileTyped

LEMMA ShapeKept == ShapeInv /\ [OpenNext]_storeVars => ShapeInv'
<1> SUFFICES ASSUME ShapeInv, [OpenNext]_storeVars PROVE ShapeInv'
  OBVIOUS
<1>1. CASE OpenNext
  BY <1>1, ShapeStep DEF OpenNext, Moves
<1>2. CASE UNCHANGED storeVars
  BY <1>2 DEF storeVars, ShapeInv, FileTyped, OpenersTyped
<1> QED BY <1>1, <1>2

(* The types by themselves are inductive: a stamp writes its batch's number *)
(* and an object made belongs to its batch (migrate).                       *)
THEOREM ShapeHolds == OpenSpec => []ShapeInv
BY ShapeInit, ShapeKept, PTL DEF OpenSpec

(* Whatever opens, fails and dies meanwhile, the file keeps a schema and a  *)
(* version some release knows, and every connection is at a statement of    *)
(* its batch.                                                               *)
THEOREM StoreTypeCorrect == OpenSpec => []StoreTypeOK
BY ShapeHolds, ShapeIsType, PTL

-----------------------------------------------------------------------------
(* Opened means complete.  What an opener has behind it is in the schema,   *)
(* and so is every batch up to the version that is stamped: nothing is ever *)
(* dropped, so both stay true however the version moves.                    *)

HasRun(o, S) ==
  /\ o.pc \in {"closed", "stat", "create"} => o.batch = 1 /\ o.pos = 1
  /\ o.pc = "run" => /\ \A j \in 1 .. o.batch - 1 : Objects(j) \subseteq S
                     /\ \A i \in 1 .. o.pos - 1 : Batches[o.batch][i].obj \in S
  /\ o.pc = "version" => Objects(1) \subseteq S
  /\ o.pc \in {"bind", "check", "open"} => \A j \in 1..9 : Objects(j) \subseteq S

Stamped == \A j \in 2..version : Objects(j) \subseteq schema

RunInv == Stamped /\ \A c \in Openers : HasRun(opener[c], schema)

LEMMA RunGrows ==
  ASSUME NEW o, NEW S, NEW T, S \subseteq T, HasRun(o, S)
  PROVE  HasRun(o, T)
BY DEF HasRun

LEMMA NotOpenRun == \A S : HasRun(NotOpen, S)
BY NotOpenTyped DEF HasRun

(* A batch whose statements are all behind is complete.                     *)
LEMMA BatchRun ==
  ASSUME NEW k \in 1..9, NEW S, \A i \in 1..Len(Batches[k]) : Batches[k][i].op # "stamp" => Batches[k][i].obj \in S
  PROVE  Objects(k) \subseteq S
BY ObjectIn

LEMMA FollowingRun ==
  ASSUME NEW o, TypedOpener(o), o.pc = "run", NEW S, HasRun(o, S),
         Batches[o.batch][o.pos].op # "stamp" => Batches[o.batch][o.pos].obj \in S
  PROVE  /\ HasRun(Following(o), S)
         /\ o.pos = Len(Batches[o.batch]) => \A j \in 1 .. o.batch : Objects(j) \subseteq S
<1>1. o.batch \in 1..9 /\ o.pos \in 1..Len(Batches[o.batch]) /\ Shaped(o.batch, o.pos)
  BY TypedAt
<1>2. PICK n \in Nat : n = Len(Batches[o.batch]) /\ \A i \in 1..n : Shaped(o.batch, i)
  BY <1>1, Shape
<1>3. (\A j \in 1 .. o.batch - 1 : Objects(j) \subseteq S) /\ \A i \in 1 .. o.pos - 1 : Batches[o.batch][i].obj \in S
  BY DEF HasRun
<1>4. PICK p \in 1..n : p = o.pos
  BY <1>1, <1>2
<1>5. \A i \in 1 .. p : Batches[o.batch][i].op # "stamp" => Batches[o.batch][i].obj \in S
  <2> SUFFICES ASSUME NEW i \in 1..p, Batches[o.batch][i].op # "stamp" PROVE Batches[o.batch][i].obj \in S
    OBVIOUS
  <2>1. CASE i = p
    BY <1>4, <2>1
  <2>2. CASE i # p
    BY <1>3, <1>4, <2>2
  <2> QED BY <2>1, <2>2
<1>6. o.pos = Len(Batches[o.batch]) => \A j \in 1 .. o.batch : Objects(j) \subseteq S
  <2> SUFFICES ASSUME o.pos = Len(Batches[o.batch]) PROVE \A j \in 1 .. o.batch : Objects(j) \subseteq S
    OBVIOUS
  <2>1. \A i \in 1..Len(Batches[o.batch]) : Batches[o.batch][i].op # "stamp" => Batches[o.batch][i].obj \in S
    BY <1>2, <1>4, <1>5
  <2>2. Objects(o.batch) \subseteq S
    BY <1>1, <2>1, BatchRun
  <2> QED BY <1>1, <1>3, <2>2
<1>7. PICK x : x = Following(o)
  OBVIOUS
<1>8. \/ o.pos < Len(Batches[o.batch]) /\ x.pc = "run" /\ x.batch = o.batch /\ x.pos = o.pos + 1
      \/ o.pos = Len(Batches[o.batch]) /\ o.batch = 1 /\ x.pc = "version"
      \/ o.pos = Len(Batches[o.batch]) /\ o.batch = 9 /\ x.pc \in {"open", "bind"}
      \/ o.pos = Len(Batches[o.batch]) /\ o.batch \in 2..8 /\ x.pc = "run" /\ x.batch = o.batch + 1 /\ x.pos = 1
  BY <1>7, FollowingIs
<1>9. HasRun(x, S)
  <2>1. CASE o.pos < Len(Batches[o.batch]) /\ x.pc = "run" /\ x.batch = o.batch /\ x.pos = o.pos + 1
    <3>1. Batches[o.batch][o.pos].op # "stamp"
      BY <1>1, <1>2, <1>4, <2>1 DEF Shaped
    <3>2. \A i \in 1 .. x.pos - 1 : Batches[x.batch][i].obj \in S
      BY <1>3, <1>4, <2>1, <3>1
    <3> QED BY <1>3, <2>1, <3>2 DEF HasRun
  <2>2. CASE o.pos = Len(Batches[o.batch]) /\ o.batch = 1 /\ x.pc = "version"
    BY <1>6, <2>2 DEF HasRun
  <2>3. CASE o.pos = Len(Batches[o.batch]) /\ o.batch = 9 /\ x.pc \in {"open", "bind"}
    BY <1>6, <2>3 DEF HasRun
  <2>4. CASE o.pos = Len(Batches[o.batch]) /\ o.batch \in 2..8 /\ x.pc = "run" /\ x.batch = o.batch + 1 /\ x.pos = 1
    <3>1. \A j \in 1 .. x.batch - 1 : Objects(j) \subseteq S
      BY <1>6, <2>4
    <3> QED BY <2>4, <3>1 DEF HasRun
  <2> QED BY <1>8, <2>1, <2>2, <2>3, <2>4
<1> QED BY <1>6, <1>7, <1>9

LEMMA SchemaGrows ==
  ASSUME NEW o, NEW x, Effect(o, x)
  PROVE  schema \subseteq schema'
BY DEF Effect, Ended, Begun, Chosen, Ran, Bound, Checked

(* An opener that moves has run what is behind its new place.               *)
LEMMA RunMoves ==
  ASSUME NEW o, NEW x, TypedOpener(o), Effect(o, x), HasRun(o, schema), Stamped, version \in 0..9
  PROVE  HasRun(x, schema')
<1>1. CASE Ended(o, x)
  BY <1>1, NotOpenRun DEF Ended
<1>2. CASE Begun(o, x)
  <2>1. o.batch = 1 /\ o.pos = 1
    BY <1>2 DEF Begun, HasRun
  <2>2. x.batch = 1 /\ x.pos = 1 /\ x.pc \in {"stat", "create", "run"}
    BY <1>2, <2>1 DEF Begun
  <2> QED BY <2>2 DEF HasRun
<1>3. CASE Chosen(o, x)
  <2>1. PICK v \in {0, version} : x = FirstFor(o, v)
    BY <1>3 DEF Chosen
  <2>2. v \in 0..9 /\ (\A j \in 2..v : Objects(j) \subseteq schema) /\ Objects(1) \subseteq schema /\ schema' = schema
    BY <1>3, <2>1 DEF Chosen, Stamped, HasRun
  <2>3. \/ v = 9 /\ x.pc \in {"open", "bind"}
        \/ v # 9 /\ x.pc = "run" /\ x.pos = 1 /\ x.batch = IF v < 2 THEN 2 ELSE v + 1
    BY <2>1, <2>2, FirstForIs
  <2>4. \A j \in 1..9 : (j = 1 \/ j <= v) => Objects(j) \subseteq schema
    BY <2>2
  <2>5. CASE v = 9 /\ x.pc \in {"open", "bind"}
    BY <2>2, <2>4, <2>5 DEF HasRun
  <2>6. CASE v # 9 /\ x.pc = "run" /\ x.pos = 1 /\ x.batch = IF v < 2 THEN 2 ELSE v + 1
    <3>1. \A j \in 1 .. x.batch - 1 : Objects(j) \subseteq schema
      BY <2>2, <2>4, <2>6
    <3> QED BY <2>2, <2>6, <3>1 DEF HasRun
  <2> QED BY <2>3, <2>5, <2>6
<1>4. CASE Ran(o, x)
  <2>1. o.pc = "run" /\ x = Following(o)
    BY <1>4 DEF Ran
  <2>2. HasRun(o, schema')
    BY SchemaGrows, RunGrows
  <2>3. Batches[o.batch][o.pos].op # "stamp" => Batches[o.batch][o.pos].obj \in schema'
    BY <1>4 DEF Ran
  <2> QED BY <2>1, <2>2, <2>3, FollowingRun
<1>5. CASE Bound(o, x)
  <2>1. x.pc = "check"
    BY <1>5, MoveTyped DEF Bound, OpenerPcs
  <2> QED BY <1>5, <2>1 DEF Bound, HasRun
<1>6. CASE Checked(o, x)
  <2>1. x.pc = "open"
    BY <1>6, MoveTyped DEF Checked, OpenerPcs
  <2> QED BY <1>6, <2>1 DEF Checked, HasRun
<1> QED BY <1>1, <1>2, <1>3, <1>4, <1>5, <1>6 DEF Effect

LEMMA StampedKept ==
  ASSUME NEW o, NEW x, TypedOpener(o), Effect(o, x), HasRun(o, schema), Stamped, version \in 0..9
  PROVE  Stamped'
<1>1. o.batch \in 1..9 /\ o.pos \in 1..Len(Batches[o.batch]) /\ Shaped(o.batch, o.pos)
  BY TypedAt
<1>2. schema \subseteq schema'
  BY SchemaGrows
<1>3. CASE version' = version
  BY <1>2, <1>3 DEF Stamped
<1>4. CASE version' # version
  <2>1. o.pc = "run" /\ Batches[o.batch][o.pos].op = "stamp" /\ version' = Batches[o.batch][o.pos].ver
    BY <1>4 DEF Effect, Ended, Begun, Chosen, Ran, Bound, Checked
  <2>2. o.pos = Len(Batches[o.batch]) /\ version' = o.batch
    BY <1>1, <2>1 DEF Shaped
  <2>3. \A j \in 1 .. o.batch : Objects(j) \subseteq schema
    BY <2>1, <2>2, FollowingRun
  <2> QED BY <1>1, <1>2, <2>2, <2>3 DEF Stamped
<1> QED BY <1>3, <1>4

LEMMA RunStep ==
  ASSUME ShapeInv, RunInv, NEW c \in Openers, Moves(c)
  PROVE  RunInv'
<1>1. PICK x : TypedOpener(x) /\ opener' = [opener EXCEPT ![c] = x] /\ Effect(opener[c], x)
  BY EffectOf
<1>2. PICK o : o = opener[c]
  OBVIOUS
<1>3. TypedOpener(o) /\ HasRun(o, schema) /\ Effect(o, x) /\ Stamped /\ version \in 0..9 /\ opener \in [Openers -> OpenerRec]
  BY <1>1, <1>2 DEF ShapeInv, OpenersTyped, FileTyped, RunInv
<1>4. Stamped'
  BY <1>3, StampedKept
<1>5. HasRun(x, schema')
  BY <1>3, RunMoves
<1>6. \A d \in Openers : HasRun(opener'[d], schema')
  <2> SUFFICES ASSUME NEW d \in Openers PROVE HasRun(opener'[d], schema')
    OBVIOUS
  <2>1. CASE d = c
    BY <1>1, <1>3, <1>5, <2>1
  <2>2. CASE d # c
    <3>1. opener'[d] = opener[d] /\ HasRun(opener[d], schema)
      BY <1>1, <1>3, <2>2 DEF RunInv
    <3> QED BY <1>3, <3>1, SchemaGrows, RunGrows
  <2> QED BY <2>1, <2>2
<1> QED BY <1>4, <1>6 DEF RunInv, HasRun

LEMMA RunInit == FileInit => RunInv
<1> SUFFICES ASSUME FileInit PROVE RunInv
  OBVIOUS
<1>1. \A c \in Openers : HasRun(opener[c], schema)
  BY OpenersInit, NotOpenRun
<1>2. /\ version \in 0..9
      /\ (schema = {} /\ version = 0) \/ \E L \in SUBSET Late : schema = UpTo(IF version = 0 THEN 1 ELSE version) \ L
  BY SchemaInit
<1>3. \A j \in 2..9 : Objects(j) \intersect Late = {}
  <2> SUFFICES ASSUME NEW j \in 2..9, NEW y \in Objects(j) PROVE y \notin Late
    OBVIOUS
  <2>0. j \in 1..9
    OBVIOUS
  <2>1. PICK i \in 1..Len(Batches[j]) : y = Batches[j][i].obj
    BY <2>0, ObjectIn
  <2>2. Shaped(j, i)
    BY <2>0, Shape
  <2> QED BY <2>1, <2>2 DEF Shaped
<1>4. Stamped
  <2> SUFFICES ASSUME NEW j \in 2..version PROVE Objects(j) \subseteq schema
    BY DEF Stamped
  <2>1. j \in 2..9 /\ version # 0
    BY <1>2
  <2>2. PICK L \in SUBSET Late : schema = UpTo(version) \ L
    BY <1>2, <2>1
  <2>3. Objects(j) \subseteq UpTo(version)
    BY <1>2, <2>1 DEF UpTo
  <2> QED BY <1>3, <2>1, <2>2, <2>3
<1> QED BY <1>1, <1>4 DEF RunInv

LEMMA RunKept == ShapeInv /\ RunInv /\ [OpenNext]_storeVars => RunInv'
<1> SUFFICES ASSUME ShapeInv, RunInv, [OpenNext]_storeVars PROVE RunInv'
  OBVIOUS
<1>1. CASE OpenNext
  BY <1>1, RunStep DEF OpenNext, Moves
<1>2. CASE UNCHANGED storeVars
  BY <1>2 DEF storeVars, RunInv, Stamped, HasRun
<1> QED BY <1>1, <1>2

(* What an open has behind it, and what the version stands for, is in the   *)
(* schema, whoever else runs migrate.                                       *)
THEOREM RunHolds == OpenSpec => []RunInv
BY RunInit, RunKept, ShapeHolds, PTL DEF OpenSpec

(* Whoever has the store open finds every table, index and column of the    *)
(* current schema, although it ran only the batches above a version it read *)
(* once and others raise and lower meanwhile.                               *)
THEOREM OpenedComplete == OpenSpec => []OpenedIsComplete
<1>1. RunInv => OpenedIsComplete
  BY Nine DEF RunInv, HasRun, OpenedIsComplete, OpenerAt, UpTo
<1> QED BY <1>1, RunHolds, PTL

-----------------------------------------------------------------------------
(* The binding: the first identity stays. *)

LEMMA OwnInit == FileInit => OwnProjectOnly
BY OpenersInit, NotOpenTyped DEF OwnProjectOnly, OpenerAt

LEMMA OwnStep ==
  ASSUME ShapeInv, OwnProjectOnly, NEW c \in Openers, Moves(c)
  PROVE  OwnProjectOnly'
<1>1. PICK x : TypedOpener(x) /\ opener' = [opener EXCEPT ![c] = x] /\ Effect(opener[c], x)
  BY EffectOf
<1>2. PICK o : o = opener[c]
  OBVIOUS
<1>3. TypedOpener(o) /\ Effect(o, x) /\ version \in 0..9 /\ opener \in [Openers -> OpenerRec]
  BY <1>1, <1>2 DEF ShapeInv, OpenersTyped, FileTyped
<1>4. identity' = identity \/ identity = NoIdentity
  BY <1>3 DEF Effect, Ended, Begun, Chosen, Ran, Bound, Checked
<1>5. x.pc = "open" => x.who = NoIdentity \/ identity' = x.who
  <2> SUFFICES ASSUME x.pc = "open" PROVE x.who = NoIdentity \/ identity' = x.who
    OBVIOUS
  <2>1. CASE Ended(o, x)
    BY <2>1, NotOpenTyped DEF Ended
  <2>2. CASE Begun(o, x)
    BY <2>2 DEF Begun
  <2>3. CASE Chosen(o, x)
    <3>1. PICK v \in 0..9 : x = FirstFor(o, v)
      BY <1>3, <2>3 DEF Chosen
    <3> QED BY <1>3, <3>1, FirstForIs
  <2>4. CASE Ran(o, x)
    <3>1. x = Following(o) /\ o.pc = "run"
      BY <2>4 DEF Ran
    <3> QED BY <1>3, <3>1, FollowingIs
  <2>5. CASE Bound(o, x)
    BY <1>3, <2>5, MoveTyped DEF Bound, OpenerPcs
  <2>6. CASE Checked(o, x)
    <3>1. x = [o EXCEPT !.pc = "open"] /\ identity' = o.who
      BY <2>6 DEF Checked
    <3>2. x.who = o.who
      BY <1>3, <3>1, MoveTyped DEF OpenerPcs
    <3> QED BY <3>1, <3>2
  <2> QED BY <1>3, <2>1, <2>2, <2>3, <2>4, <2>5, <2>6 DEF Effect
<1>6. ASSUME NEW d \in Openers, opener'[d].pc = "open", opener'[d].who # NoIdentity
      PROVE  identity' = opener'[d].who
  <2>1. CASE d = c
    BY <1>1, <1>3, <1>5, <1>6, <2>1
  <2>2. CASE d # c
    <3>1. opener'[d] = opener[d]
      BY <1>1, <1>3, <2>2
    <3>2. identity = opener[d].who
      BY <1>6, <3>1 DEF OwnProjectOnly, OpenerAt
    <3> QED BY <1>4, <1>6, <3>1, <3>2
  <2> QED BY <2>1, <2>2
<1> QED BY <1>6 DEF OwnProjectOnly, OpenerAt

(* A connection of a project has its own project's file for as long as it   *)
(* is open, however first opens of several projects race for the binding.   *)
THEOREM OwnProject == OpenSpec => []OwnProjectOnly
<1>1. ShapeInv /\ OwnProjectOnly /\ [OpenNext]_storeVars => OwnProjectOnly'
  <2> SUFFICES ASSUME ShapeInv, OwnProjectOnly, [OpenNext]_storeVars PROVE OwnProjectOnly'
    OBVIOUS
  <2>1. CASE OpenNext
    BY <2>1, OwnStep DEF OpenNext, Moves
  <2>2. CASE UNCHANGED storeVars
    BY <2>2 DEF storeVars, OwnProjectOnly, OpenerAt
  <2> QED BY <2>1, <2>2
<1> QED BY <1>1, OwnInit, ShapeHolds, PTL DEF OpenSpec

-----------------------------------------------------------------------------
(* What leaves a file that no later open accepts.  A batch above the        *)
(* version whose columns are there is one that some opener is within, or    *)
(* an open was cut, or a stamp lowered the version.  An opener that fails   *)
(* on a column that is there would be a fourth way, if it had added the     *)
(* batch's other column itself: only batch 4 adds two, and the second one   *)
(* is not there while an opener is between them.                            *)

InGapOf(o, k) == o.pc = "run" /\ o.batch = k /\ k \in {2, 3, 4, 6} /\ o.pos >= 2
Between(o) == o.pc = "run" /\ o.batch = 4 /\ o.pos = 2

PairInv ==
  /\ "body_sha" \in schema => "session_id" \in schema
  /\ \A c \in Openers : Between(opener[c]) =>
       "body_sha" \notin schema /\ \A d \in Openers : Between(opener[d]) => d = c

HurtInv ==
  \A k \in 2..9 : version < k /\ Columns(k) \intersect schema # {} =>
    cut \/ lowered \/ \E c \in Openers : InGapOf(opener[c], k)

GapInv == PairInv /\ HurtInv

LEMMA PairPlaces ==
  /\ 1 \in 1..Len(Batches[4]) /\ Batches[4][1].op = "add" /\ Batches[4][1].obj = "session_id"
  /\ 2 \in 1..Len(Batches[4]) /\ Batches[4][2].op = "add" /\ Batches[4][2].obj = "body_sha"
  /\ 3 <= Len(Batches[4]) /\ Len(Batches[4]) \in Nat
<1>1. 4 \in 1..9
  OBVIOUS
<1>2. Len(Batches[4]) \in Nat /\ Len(Batches[4]) >= 3 /\ \A i \in 1..Len(Batches[4]) : Shaped(4, i)
  BY <1>1, Shape
<1>3. 1 \in 1..Len(Batches[4]) /\ 2 \in 1..Len(Batches[4])
  BY <1>2
<1>4. Shaped(4, 1) /\ Shaped(4, 2)
  BY <1>2, <1>3
<1> QED BY <1>2, <1>3, <1>4 DEF Shaped, Adds, ColumnAt

(* The column a statement adds, if it adds one.                             *)
LEMMA AddsWhat ==
  ASSUME NEW o, TypedOpener(o)
  PROVE  /\ Batches[o.batch][o.pos].op = "add" <=> Adds(o.batch, o.pos)
         /\ Batches[o.batch][o.pos].op = "add" => Batches[o.batch][o.pos].obj = ColumnAt(o.batch, o.pos)
         /\ Batches[o.batch][o.pos].op = "make" => Batches[o.batch][o.pos].obj \notin Added
<1>1. Shaped(o.batch, o.pos)
  BY TypedAt
<1> QED BY <1>1 DEF Shaped

(* Who is within a batch is before its stamp or at it.                      *)
LEMMA NotLast ==
  ASSUME NEW o, TypedOpener(o), o.pc = "run", Batches[o.batch][o.pos].op # "stamp", o.batch # 1
  PROVE  /\ o.pos \in Nat /\ o.pos >= 1
         /\ Following(o).pc = "run" /\ Following(o).batch = o.batch /\ Following(o).pos = o.pos + 1
<1>1. o.batch \in 1..9 /\ o.pos \in 1..Len(Batches[o.batch]) /\ Shaped(o.batch, o.pos)
  BY TypedAt
<1>2. o.pos # Len(Batches[o.batch])
  BY <1>1 DEF Shaped
<1> QED BY <1>1, <1>2, FollowingIs

(* An opener comes between the two columns only by adding the first.        *)
LEMMA ToBetween ==
  ASSUME NEW o, NEW x, TypedOpener(o), Effect(o, x), HasRun(o, schema), version \in 0..9, Between(x)
  PROVE  /\ o.pc = "run" /\ o.batch = 4 /\ o.pos = 1 /\ ~Between(o)
         /\ "session_id" \notin schema /\ schema' = schema \union {"session_id"}
<1>1. x.pc = "run" /\ x.batch = 4 /\ x.pos = 2
  BY DEF Between
<1>2. ~Ended(o, x)
  BY <1>1, NotOpenTyped DEF Ended
<1>3. ~Begun(o, x)
  BY <1>1 DEF Begun, HasRun
<1>4. ~Chosen(o, x)
  <2> SUFFICES ASSUME Chosen(o, x) PROVE FALSE
    OBVIOUS
  <2>1. PICK v \in 0..9 : x = FirstFor(o, v)
    BY DEF Chosen
  <2> QED BY <1>1, <2>1, FirstForIs
<1>5. ~Bound(o, x)
  BY <1>1, MoveTyped DEF Bound, OpenerPcs
<1>6. ~Checked(o, x)
  BY <1>1, MoveTyped DEF Checked, OpenerPcs
<1>7. Ran(o, x)
  BY <1>2, <1>3, <1>4, <1>5, <1>6 DEF Effect
<1>8. o.pc = "run" /\ x = Following(o)
  BY <1>7 DEF Ran
<1>9. o.batch = 4 /\ o.pos = 1
  <2>1. x.pos = o.pos + 1 /\ x.batch = o.batch
    BY <1>1, <1>8, FollowingIs
  <2>2. o.pos \in Nat
    BY DEF TypedOpener, OpenerRec
  <2> QED BY <1>1, <2>1, <2>2
<1>10. Batches[o.batch][o.pos].op = "add" /\ Batches[o.batch][o.pos].obj = "session_id"
  BY <1>9, PairPlaces
<1> QED BY <1>7, <1>8, <1>9, <1>10 DEF Ran, Between

(* A step adds a column to the schema only as that column's statement.      *)
LEMMA ColumnAdded ==
  ASSUME NEW o, NEW x, TypedOpener(o), Effect(o, x), NEW y \in Added, y \in schema', y \notin schema
  PROVE  /\ Ran(o, x) /\ Adds(o.batch, o.pos) /\ y = ColumnAt(o.batch, o.pos)
         /\ Batches[o.batch][o.pos].op = "add" /\ version' = version
<1>1. Ran(o, x)
  BY DEF Effect, Ended, Begun, Chosen, Bound, Checked
<1>2. y = Batches[o.batch][o.pos].obj /\ Batches[o.batch][o.pos].op \in {"make", "add"}
  BY <1>1 DEF Ran
<1>3. Batches[o.batch][o.pos].op = "add"
  BY <1>2, AddsWhat
<1> QED BY <1>1, <1>2, <1>3, AddsWhat DEF Ran

LEMMA PairStep ==
  ASSUME ShapeInv, RunInv, PairInv, NEW c \in Openers, Moves(c)
  PROVE  PairInv'
<1>1. PICK x : TypedOpener(x) /\ opener' = [opener EXCEPT ![c] = x] /\ Effect(opener[c], x)
  BY EffectOf
<1>2. PICK o : o = opener[c]
  OBVIOUS
<1>3. TypedOpener(o) /\ HasRun(o, schema) /\ Effect(o, x) /\ version \in 0..9
  BY <1>1, <1>2 DEF ShapeInv, OpenersTyped, FileTyped, RunInv
<1>4. opener'[c] = x /\ \A d \in Openers \ {c} : opener'[d] = opener[d]
  BY <1>1 DEF ShapeInv, OpenersTyped
<1>5. schema \subseteq schema' /\ "body_sha" \in Added /\ "session_id" \in Added
  BY <1>3, SchemaGrows DEF Added
<1>6. \A d \in Openers : Between(opener[d]) => "session_id" \in schema
  <2> SUFFICES ASSUME NEW d \in Openers, Between(opener[d]) PROVE "session_id" \in schema
    OBVIOUS
  <2>1. opener[d].pc = "run" /\ opener[d].batch = 4 /\ opener[d].pos = 2 /\ HasRun(opener[d], schema)
    BY DEF Between, RunInv
  <2>2. \A i \in 1..1 : Batches[4][i].obj \in schema
    BY <2>1 DEF HasRun
  <2> QED BY <2>2, PairPlaces
<1>7. "body_sha" \in schema' /\ "body_sha" \notin schema => Between(o) /\ ~Between(x)
  <2> SUFFICES ASSUME "body_sha" \in schema', "body_sha" \notin schema PROVE Between(o) /\ ~Between(x)
    OBVIOUS
  <2>1. Ran(o, x) /\ Adds(o.batch, o.pos) /\ ColumnAt(o.batch, o.pos) = "body_sha"
    BY <1>3, <1>5, ColumnAdded
  <2>2. o.batch = 4 /\ o.pos = 2
    BY <2>1 DEF Adds, ColumnAt
  <2>3. Between(o)
    BY <2>1, <2>2 DEF Between, Ran
  <2> QED BY <1>3, <2>3, ToBetween
<1>8. "body_sha" \in schema' => "session_id" \in schema'
  <2>1. CASE "body_sha" \in schema
    BY <1>5, <2>1 DEF PairInv
  <2>2. CASE "body_sha" \notin schema
    BY <1>2, <1>5, <1>6, <1>7, <2>2
  <2> QED BY <2>1, <2>2
<1>9. ASSUME NEW d \in Openers, Between(opener'[d])
      PROVE  "body_sha" \notin schema' /\ \A e \in Openers : Between(opener'[e]) => e = d
  <2>1. CASE Between(x)
    <3>1. "session_id" \notin schema /\ schema' = schema \union {"session_id"}
      BY <1>3, <2>1, ToBetween
    <3>2. "body_sha" \notin schema'
      BY <3>1 DEF PairInv
    <3>3. \A e \in Openers : ~Between(opener[e])
      BY <1>6, <3>1
    <3>4. \A e \in Openers : Between(opener'[e]) => e = c
      BY <1>4, <3>3
    <3> QED BY <1>9, <3>2, <3>4
  <2>2. CASE ~Between(x)
    <3>1. \A e \in Openers : Between(opener'[e]) => e # c /\ Between(opener[e])
      BY <1>4, <2>2
    <3>2. d # c /\ Between(opener[d])
      BY <1>9, <3>1
    <3>3. "body_sha" \notin schema /\ \A e \in Openers : Between(opener[e]) => e = d
      BY <3>2 DEF PairInv
    <3>4. "body_sha" \notin schema'
      BY <1>2, <1>7, <3>2, <3>3
    <3> QED BY <3>1, <3>3, <3>4
  <2> QED BY <2>1, <2>2
<1>10. "body_sha" \in schema' => "session_id" \in schema'
  BY <1>8
<1> QED BY <1>8, <1>9 DEF PairInv, Between

(* An opener leaves a gap only by its stamp or by being cut.                *)
LEMMA GapLeft ==
  ASSUME NEW o, NEW x, TypedOpener(o), Effect(o, x), NEW k \in 2..9, InGapOf(o, k), Between(o) => "body_sha" \notin schema
  PROVE  cut' = TRUE \/ InGapOf(x, k) \/ version' = k
<1>1. /\ o.pc = "run" /\ o.batch = k /\ k \in {2, 3, 4, 6} /\ o.pos >= 2
      /\ o.pos \in 1..Len(Batches[k]) /\ Shaped(k, o.pos)
  BY TypedAt DEF InGapOf
<1>2. CASE Ended(o, x)
  <2>1. ~(Batches[o.batch][o.pos].op = "add" /\ Batches[o.batch][o.pos].obj \in schema)
    <3> SUFFICES ASSUME Batches[o.batch][o.pos].op = "add", Batches[o.batch][o.pos].obj \in schema PROVE FALSE
      OBVIOUS
    <3>1. Adds(k, o.pos) /\ Batches[o.batch][o.pos].obj = ColumnAt(k, o.pos)
      BY <1>1, AddsWhat
    <3>2. k = 4 /\ o.pos = 2
      BY <1>1, <3>1 DEF Adds
    <3>3. Between(o) /\ ColumnAt(k, o.pos) = "body_sha"
      BY <1>1, <3>2 DEF Between, ColumnAt
    <3> QED BY <3>1, <3>3
  <2>2. cut' = (cut \/ (o.pc = "run" /\ \E i \in 1 .. o.pos - 1 : Batches[o.batch][i].op = "add"))
    BY <1>1, <1>2, <2>1 DEF Ended
  <2>3. 1 \in 1 .. o.pos - 1
    BY <1>1
  <2>4. Batches[k][1].op = "add"
    <3>1. k \in 1..9
      OBVIOUS
    <3>2. Shaped(k, 1)
      BY <3>1, FirstPlace
    <3>3. Adds(k, 1)
      BY <1>1 DEF Adds
    <3> QED BY <3>2, <3>3 DEF Shaped
  <2> QED BY <1>1, <2>2, <2>3, <2>4
<1>3. CASE Ran(o, x)
  <2>1. CASE Batches[o.batch][o.pos].op = "stamp"
    <3>1. Batches[o.batch][o.pos].ver = k
      BY <1>1, <2>1 DEF Shaped
    <3> QED BY <1>3, <2>1, <3>1 DEF Ran
  <2>2. CASE Batches[o.batch][o.pos].op # "stamp"
    <3>1. x = Following(o)
      BY <1>3 DEF Ran
    <3>2. x.pc = "run" /\ x.batch = o.batch /\ x.pos = o.pos + 1
      BY <1>1, <2>2, <3>1, NotLast
    <3> QED BY <1>1, <3>2 DEF InGapOf
  <2> QED BY <2>1, <2>2
<1> QED BY <1>1, <1>2, <1>3 DEF Effect, Begun, Chosen, Bound, Checked

LEMMA HurtStep ==
  ASSUME ShapeInv, PairInv, HurtInv, NEW c \in Openers, Moves(c)
  PROVE  HurtInv'
<1>1. PICK x : TypedOpener(x) /\ opener' = [opener EXCEPT ![c] = x] /\ Effect(opener[c], x)
  BY EffectOf
<1>2. PICK o : o = opener[c]
  OBVIOUS
<1>3. TypedOpener(o) /\ Effect(o, x) /\ version \in 0..9 /\ (Between(o) => "body_sha" \notin schema)
  BY <1>1, <1>2 DEF ShapeInv, OpenersTyped, FileTyped, PairInv
<1>4. opener'[c] = x /\ \A d \in Openers \ {c} : opener'[d] = opener[d]
  BY <1>1 DEF ShapeInv, OpenersTyped
<1>5. ASSUME NEW k \in 2..9, version' < k, NEW y \in Columns(k), y \in schema'
      PROVE  cut' \/ lowered' \/ \E d \in Openers : InGapOf(opener'[d], k)
  <2>1. k \in 1..9
    OBVIOUS
  <2>2. PICK i \in 1..Len(Batches[k]) : Adds(k, i) /\ y = ColumnAt(k, i)
    BY <1>5, <2>1, ColumnIn
  <2>3. CASE y \notin schema
    <3>1. y \in Added
      BY <2>2 DEF Added, Adds, ColumnAt
    <3>2. /\ Ran(o, x) /\ Adds(o.batch, o.pos) /\ y = ColumnAt(o.batch, o.pos)
          /\ Batches[o.batch][o.pos].op = "add"
      BY <1>3, <1>5, <2>3, <3>1, ColumnAdded
    <3>3. o.batch = k
      BY <2>2, <3>2, ColumnOnce
    <3>4. x.pc = "run" /\ x.batch = k /\ x.pos >= 2
      <4>1. x = Following(o) /\ o.pc = "run" /\ o.batch # 1
        BY <3>2, <3>3 DEF Ran
      <4> QED BY <1>3, <3>2, <3>3, <4>1, NotLast
    <3>5. InGapOf(x, k)
      BY <2>2, <3>4 DEF InGapOf, Adds
    <3> QED BY <1>4, <3>5
  <2>4. CASE y \in schema /\ version < k
    <3>1. cut \/ lowered \/ \E d \in Openers : InGapOf(opener[d], k)
      BY <1>5, <2>4 DEF HurtInv
    <3>2. (cut => cut') /\ (lowered => lowered')
      <4>1. cut => cut'
        BY <1>3, Zenon DEF Effect, Ended, Begun, Chosen, Ran, Bound, Checked
      <4>2. lowered => lowered'
        BY <1>3, Zenon DEF Effect, Ended, Begun, Chosen, Ran, Bound, Checked
      <4> QED BY <4>1, <4>2
    <3>3. ASSUME NEW d \in Openers, InGapOf(opener[d], k)
          PROVE  cut' \/ lowered' \/ \E e \in Openers : InGapOf(opener'[e], k)
      <4>1. CASE d # c
        BY <1>4, <3>3, <4>1
      <4>2. CASE d = c
        <5>1. cut' = TRUE \/ InGapOf(x, k) \/ version' = k
          BY <1>2, <1>3, <3>3, <4>2, GapLeft
        <5>2. version' # k
          BY <1>5
        <5> QED BY <1>4, <5>1, <5>2
      <4> QED BY <4>1, <4>2
    <3> QED BY <3>1, <3>2, <3>3
  <2>5. CASE y \in schema /\ ~(version < k)
    <3>1. version' # version
      BY <1>3, <1>5, <2>5
    <3>2. /\ lowered' = (lowered \/ \E j \in version' + 1 .. version : Columns(j) # {})
          /\ version' = Batches[o.batch][o.pos].ver /\ Batches[o.batch][o.pos].op = "stamp"
      BY <1>3, <3>1 DEF Effect, Ended, Begun, Chosen, Ran, Bound, Checked
    <3>3. version' \in 1..9
      <4>1. o.batch \in 1..9 /\ Shaped(o.batch, o.pos)
        BY <1>3, TypedAt
      <4> QED BY <3>2, <4>1 DEF Shaped
    <3>4. k \in version' + 1 .. version
      <4>1. PICK v \in 1..9 : v = version'
        BY <3>3
      <4>2. v < k /\ k <= version
        BY <1>3, <1>5, <2>5, <4>1
      <4>3. k \in v + 1 .. version
        BY <1>3, <4>2
      <4> QED BY <4>1, <4>3
    <3> QED BY <1>5, <3>2, <3>4
  <2> QED BY <2>3, <2>4, <2>5
<1> QED BY <1>5 DEF HurtInv, InGapOf

LEMMA GapInit == FileInit => GapInv
<1> SUFFICES ASSUME FileInit PROVE GapInv
  OBVIOUS
<1>1. \A c \in Openers : opener[c].pc = "closed"
  BY OpenersInit, NotOpenTyped
<1>2. /\ version \in 0..9
      /\ (schema = {} /\ version = 0) \/ \E L \in SUBSET Late : schema = UpTo(IF version = 0 THEN 1 ELSE version) \ L
  BY SchemaInit
<1>3. PICK m \in 1..9 : m = IF version = 0 THEN 1 ELSE version
  BY <1>2
<1>4. ASSUME NEW k \in 2..9, NEW y \in Columns(k), y \in schema
      PROVE  k <= m /\ version # 0
  <2>1. schema \subseteq UpTo(m)
    BY <1>2, <1>3
  <2>2. PICK j \in 1..m : y \in Objects(j)
    BY <1>4, <2>1 DEF UpTo
  <2>3. k \in 1..9 /\ j \in 1..9
    OBVIOUS
  <2>4. k = j
    BY <2>2, <2>3, ColumnHome
  <2> QED BY <1>2, <1>3, <2>4
<1>5. HurtInv
  <2>1. ASSUME NEW k \in 2..9, version < k, NEW y \in Columns(k), y \in schema
        PROVE  FALSE
    BY <1>2, <1>3, <1>4, <2>1
  <2> QED BY <2>1 DEF HurtInv
<1>6. "body_sha" \in schema => "session_id" \in schema
  <2> SUFFICES ASSUME "body_sha" \in schema PROVE "session_id" \in schema
    OBVIOUS
  <2>1. "body_sha" \in Columns(4)
    <3>1. Adds(4, 2) /\ ColumnAt(4, 2) = "body_sha" /\ 4 \in 1..9
      BY DEF Adds, ColumnAt
    <3> QED BY <3>1, PairPlaces, ColumnIn
  <2>2. 4 <= m /\ version # 0
    BY <1>4, <2>1
  <2>3. PICK L \in SUBSET Late : schema = UpTo(m) \ L
    BY <1>2, <1>3, <2>2
  <2>4. "session_id" \in Objects(4)
    BY PairPlaces, ObjectIn
  <2>5. 4 \in 1..m
    BY <2>2
  <2>6. "session_id" \in UpTo(m) /\ "session_id" \notin Late
    BY <2>4, <2>5 DEF UpTo, Late
  <2> QED BY <2>3, <2>6
<1> QED BY <1>1, <1>5, <1>6 DEF GapInv, PairInv, Between

LEMMA GapKept == ShapeInv /\ RunInv /\ GapInv /\ [OpenNext]_storeVars => GapInv'
<1> SUFFICES ASSUME ShapeInv, RunInv, GapInv, [OpenNext]_storeVars PROVE GapInv'
  OBVIOUS
<1>1. CASE OpenNext
  BY <1>1, PairStep, HurtStep DEF OpenNext, Moves, GapInv
<1>2. CASE UNCHANGED storeVars
  BY <1>2 DEF storeVars, GapInv, PairInv, HurtInv, Between, InGapOf
<1> QED BY <1>1, <1>2

(* Columns above the version have an open within their batch, or the file   *)
(* was hurt: the inductive invariant behind RefusedOnlyIfHurt (migrate).    *)
THEOREM GapHolds == OpenSpec => []GapInv
BY GapInit, GapKept, ShapeHolds, RunHolds, PTL DEF OpenSpec

(* A file that a lone open would refuse was hurt by an open cut between an  *)
(* ADD COLUMN and its stamp or by a stamp that lowered the version, or some *)
(* connection is within such a batch: losing a race for the file, a column  *)
(* or the binding does no harm.                                             *)
THEOREM RefusedOnlyHurt == OpenSpec => []RefusedOnlyIfHurt
<1>1. ShapeInv /\ GapInv => RefusedOnlyIfHurt
  <2> SUFFICES ASSUME ShapeInv, GapInv, ~Openable PROVE cut \/ lowered \/ \E c \in Openers : InGap(c)
    BY DEF RefusedOnlyIfHurt
  <2>1. PICK k \in 2..9 : version < k /\ Columns(k) \intersect schema # {}
    BY Nine DEF Openable
  <2>2. cut \/ lowered \/ \E c \in Openers : InGapOf(opener[c], k)
    BY <2>1 DEF GapInv, HurtInv
  <2>3. ASSUME NEW c \in Openers, InGapOf(opener[c], k)
        PROVE  InGap(c)
    <3>1. opener[c].pc = "run" /\ opener[c].batch = k /\ k \in {2, 3, 4, 6} /\ opener[c].pos >= 2 /\ opener[c].pos \in Nat
      BY <2>3 DEF InGapOf, ShapeInv, OpenersTyped, TypedOpener, OpenerRec
    <3>2. k \in 1..9
      OBVIOUS
    <3>3. Shaped(k, 1)
      BY <3>2, FirstPlace
    <3>4. Batches[k][1].op = "add"
      BY <3>1, <3>3 DEF Shaped, Adds
    <3>5. 1 \in 1 .. opener[c].pos - 1
      BY <3>1
    <3> QED BY <3>1, <3>4, <3>5 DEF InGap, OpenerAt
  <2> QED BY <2>2, <2>3
<1> QED BY <1>1, ShapeHolds, GapHolds, PTL

=============================================================================
