------------------------- MODULE MemoryStoreProofs -------------------------
(***************************************************************************)
(* Nothing the memory store consolidates vanishes, for every number of     *)
(* connections, rows and interruptions.                                    *)
(***************************************************************************)
EXTENDS MemoryStore, FiniteSetTheorems, WellFoundedInduction, TLAPS

USE DEF At, Live

(* A text map over any set of ids has the type of the field old.            *)
LEMMA OldTyped ==
  ASSUME NEW S \in SUBSET Ids, NEW f \in [S -> Texts] PROVE f \in OldTexts
BY DEF OldTexts

(* The connection at rest is a well-formed record.                          *)
LEMMA IdleTyped == Idle \in CallRec
<1>1. <<>> \in [{} -> Texts]
  OBVIOUS
<1>2. <<>> \in OldTexts
  BY <1>1, OldTyped
<1>. QED
  BY <1>2 DEF Idle, CallRec, OpNames, PCs

(* Names of operations and of statements, unfolded once.                    *)
LEMMA Names ==
  /\ \A p \in {"idle", "index", "insert", "tag", "unindex", "remove", "llm", "keep", "read",
               "write", "unindexOld", "indexNew", "tagRow", "select", "removeRows"} : p \in PCs
  /\ \A o \in {"save", "set_block", "compress", "delete_row", "delete_rows", "archive",
               "compress_project"} : o \in OpNames
BY DEF PCs, OpNames

(* Sets of ids are finite, so they can be counted.                          *)
LEMMA IdsCount == ASSUME NEW S \in SUBSET Ids PROVE Cardinality(S) \in Nat
<1>1. IsFiniteSet(Ids)
  BY FS_Interval, StoreAssumption DEF Ids
<1>. QED
  BY <1>1, FS_Subset, FS_CardinalityType

(* Counting up or down keeps the shape of the index.                        *)
LEMMA CountTyped ==
  ASSUME NEW h \in [Texts -> Int], NEW t
  PROVE  /\ [h EXCEPT ![t] = h[t] + 1] \in [Texts -> Int]
         /\ [h EXCEPT ![t] = h[t] - 1] \in [Texts -> Int]
<1>1. CASE t \in Texts
  <2>1. h[t] + 1 \in Int /\ h[t] - 1 \in Int
    BY <1>1
  <2>. QED
    BY <2>1
<1>2. CASE t \notin Texts
  BY <1>2
<1>. QED
  BY <1>1, <1>2

LEMMA FtsTyped ==
  ASSUME fts \in [Ids -> [Texts -> Int]], NEW i, NEW t, FtsAdd(i, t) \/ FtsDelete(i, t)
  PROVE  fts' \in [Ids -> [Texts -> Int]]
<1>1. CASE i \in Ids
  <2>1. PICK h \in [Texts -> Int] : h = fts[i]
    BY <1>1
  <2>2. /\ [h EXCEPT ![t] = h[t] + 1] \in [Texts -> Int]
        /\ [h EXCEPT ![t] = h[t] - 1] \in [Texts -> Int]
    BY CountTyped
  <2>3. \/ fts' = [fts EXCEPT ![i] = [h EXCEPT ![t] = h[t] + 1]]
        \/ fts' = [fts EXCEPT ![i] = [h EXCEPT ![t] = h[t] - 1]]
    BY <2>1 DEF FtsAdd, FtsDelete
  <2>. QED
    BY <2>2, <2>3
<1>2. CASE i \notin Ids
  BY <1>2 DEF FtsAdd, FtsDelete
<1>. QED
  BY <1>1, <1>2

(* What a record of a call keeps when fields of it are assigned.            *)
LEMMA RecPc ==
  ASSUME NEW r \in CallRec, NEW p \in PCs PROVE [r EXCEPT !.pc = p] \in CallRec
BY DEF CallRec

LEMMA RecRest ==
  ASSUME NEW r \in CallRec, NEW p \in PCs, NEW S \in SUBSET Ids
  PROVE  [r EXCEPT !.pc = p, !.rest = S] \in CallRec
BY DEF CallRec

LEMMA RecOld ==
  ASSUME NEW r \in CallRec, NEW p \in PCs, NEW S \in SUBSET Ids, NEW f \in [S -> Texts]
  PROVE  /\ [r EXCEPT !.pc = p, !.rest = S, !.old = f] \in CallRec
         /\ [r EXCEPT !.pc = p, !.old = f] \in CallRec
<1>1. f \in OldTexts
  BY OldTyped
<1>. QED
  BY <1>1 DEF CallRec

LEMMA RecNew ==
  ASSUME NEW r \in CallRec, NEW p \in PCs, NEW i \in Nat, NEW t \in Texts
  PROVE  [r EXCEPT !.id = i, !.new = t, !.pc = p] \in CallRec
BY DEF CallRec

(* The record an operation begins with.                                     *)
LEMMA RecBegin ==
  ASSUME NEW o \in OpNames, NEW p \in PCs, NEW i \in Nat, NEW F \in SUBSET Ids,
         NEW S \in SUBSET Ids, NEW T \in SUBSET Ids, NEW f \in [T -> Texts], NEW n \in Nat
  PROVE  /\ [Idle EXCEPT !.op = o, !.pc = p] \in CallRec
         /\ [Idle EXCEPT !.op = o, !.pc = p, !.rest = S] \in CallRec
         /\ [Idle EXCEPT !.op = o, !.pc = p, !.facts = F, !.rest = S] \in CallRec
         /\ [Idle EXCEPT !.op = o, !.pc = p, !.id = i, !.facts = F, !.rest = S] \in CallRec
         /\ [Idle EXCEPT !.op = o, !.pc = p, !.rest = S, !.want = n] \in CallRec
         /\ [Idle EXCEPT !.op = o, !.pc = p, !.old = f, !.rest = S, !.want = n] \in CallRec
<1>1. f \in OldTexts
  BY OldTyped
<1>. QED
  BY <1>1, IdleTyped DEF CallRec

(* The rows of the table stay rows when a column of one is assigned.        *)
LEMMA RowTyped ==
  ASSUME NEW x \in Rows, NEW b \in BOOLEAN, NEW t \in Texts
  PROVE  /\ [x EXCEPT !.compressed = b] \in Rows
         /\ [x EXCEPT !.body = t] \in Rows
         /\ [x EXCEPT !.full = x.body] \in Rows
         /\ [x EXCEPT !.compressed = b].facts = x.facts
         /\ [x EXCEPT !.body = t].facts = x.facts
         /\ [x EXCEPT !.full = x.body].facts = x.facts
<1>1. /\ [x EXCEPT !.compressed = b] \in Rows
      /\ [x EXCEPT !.body = t] \in Rows
      /\ [x EXCEPT !.full = x.body] \in Rows
  BY Zenon DEF Rows
<1>2. /\ [x EXCEPT !.compressed = b].facts = x.facts
      /\ [x EXCEPT !.body = t].facts = x.facts
      /\ [x EXCEPT !.full = x.body].facts = x.facts
  BY DEF Rows
<1>. QED
  BY <1>1, <1>2

RowsEdited ==
  /\ Live' = Live
  /\ memories' \in [Live -> Rows]
  /\ \A r \in Live : memories'[r].facts = memories[r].facts

LEMMA EditTyped ==
  ASSUME TypeOK, NEW i, NEW b \in BOOLEAN, NEW t \in Texts,
         \/ memories' = [r \in Live |-> IF r = i THEN [memories[r] EXCEPT !.compressed = b]
                                                 ELSE memories[r]]
         \/ memories' = [r \in Live |-> IF r = i THEN [memories[r] EXCEPT !.body = t]
                                                 ELSE memories[r]]
         \/ memories' = [r \in Live |-> IF r = i THEN [memories[r] EXCEPT !.full = memories[r].body]
                                                 ELSE memories[r]]
  PROVE  RowsEdited
<1>1. Live' = Live
  OBVIOUS
<1>2. ASSUME NEW r \in Live
      PROVE  memories'[r] \in Rows /\ memories'[r].facts = memories[r].facts
  <2>1. memories[r] \in Rows
    BY DEF TypeOK
  <2>2. \/ memories'[r] = memories[r]
        \/ memories'[r] = [memories[r] EXCEPT !.compressed = b]
        \/ memories'[r] = [memories[r] EXCEPT !.body = t]
        \/ memories'[r] = [memories[r] EXCEPT !.full = memories[r].body]
    OBVIOUS
  <2>3. /\ [memories[r] EXCEPT !.compressed = b] \in Rows
        /\ [memories[r] EXCEPT !.body = t] \in Rows
        /\ [memories[r] EXCEPT !.full = memories[r].body] \in Rows
        /\ [memories[r] EXCEPT !.compressed = b].facts = memories[r].facts
        /\ [memories[r] EXCEPT !.body = t].facts = memories[r].facts
        /\ [memories[r] EXCEPT !.full = memories[r].body].facts = memories[r].facts
    BY <2>1, RowTyped, Zenon
  <2>. QED
    BY <2>1, <2>2, <2>3, Zenon
<1>3. memories' = [r \in Live |-> memories'[r]]
  OBVIOUS
<1>. QED
  BY <1>1, <1>2, <1>3 DEF RowsEdited

(* The statements that assign a column.                                     *)
LEMMA Edits ==
  ASSUME IndInv, NEW c \in Conns,
         \/ TagDigest(c) \/ KeepOriginal(c) \/ SetBodyWrite(c) \/ TagCompressed(c)
         \/ CompressSkip(c)
  PROVE  RowsEdited
<1>t. TypeOK /\ Original \in Texts /\ TRUE \in BOOLEAN /\ FALSE \in BOOLEAN
  BY DEF IndInv, Texts
<1>1. CASE TagDigest(c)
  BY <1>1, <1>t, EditTyped DEF TagDigest
<1>2. CASE KeepOriginal(c)
  BY <1>2, <1>t, EditTyped DEF KeepOriginal
<1>3. CASE SetBodyWrite(c)
  <2>1. call[c].new \in Texts
    BY <1>3 DEF SetBodyWrite, IndInv, PhaseInv, Texts
  <2>. QED
    BY <2>1, <1>3, <1>t, EditTyped DEF SetBodyWrite
<1>4. CASE TagCompressed(c)
  BY <1>4, <1>t, EditTyped DEF TagCompressed
<1>5. CASE CompressSkip(c)
  <2>1. PICK v \in call[c].rest, tag \in BOOLEAN :
          memories' = [r \in Live |-> IF r = v /\ tag
                                      THEN [memories[r] EXCEPT !.compressed = TRUE]
                                      ELSE memories[r]]
    BY <1>5 DEF CompressSkip
  <2>2. CASE tag
    BY <2>1, <2>2, <1>t, EditTyped
  <2>3. CASE ~tag
    BY <2>1, <2>3, <1>t DEF RowsEdited, TypeOK
  <2>. QED
    BY <2>2, <2>3
<1>. QED
  BY <1>1, <1>2, <1>3, <1>4, <1>5

(***************************************************************************)
(* Type correctness, one step per action.                                  *)
(***************************************************************************)
(* The facts of a set of live rows are ids.                                 *)
LEMMA FactsTyped ==
  ASSUME TypeOK, NEW S \in SUBSET Live PROVE FactsOf(S) \in SUBSET Ids
BY DEF TypeOK, Rows, FactsOf

(* Taking rows out of the table keeps it a table.                           *)
LEMMA RestrictTyped ==
  ASSUME TypeOK, NEW S \in SUBSET Live, memories' = Restrict(memories, S)
  PROVE  /\ Live' = S /\ Live' \subseteq Ids /\ memories' \in [Live' -> Rows]
         /\ \A r \in S : memories'[r] = memories[r]
BY DEF TypeOK, Restrict

LEMMA InsertTyped ==
  ASSUME TypeOK, NEW c \in Conns, NEW op \in OpNames, NEW kind \in Kinds,
         NEW F \in SUBSET Ids, NEW S \in SUBSET Ids, InsertRow(c, op, kind, F, S)
  PROVE  TypeOK'
<1>1. nextId \in Ids /\ nextId + 1 \in 1..(MaxId + 1) /\ nextId \in Nat
  BY StoreAssumption DEF TypeOK, InsertRow, Ids
<1>2. DEFINE row == [kind |-> kind, facts |-> F \cup {nextId}, body |-> Original,
                     full |-> NoText, compressed |-> FALSE]
<1>3. row \in Rows
  <2>1. F \cup {nextId} \in SUBSET Ids
    BY <1>1
  <2>2. Original \in Texts
    BY DEF Texts
  <2>. QED
    BY <2>1, <2>2 DEF Rows
<1>4. memories' = [r \in Live \cup {nextId} |-> IF r = nextId THEN row ELSE memories[r]]
  BY DEF InsertRow
<1>5. Live' = Live \cup {nextId} /\ memories' \in [Live' -> Rows]
  <2>. HIDE DEF row
  <2>. QED
    BY <1>3, <1>4 DEF TypeOK
<1>6. "index" \in PCs
  BY Names
<1>7. [Idle EXCEPT !.op = op, !.pc = "index", !.id = nextId, !.facts = F, !.rest = S] \in CallRec
  BY <1>1, <1>6, RecBegin, OldTyped, IdleTyped DEF CallRec
<1>8. call' \in [Conns -> CallRec]
  BY <1>7 DEF TypeOK, InsertRow
<1>. QED
  BY <1>1, <1>5, <1>8 DEF TypeOK, InsertRow

(* The next row of a sweep, or its end.                                     *)
LEMMA NextRowTyped ==
  ASSUME TypeOK, NEW c \in Conns, NEW v, NextRow(c, v)
  PROVE  call' \in [Conns -> CallRec]
<1>1. call[c].rest \ {v} \in SUBSET Ids
  BY DEF TypeOK, CallRec
<1>2. [Idle EXCEPT !.op = "compress", !.pc = "llm", !.rest = call[c].rest \ {v}] \in CallRec
  BY <1>1, IdleTyped, Names DEF CallRec
<1>. QED
  BY <1>2, IdleTyped DEF TypeOK, NextRow, Return

(* Moving on to another statement, or returning.                            *)
LEMMA MoveTyped ==
  ASSUME TypeOK, NEW c \in Conns, NEW p \in PCs, Goto(c, p) \/ Return(c)
  PROVE  call' \in [Conns -> CallRec]
<1>1. [call[c] EXCEPT !.pc = p] \in CallRec
  BY RecPc DEF TypeOK
<1>. QED
  BY <1>1, IdleTyped DEF TypeOK, Goto, Return

LEMMA StepType == IndInv /\ [Next]_vars => TypeOK'
<1>. SUFFICES ASSUME IndInv, [Next]_vars PROVE TypeOK'
  OBVIOUS
<1>t. TypeOK
  BY DEF IndInv
<1>0. CASE UNCHANGED vars
  BY <1>0, <1>t DEF vars, TypeOK
<1>1. ASSUME NEW c \in Conns, Begin(c) PROVE TypeOK'
  <2>1. CASE Save(c)
    BY <2>1, <1>t, InsertTyped, Names DEF Save, Kinds
  <2>2. CASE SetBlock(c)
    <3>1. PICK gone \in SUBSET Live : /\ memories' = Restrict(memories, Live \ gone)
                                      /\ forgotten' = forgotten \cup FactsOf(gone)
      BY <2>2 DEF SetBlock
    <3>2. [Idle EXCEPT !.op = "set_block", !.pc = "insert"] \in CallRec
      BY IdleTyped, Names DEF CallRec
    <3>3. call' \in [Conns -> CallRec]
      BY <3>2, <2>2, <1>t DEF SetBlock, TypeOK
    <3>4. FactsOf(gone) \in SUBSET Ids
      BY <1>t, FactsTyped
    <3>. QED
      BY <3>1, <3>3, <3>4, <2>2, <1>t, RestrictTyped DEF SetBlock, TypeOK
  <2>3. ASSUME NEW op \in OpNames, Consolidate(c, op) PROVE TypeOK'
    <3>1. PICK rest \in SUBSET Live :
            call' = [call EXCEPT ![c] = [Idle EXCEPT !.op = op, !.pc = "insert",
                                                     !.facts = FactsOf(rest), !.rest = rest]]
      BY <2>3 DEF Consolidate, BeyondRecent, Candidates
    <3>2. FactsOf(rest) \in SUBSET Ids /\ rest \in SUBSET Ids
      BY <1>t, FactsTyped DEF TypeOK
    <3>3. [Idle EXCEPT !.op = op, !.pc = "insert", !.facts = FactsOf(rest), !.rest = rest]
            \in CallRec
      BY <3>2, IdleTyped, Names DEF CallRec
    <3>. QED
      BY <3>1, <3>3, <2>3, <1>t DEF Consolidate, TypeOK
  <2>4. CASE CompressSweep(c)
    <3>1. PICK rest \in SUBSET Live :
            call' = [call EXCEPT ![c] = [Idle EXCEPT !.op = "compress", !.pc = "llm",
                                                     !.rest = rest]]
      BY <2>4 DEF CompressSweep
    <3>2. [Idle EXCEPT !.op = "compress", !.pc = "llm", !.rest = rest] \in CallRec
      BY <1>t, IdleTyped, Names DEF CallRec, TypeOK
    <3>. QED
      BY <3>1, <3>2, <2>4, <1>t DEF CompressSweep, TypeOK
  <2>5. CASE DeleteRow(c)
    <3>1. PICK r \in Live :
            call' = [call EXCEPT ![c] = [Idle EXCEPT !.op = "delete_row", !.pc = "unindexOld",
                       !.old = [i \in {r} |-> memories[i].body], !.rest = {r}, !.want = 1]]
      BY <2>5 DEF DeleteRow
    <3>2. {r} \in SUBSET Ids /\ [i \in {r} |-> memories[i].body] \in [{r} -> Texts]
      BY <1>t DEF TypeOK, Rows
    <3>3. [i \in {r} |-> memories[i].body] \in OldTexts
      BY <3>2, OldTyped
    <3>4. [Idle EXCEPT !.op = "delete_row", !.pc = "unindexOld",
             !.old = [i \in {r} |-> memories[i].body], !.rest = {r}, !.want = 1] \in CallRec
      BY <3>2, <3>3, IdleTyped, Names DEF CallRec
    <3>. QED
      BY <3>1, <3>4, <2>5, <1>t DEF DeleteRow, TypeOK
  <2>6. CASE DeleteRows(c)
    <3>1. PICK ids \in SUBSET Live, again \in Repeats :
            call' = [call EXCEPT ![c] = [Idle EXCEPT !.op = "delete_rows", !.pc = "select",
                       !.rest = ids, !.want = Cardinality(ids) + again]]
      BY <2>6 DEF DeleteRows
    <3>2. ids \in SUBSET Ids
      BY <1>t DEF TypeOK
    <3>3. Cardinality(ids) + again \in Nat
      BY <3>2, IdsCount, StoreAssumption
    <3>4. [Idle EXCEPT !.op = "delete_rows", !.pc = "select",
             !.rest = ids, !.want = Cardinality(ids) + again] \in CallRec
      BY <3>2, <3>3, IdleTyped, Names DEF CallRec
    <3>. QED
      BY <3>1, <3>4, <2>6, <1>t DEF DeleteRows, TypeOK
  <2>. QED
    BY <1>1, <2>1, <2>2, <2>3, <2>4, <2>5, <2>6, Names
       DEF Begin, ArchiveOverflow, CompressProject
<1>2. ASSUME NEW c \in Conns, Step(c) PROVE TypeOK'
  <2>c. call[c] \in CallRec /\ call[c].rest \in SUBSET Ids /\ call[c].id \in Nat
        /\ call[c].facts \in SUBSET Ids
    BY <1>t DEF TypeOK, CallRec
  <2>1. CASE IndexRow(c)
    <3>1. call' \in [Conns -> CallRec]
      BY <2>1, <1>t, MoveTyped, Names DEF IndexRow
    <3>. QED
      BY <3>1, <2>1, <1>t, FtsTyped DEF IndexRow, TypeOK
  <2>2. CASE InsertBlock(c)
    BY <2>2, <1>t, InsertTyped, Names DEF InsertBlock, Kinds
  <2>3. CASE SaveDigest(c)
    <3>1. call[c].op \in OpNames
      BY <2>3 DEF SaveDigest, IndInv, PhaseInv, Consolidating, OpNames
    <3>. QED
      BY <3>1, <2>c, <2>3, <1>t, InsertTyped DEF SaveDigest, Kinds
  <2>4. CASE TagDigest(c)
    <3>1. call' \in [Conns -> CallRec]
      BY <2>4, <1>t, MoveTyped, Names DEF TagDigest
    <3>2. Live' = Live /\ memories' \in [Live -> Rows]
      BY <2>4, Edits DEF RowsEdited
    <3>. QED
      BY <3>1, <3>2, <2>4, <1>t DEF TagDigest, TypeOK
  <2>5. CASE DeleteUnindex(c)
    <3>1. call' \in [Conns -> CallRec]
      BY <2>5, <1>t, MoveTyped, Names DEF DeleteUnindex
    <3>2. fts' \in [Ids -> [Texts -> Int]]
      BY <2>5, <1>t, FtsTyped DEF DeleteUnindex, TypeOK
    <3>. QED
      BY <3>1, <3>2, <2>5, <1>t DEF DeleteUnindex, TypeOK
  <2>6. CASE DeleteRemove(c)
    <3>1. PICK v \in call[c].rest :
            /\ memories' = Restrict(memories, Live \ {v})
            /\ \/ Return(c)
               \/ call' = [call EXCEPT ![c] = [call[c] EXCEPT !.pc = "unindex",
                                                              !.rest = call[c].rest \ {v}]]
      BY <2>6, <2>c DEF DeleteRemove, CallRec
    <3>2. [call[c] EXCEPT !.pc = "unindex", !.rest = call[c].rest \ {v}] \in CallRec
      BY <2>c, RecRest, Names
    <3>3. call' \in [Conns -> CallRec]
      BY <3>1, <3>2, <1>t, MoveTyped, Names DEF TypeOK
    <3>. QED
      BY <3>1, <3>3, <2>6, <1>t, RestrictTyped DEF DeleteRemove, TypeOK
  <2>7. CASE CompressRead(c)
    <3>1. PICK v \in call[c].rest, new \in Rewrites, p \in {"keep", "read"} :
            \/ call' = [call EXCEPT ![c] = [call[c] EXCEPT !.id = v, !.new = new, !.pc = p]]
            \/ NextRow(c, v)
      BY <2>7, <2>c DEF CompressRead, CallRec
    <3>2. p \in PCs /\ v \in Nat /\ new \in Texts
      BY <2>c, Names DEF Ids, Texts
    <3>3. [call[c] EXCEPT !.id = v, !.new = new, !.pc = p] \in CallRec
      BY <3>2, <2>c, RecNew
    <3>4. call' \in [Conns -> CallRec]
      BY <3>1, <3>3, <1>t, NextRowTyped DEF TypeOK
    <3>. QED
      BY <3>4, <2>7, <1>t DEF CompressRead, TypeOK
  <2>8. CASE CompressSkip(c)
    <3>1. PICK v \in call[c].rest, tag \in BOOLEAN :
            /\ memories' = [r \in Live |-> IF r = v /\ tag
                                           THEN [memories[r] EXCEPT !.compressed = TRUE]
                                           ELSE memories[r]]
            /\ NextRow(c, v)
      BY <2>8 DEF CompressSkip
    <3>2. call' \in [Conns -> CallRec]
      BY <3>1, <1>t, NextRowTyped
    <3>4. Live' = Live /\ memories' \in [Live -> Rows]
      BY <2>8, Edits DEF RowsEdited
    <3>. QED
      BY <3>2, <3>4, <2>8, <1>t DEF CompressSkip, TypeOK
  <2>9. CASE KeepOriginal(c)
    <3>1. call' \in [Conns -> CallRec]
      BY <2>9, <1>t, MoveTyped, Names DEF KeepOriginal
    <3>2. Live' = Live /\ memories' \in [Live -> Rows]
      BY <2>9, Edits DEF RowsEdited
    <3>. QED
      BY <3>1, <3>2, <2>9, <1>t DEF KeepOriginal, TypeOK
  <2>10. CASE SetBodyRead(c)
    <3>1. CASE call[c].id \in Live
      <4>1. {call[c].id} \in SUBSET Ids
            /\ [i \in {call[c].id} |-> memories[i].body] \in [{call[c].id} -> Texts]
        BY <3>1, <1>t DEF TypeOK, Rows
      <4>2. [call[c] EXCEPT !.pc = "write", !.old = [i \in {call[c].id} |-> memories[i].body]]
              \in CallRec
        BY <4>1, <2>c, RecOld, Names
      <4>3. call' \in [Conns -> CallRec]
        BY <4>2, <3>1, <2>10, <1>t DEF SetBodyRead, TypeOK
      <4>. QED
        BY <4>3, <2>10, <1>t DEF SetBodyRead, TypeOK
    <3>2. CASE call[c].id \notin Live
      BY <3>2, <2>10, <1>t, NextRowTyped DEF SetBodyRead, TypeOK
    <3>. QED
      BY <3>1, <3>2
  <2>11. CASE SetBodyWrite(c)
    <3>1. call' \in [Conns -> CallRec]
      BY <2>11, <1>t, MoveTyped, Names DEF SetBodyWrite
    <3>3. Live' = Live /\ memories' \in [Live -> Rows]
      BY <2>11, Edits DEF RowsEdited
    <3>. QED
      BY <3>1, <3>3, <2>11, <1>t DEF SetBodyWrite, TypeOK
  <2>12. CASE SetBodyUnindex(c)
    <3>1. call' \in [Conns -> CallRec]
      BY <2>12, <1>t, MoveTyped, Names DEF SetBodyUnindex
    <3>. QED
      BY <3>1, <2>12, <1>t, FtsTyped DEF SetBodyUnindex, TypeOK
  <2>13. CASE SetBodyIndex(c)
    <3>1. call' \in [Conns -> CallRec]
      BY <2>13, <1>t, MoveTyped, Names DEF SetBodyIndex
    <3>. QED
      BY <3>1, <2>13, <1>t, FtsTyped DEF SetBodyIndex, TypeOK
  <2>14. CASE TagCompressed(c)
    <3>1. call' \in [Conns -> CallRec]
      BY <2>14, <1>t, NextRowTyped DEF TagCompressed
    <3>2. Live' = Live /\ memories' \in [Live -> Rows]
      BY <2>14, Edits DEF RowsEdited
    <3>. QED
      BY <3>1, <3>2, <2>14, <1>t DEF TagCompressed, TypeOK
  <2>15. CASE DeleteRowsSelect(c)
    <3>1. PICK found \in SUBSET Ids :
            /\ found \subseteq Live
            /\ \/ Return(c)
               \/ call' = [call EXCEPT ![c] = [call[c] EXCEPT !.pc = "unindexOld",
                             !.rest = found, !.old = [i \in found |-> memories[i].body]]]
      <4>1. call[c].rest \cap Live \in SUBSET Ids
        BY <2>c
      <4>. QED
        BY <4>1, <2>15, <2>c DEF DeleteRowsSelect, CallRec
    <3>2. [i \in found |-> memories[i].body] \in [found -> Texts]
      BY <3>1, <1>t DEF TypeOK, Rows
    <3>3. [call[c] EXCEPT !.pc = "unindexOld", !.rest = found,
                          !.old = [i \in found |-> memories[i].body]] \in CallRec
      BY <3>2, <2>c, RecOld, Names
    <3>4. call' \in [Conns -> CallRec]
      BY <3>1, <3>3, <1>t, MoveTyped, Names DEF TypeOK
    <3>. QED
      BY <3>4, <2>15, <1>t DEF DeleteRowsSelect, TypeOK
  <2>16. CASE GovernedUnindex(c)
    <3>1. PICK v \in call[c].rest, p \in {"removeRows", "unindexOld"} :
            /\ FtsDelete(v, call[c].old[v])
            /\ call' = [call EXCEPT ![c] = [call[c] EXCEPT !.pc = p,
                                                           !.rest = call[c].rest \ {v}]]
      BY <2>16, <2>c DEF GovernedUnindex, CallRec
    <3>2. [call[c] EXCEPT !.pc = p, !.rest = call[c].rest \ {v}] \in CallRec
      BY <2>c, RecRest, Names
    <3>3. call' \in [Conns -> CallRec]
      BY <3>1, <3>2, <1>t DEF TypeOK
    <3>. QED
      BY <3>1, <3>3, <2>16, <1>t, FtsTyped DEF GovernedUnindex, TypeOK
  <2>17. CASE GovernedRemove(c)
    <3>1. call' \in [Conns -> CallRec]
      BY <2>17, <1>t, MoveTyped, Names DEF GovernedRemove
    <3>2. FactsOf(Found(c) \cap Live) \in SUBSET Ids
      BY <1>t, FactsTyped
    <3>. QED
      BY <3>1, <3>2, <2>17, <1>t, RestrictTyped DEF GovernedRemove, TypeOK
  <2>. QED
    BY <1>2, <2>1, <2>2, <2>3, <2>4, <2>5, <2>6, <2>7, <2>8, <2>9, <2>10, <2>11, <2>12,
       <2>13, <2>14, <2>15, <2>16, <2>17 DEF Step
<1>3. ASSUME NEW c \in Conns, Interrupt(c) PROVE TypeOK'
  <2>1. call' \in [Conns -> CallRec]
    BY <1>3, <1>t, MoveTyped, Names DEF Interrupt
  <2>. QED
    BY <2>1, <1>3, <1>t, StoreAssumption DEF Interrupt, TypeOK
<1>. QED
  BY <1>0, <1>1, <1>2, <1>3 DEF Next

(***************************************************************************)
(* What a step does to the rows.  Every action is of one of four sorts.    *)
(***************************************************************************)
SameRows ==
  /\ nextId' = nextId /\ forgotten' = forgotten /\ Live' = Live
  /\ \A r \in Live : memories'[r].facts = memories[r].facts

NewRow(c) ==
  /\ nextId' = nextId + 1 /\ forgotten' = forgotten /\ Live' = Live \cup {nextId}
  /\ \A r \in Live : memories'[r].facts = memories[r].facts
  /\ memories'[nextId].facts = call'[c].facts \cup {nextId}

ForgetRows ==
  /\ nextId' = nextId /\ Live' \subseteq Live
  /\ \A r \in Live' : memories'[r].facts = memories[r].facts
  /\ forgotten' = forgotten \cup FactsOf(Live \ Live')

DropRow(c) ==
  /\ nextId' = nextId /\ forgotten' = forgotten /\ At(c, "remove")
  /\ \E v \in call[c].rest : Live' = Live \ {v}
  /\ \A r \in Live' : memories'[r].facts = memories[r].facts

(* What a step does to the call of the connection that takes it.            *)
Leaves(c) == ~Consolidating(c)'

Lists(c) ==
  /\ SameRows /\ At(c, "idle")
  /\ call'[c].pc = "insert" /\ call'[c].rest \subseteq Live
  /\ call'[c].facts = FactsOf(call'[c].rest)

Digests(c) ==
  /\ NewRow(c) /\ Consolidating(c) /\ At(c, "insert")
  /\ call'[c].pc = "index" /\ call'[c].id = nextId
  /\ call'[c].facts = call[c].facts /\ call'[c].rest = call[c].rest

Proceeds(c) ==
  /\ SameRows \/ DropRow(c)
  /\ Consolidating(c) /\ ~At(c, "insert") /\ call'[c].pc # "insert"
  /\ call'[c].id = call[c].id /\ call'[c].facts = call[c].facts
  /\ call'[c].rest \subseteq call[c].rest

Effect(c) ==
  /\ \A d \in Conns \ {c} : call'[d] = call[d]
  /\ SameRows \/ NewRow(c) \/ ForgetRows \/ DropRow(c)
  /\ Leaves(c) \/ Lists(c) \/ Digests(c) \/ Proceeds(c)

(* What is true of one record of a call between statements.                 *)
Phase(k) ==
  /\ k.op \in {"archive", "compress_project"} <=>
       \/ k.pc \in {"tag", "unindex", "remove"}
       \/ k.pc = "insert" /\ k.op # "set_block"
       \/ k.pc = "index" /\ k.op \notin {"save", "set_block"}
  /\ k.pc \in {"keep", "read", "write"} => k.new \in Rewrites

LEMMA PhaseHere ==
  ASSUME IndInv, NEW c \in Conns
  PROVE  Phase(call[c]) /\ call[c] \in CallRec
BY DEF IndInv, PhaseInv, Phase, Consolidating, TypeOK

(* The fields of the records that calls begin and end with.                 *)
LEMMA IdleFields ==
  /\ Idle.op = "none" /\ Idle.pc = "idle" /\ Phase(Idle)
  /\ \A o, p : LET k == [Idle EXCEPT !.op = o, !.pc = p] IN k.op = o /\ k.pc = p
  /\ \A o, p, S : LET k == [Idle EXCEPT !.op = o, !.pc = p, !.rest = S]
                  IN  k.op = o /\ k.pc = p /\ k.rest = S
BY DEF Idle, Phase

LEMMA MoveEffect ==
  ASSUME IndInv, NEW c \in Conns, NEW p, Goto(c, p)
  PROVE  /\ \A d \in Conns \ {c} : call'[d] = call[d]
         /\ call'[c].pc = p /\ call'[c].op = call[c].op /\ call'[c].id = call[c].id
         /\ call'[c].facts = call[c].facts /\ call'[c].rest = call[c].rest
         /\ call'[c].new = call[c].new
<1>1. call \in [Conns -> CallRec]
  BY DEF IndInv, TypeOK
<1>2. PICK k \in CallRec : k = call[c]
  BY <1>1
<1>3. call' = [call EXCEPT ![c] = [k EXCEPT !.pc = p]]
  BY <1>2 DEF Goto
<1>4. call'[c] = [k EXCEPT !.pc = p] /\ \A d \in Conns \ {c} : call'[d] = call[d]
  BY <1>1, <1>3
<1>. QED
  BY <1>2, <1>4 DEF CallRec

LEMMA ReturnEffect ==
  ASSUME IndInv, NEW c \in Conns, Return(c)
  PROVE  /\ \A d \in Conns \ {c} : call'[d] = call[d]
         /\ call'[c] = Idle /\ Leaves(c) /\ Phase(call'[c])
<1>1. call \in [Conns -> CallRec]
  BY DEF IndInv, TypeOK
<1>2. call'[c] = Idle /\ \A d \in Conns \ {c} : call'[d] = call[d]
  BY <1>1 DEF Return
<1>. QED
  BY <1>2, IdleFields DEF Leaves, Consolidating

LEMMA NextRowEffect ==
  ASSUME IndInv, NEW c \in Conns, NEW v, NextRow(c, v)
  PROVE  /\ \A d \in Conns \ {c} : call'[d] = call[d]
         /\ Leaves(c) /\ Phase(call'[c])
<1>1. call \in [Conns -> CallRec]
  BY DEF IndInv, TypeOK
<1>2. CASE Return(c)
  BY <1>2, ReturnEffect
<1>3. CASE call' = [call EXCEPT ![c] = [Idle EXCEPT !.op = "compress", !.pc = "llm",
                                                    !.rest = call[c].rest \ {v}]]
  <2>1. /\ call'[c].op = "compress" /\ call'[c].pc = "llm"
        /\ \A d \in Conns \ {c} : call'[d] = call[d]
    BY <1>1, <1>3, IdleFields
  <2>. QED
    BY <2>1 DEF Leaves, Consolidating, Phase
<1>. QED
  BY <1>2, <1>3 DEF NextRow

LEMMA InsertEffect ==
  ASSUME IndInv, NEW c \in Conns, NEW op, NEW kind, NEW F, NEW S,
         InsertRow(c, op, kind, F, S)
  PROVE  /\ \A d \in Conns \ {c} : call'[d] = call[d]
         /\ NewRow(c)
         /\ call'[c].op = op /\ call'[c].pc = "index" /\ call'[c].id = nextId
         /\ call'[c].facts = F /\ call'[c].rest = S
<1>1. call \in [Conns -> CallRec]
  BY DEF IndInv, TypeOK
<1>2. /\ call'[c] = [Idle EXCEPT !.op = op, !.pc = "index", !.id = nextId,
                                 !.facts = F, !.rest = S]
      /\ \A d \in Conns \ {c} : call'[d] = call[d]
  BY <1>1 DEF InsertRow
<1>3. /\ call'[c].op = op /\ call'[c].pc = "index" /\ call'[c].id = nextId
      /\ call'[c].facts = F /\ call'[c].rest = S
  BY <1>2 DEF Idle
<1>4. nextId \notin Live
  BY DEF IndInv, PhaseInv, TypeOK
<1>5. Live' = Live \cup {nextId}
  BY DEF InsertRow
<1>6. \A r \in Live : memories'[r] = memories[r]
  BY <1>4 DEF InsertRow
<1>7. memories'[nextId].facts = F \cup {nextId}
  BY DEF InsertRow
<1>. QED
  BY <1>2, <1>3, <1>5, <1>6, <1>7 DEF NewRow, InsertRow

(* Statements that only move the call on.                                   *)
LEMMA QuietEffect ==
  ASSUME IndInv, NEW c \in Conns, NEW p, Goto(c, p), SameRows,
         Phase([call[c] EXCEPT !.pc = p]),
         ~Consolidating(c) \/ (~At(c, "insert") /\ p # "insert")
  PROVE  Effect(c) /\ Phase(call'[c])
<1>1. /\ \A d \in Conns \ {c} : call'[d] = call[d]
      /\ call'[c].pc = p /\ call'[c].op = call[c].op /\ call'[c].id = call[c].id
      /\ call'[c].facts = call[c].facts /\ call'[c].rest = call[c].rest
  BY MoveEffect
<1>2. call'[c] = [call[c] EXCEPT !.pc = p]
  BY DEF Goto, IndInv, TypeOK
<1>3. CASE ~Consolidating(c)
  BY <1>1, <1>2, <1>3 DEF Effect, Leaves, Consolidating
<1>4. CASE Consolidating(c)
  BY <1>1, <1>2, <1>4 DEF Effect, Proceeds
<1>. QED
  BY <1>3, <1>4

LEMMA StepEffect ==
  ASSUME IndInv, NEW c \in Conns, Begin(c) \/ Step(c) \/ Interrupt(c)
  PROVE  Effect(c) /\ Phase(call'[c])
<1>t. TypeOK /\ call \in [Conns -> CallRec] /\ call[c] \in CallRec /\ Phase(call[c])
  BY PhaseHere DEF IndInv, TypeOK
<1>1. CASE Save(c)
  <2>1. InsertRow(c, "save", "note", {}, {})
    BY <1>1 DEF Save
  <2>. QED
    BY <2>1, InsertEffect DEF Effect, Leaves, Consolidating, Phase
<1>2. CASE SetBlock(c)
  <2>1. PICK gone \in SUBSET Live : /\ memories' = Restrict(memories, Live \ gone)
                                    /\ forgotten' = forgotten \cup FactsOf(gone)
    BY <1>2 DEF SetBlock
  <2>6. Live' = Live \ gone /\ \A r \in Live' : memories'[r] = memories[r]
    BY <2>1, <1>t, RestrictTyped
  <2>2. Live \ Live' = gone
    BY <2>6
  <2>3. /\ call'[c] = [Idle EXCEPT !.op = "set_block", !.pc = "insert"]
        /\ \A d \in Conns \ {c} : call'[d] = call[d]
    BY <1>2, <1>t DEF SetBlock
  <2>4. call'[c].op = "set_block" /\ call'[c].pc = "insert"
    BY <2>3, IdleFields
  <2>5. ForgetRows
    BY <1>2, <2>1, <2>2, <2>6 DEF ForgetRows, SetBlock
  <2>. QED
    BY <2>3, <2>4, <2>5 DEF Effect, Leaves, Consolidating, Phase
<1>3. CASE ArchiveOverflow(c)
  <2>1. PICK rest \in SUBSET Live :
          call' = [call EXCEPT ![c] = [Idle EXCEPT !.op = "archive", !.pc = "insert",
                                                   !.facts = FactsOf(rest), !.rest = rest]]
    BY <1>3 DEF ArchiveOverflow, Consolidate, BeyondRecent, Candidates
  <2>2. /\ call'[c] = [Idle EXCEPT !.op = "archive", !.pc = "insert",
                                   !.facts = FactsOf(rest), !.rest = rest]
        /\ \A d \in Conns \ {c} : call'[d] = call[d]
    BY <2>1, <1>t
  <2>3. /\ call'[c].op = "archive" /\ call'[c].pc = "insert"
        /\ call'[c].facts = FactsOf(rest) /\ call'[c].rest = rest
    BY <2>2 DEF Idle
  <2>4. SameRows /\ At(c, "idle")
    BY <1>3 DEF ArchiveOverflow, Consolidate, SameRows, Ready
  <2>. QED
    BY <2>2, <2>3, <2>4 DEF Effect, Lists, Phase
<1>4. CASE CompressProject(c)
  <2>1. PICK rest \in SUBSET Live :
          call' = [call EXCEPT ![c] = [Idle EXCEPT !.op = "compress_project", !.pc = "insert",
                                                   !.facts = FactsOf(rest), !.rest = rest]]
    BY <1>4 DEF CompressProject, Consolidate, BeyondRecent, Candidates
  <2>2. /\ call'[c] = [Idle EXCEPT !.op = "compress_project", !.pc = "insert",
                                   !.facts = FactsOf(rest), !.rest = rest]
        /\ \A d \in Conns \ {c} : call'[d] = call[d]
    BY <2>1, <1>t
  <2>3. /\ call'[c].op = "compress_project" /\ call'[c].pc = "insert"
        /\ call'[c].facts = FactsOf(rest) /\ call'[c].rest = rest
    BY <2>2 DEF Idle
  <2>4. SameRows /\ At(c, "idle")
    BY <1>4 DEF CompressProject, Consolidate, SameRows, Ready
  <2>. QED
    BY <2>2, <2>3, <2>4 DEF Effect, Lists, Phase
<1>5. CASE CompressSweep(c)
  <2>1. PICK rest \in SUBSET Live :
          call' = [call EXCEPT ![c] = [Idle EXCEPT !.op = "compress", !.pc = "llm",
                                                   !.rest = rest]]
    BY <1>5 DEF CompressSweep
  <2>2. /\ call'[c].op = "compress" /\ call'[c].pc = "llm"
        /\ \A d \in Conns \ {c} : call'[d] = call[d]
    BY <2>1, <1>t, IdleFields
  <2>3. SameRows
    BY <1>5 DEF CompressSweep, SameRows
  <2>. QED
    BY <2>2, <2>3 DEF Effect, Leaves, Consolidating, Phase
<1>6. CASE DeleteRow(c)
  <2>1. PICK r \in Live :
          call' = [call EXCEPT ![c] = [Idle EXCEPT !.op = "delete_row", !.pc = "unindexOld",
                     !.old = [i \in {r} |-> memories[i].body], !.rest = {r}, !.want = 1]]
    BY <1>6 DEF DeleteRow
  <2>2. /\ call'[c] = [Idle EXCEPT !.op = "delete_row", !.pc = "unindexOld",
                     !.old = [i \in {r} |-> memories[i].body], !.rest = {r}, !.want = 1]
        /\ \A d \in Conns \ {c} : call'[d] = call[d]
    BY <2>1, <1>t
  <2>3. call'[c].op = "delete_row" /\ call'[c].pc = "unindexOld"
    BY <2>2 DEF Idle
  <2>4. SameRows
    BY <1>6 DEF DeleteRow, SameRows
  <2>. QED
    BY <2>2, <2>3, <2>4 DEF Effect, Leaves, Consolidating, Phase
<1>7. CASE DeleteRows(c)
  <2>1. PICK ids \in SUBSET Live, again \in Repeats :
          call' = [call EXCEPT ![c] = [Idle EXCEPT !.op = "delete_rows", !.pc = "select",
                     !.rest = ids, !.want = Cardinality(ids) + again]]
    BY <1>7 DEF DeleteRows
  <2>2. /\ call'[c] = [Idle EXCEPT !.op = "delete_rows", !.pc = "select",
                     !.rest = ids, !.want = Cardinality(ids) + again]
        /\ \A d \in Conns \ {c} : call'[d] = call[d]
    BY <2>1, <1>t
  <2>3. call'[c].op = "delete_rows" /\ call'[c].pc = "select"
    BY <2>2 DEF Idle
  <2>4. SameRows
    BY <1>7 DEF DeleteRows, SameRows
  <2>. QED
    BY <2>2, <2>3, <2>4 DEF Effect, Leaves, Consolidating, Phase
<1>8. CASE IndexRow(c)
  <2>1. SameRows
    BY <1>8 DEF IndexRow, SameRows
  <2>2. CASE Return(c)
    BY <2>1, <2>2, ReturnEffect DEF Effect
  <2>3. CASE call[c].op = "archive" /\ Goto(c, "tag")
    <3>1. Phase([call[c] EXCEPT !.pc = "tag"])
      BY <2>3, <1>t DEF Phase, CallRec
    <3>. QED
      BY <1>8, <2>1, <2>3, <3>1, QuietEffect DEF IndexRow
  <2>4. CASE call[c].op = "compress_project" /\ Goto(c, "unindex")
    <3>1. Phase([call[c] EXCEPT !.pc = "unindex"])
      BY <2>4, <1>t DEF Phase, CallRec
    <3>. QED
      BY <1>8, <2>1, <2>4, <3>1, QuietEffect DEF IndexRow
  <2>. QED
    BY <1>8, <2>2, <2>3, <2>4 DEF IndexRow
<1>9. CASE InsertBlock(c)
  <2>1. InsertRow(c, "set_block", "block", {}, {})
    BY <1>9 DEF InsertBlock
  <2>. QED
    BY <2>1, InsertEffect DEF Effect, Leaves, Consolidating, Phase
<1>10. CASE SaveDigest(c)
  <2>1. /\ At(c, "insert") /\ call[c].op # "set_block"
        /\ InsertRow(c, call[c].op, "archival", call[c].facts, call[c].rest)
    BY <1>10 DEF SaveDigest
  <2>2. Consolidating(c)
    BY <2>1, <1>t DEF Phase, Consolidating
  <2>3. /\ \A d \in Conns \ {c} : call'[d] = call[d]
        /\ NewRow(c)
        /\ call'[c].op = call[c].op /\ call'[c].pc = "index" /\ call'[c].id = nextId
        /\ call'[c].facts = call[c].facts /\ call'[c].rest = call[c].rest
    BY <2>1, InsertEffect
  <2>. QED
    BY <2>1, <2>2, <2>3 DEF Effect, Digests, Consolidating, Phase
<1>11. CASE TagDigest(c)
  <2>1. SameRows
    BY <1>11, Edits DEF TagDigest, SameRows, RowsEdited
  <2>2. Phase([call[c] EXCEPT !.pc = "unindex"])
    BY <1>11, <1>t DEF TagDigest, Phase, CallRec
  <2>. QED
    BY <1>11, <2>1, <2>2, <1>t, QuietEffect DEF TagDigest, Consolidating, Phase
<1>12. CASE DeleteUnindex(c)
  <2>1. SameRows
    BY <1>12 DEF DeleteUnindex, SameRows
  <2>2. Phase([call[c] EXCEPT !.pc = "remove"])
    BY <1>12, <1>t DEF DeleteUnindex, Phase, CallRec
  <2>. QED
    BY <1>12, <2>1, <2>2, <1>t, QuietEffect DEF DeleteUnindex, Consolidating, Phase
<1>13. CASE DeleteRemove(c)
  <2>1. PICK v \in call[c].rest :
          /\ memories' = Restrict(memories, Live \ {v})
          /\ \/ Return(c)
             \/ call' = [call EXCEPT ![c] = [call[c] EXCEPT !.pc = "unindex",
                                                            !.rest = call[c].rest \ {v}]]
    BY <1>13, <1>t DEF DeleteRemove, CallRec
  <2>2. Live' = Live \ {v} /\ \A r \in Live' : memories'[r] = memories[r]
    BY <2>1, <1>t, RestrictTyped
  <2>3. DropRow(c)
    BY <1>13, <2>2 DEF DropRow, DeleteRemove
  <2>4. CASE Return(c)
    BY <2>3, <2>4, ReturnEffect DEF Effect
  <2>5. CASE call' = [call EXCEPT ![c] = [call[c] EXCEPT !.pc = "unindex",
                                                         !.rest = call[c].rest \ {v}]]
    <3>1. /\ call'[c] = [call[c] EXCEPT !.pc = "unindex", !.rest = call[c].rest \ {v}]
          /\ \A d \in Conns \ {c} : call'[d] = call[d]
      BY <2>5, <1>t
    <3>2. /\ call'[c].pc = "unindex" /\ call'[c].op = call[c].op /\ call'[c].id = call[c].id
          /\ call'[c].facts = call[c].facts /\ call'[c].rest \subseteq call[c].rest
      BY <3>1, <1>t DEF CallRec
    <3>3. Consolidating(c) /\ ~At(c, "insert")
      BY <1>13, <1>t DEF DeleteRemove, Phase, Consolidating
    <3>. QED
      BY <3>1, <3>2, <3>3, <2>3 DEF Effect, Proceeds, Phase, Consolidating
  <2>. QED
    BY <2>1, <2>4, <2>5
<1>14. CASE CompressRead(c)
  <2>1. SameRows
    BY <1>14 DEF CompressRead, SameRows
  <2>2. PICK v \in call[c].rest, new \in Rewrites, p \in {"keep", "read"} :
          \/ call' = [call EXCEPT ![c] = [call[c] EXCEPT !.id = v, !.new = new, !.pc = p]]
          \/ NextRow(c, v)
    BY <1>14, <1>t DEF CompressRead
  <2>3. CASE NextRow(c, v)
    BY <2>1, <2>3, NextRowEffect DEF Effect
  <2>4. CASE call' = [call EXCEPT ![c] = [call[c] EXCEPT !.id = v, !.new = new, !.pc = p]]
    <3>1. /\ call'[c] = [call[c] EXCEPT !.id = v, !.new = new, !.pc = p]
          /\ \A d \in Conns \ {c} : call'[d] = call[d]
      BY <2>4, <1>t
    <3>2. call'[c].pc = p /\ call'[c].op = call[c].op /\ call'[c].new = new
      BY <3>1, <1>t DEF CallRec
    <3>3. ~Consolidating(c)
      BY <1>14, <1>t DEF CompressRead, Phase, Consolidating
    <3>. QED
      BY <3>1, <3>2, <3>3, <2>1 DEF Effect, Leaves, Phase, Consolidating
  <2>. QED
    BY <2>2, <2>3, <2>4
<1>15. CASE CompressSkip(c)
  <2>1. SameRows
    BY <1>15, Edits DEF CompressSkip, SameRows, RowsEdited
  <2>. QED
    BY <1>15, <2>1, NextRowEffect DEF Effect, CompressSkip
<1>16. CASE KeepOriginal(c)
  <2>1. SameRows
    BY <1>16, Edits DEF KeepOriginal, SameRows, RowsEdited
  <2>2. Phase([call[c] EXCEPT !.pc = "read"])
    BY <1>16, <1>t DEF KeepOriginal, Phase, CallRec
  <2>. QED
    BY <1>16, <2>1, <2>2, <1>t, QuietEffect DEF KeepOriginal, Consolidating, Phase
<1>17. CASE SetBodyRead(c)
  <2>1. SameRows
    BY <1>17 DEF SetBodyRead, SameRows
  <2>2. CASE call[c].id \notin Live
    BY <1>17, <2>1, <2>2, NextRowEffect DEF Effect, SetBodyRead
  <2>3. CASE call[c].id \in Live
    <3>1. /\ call'[c] = [call[c] EXCEPT !.pc = "write",
                           !.old = [i \in {call[c].id} |-> memories[i].body]]
          /\ \A d \in Conns \ {c} : call'[d] = call[d]
      BY <1>17, <2>3, <1>t DEF SetBodyRead
    <3>2. call'[c].pc = "write" /\ call'[c].op = call[c].op /\ call'[c].new = call[c].new
      BY <3>1, <1>t DEF CallRec
    <3>3. ~Consolidating(c) /\ call[c].new \in Rewrites
      BY <1>17, <1>t DEF SetBodyRead, Phase, Consolidating
    <3>. QED
      BY <3>1, <3>2, <3>3, <2>1 DEF Effect, Leaves, Phase, Consolidating
  <2>. QED
    BY <2>2, <2>3
<1>18. CASE SetBodyWrite(c)
  <2>1. SameRows
    BY <1>18, Edits DEF SetBodyWrite, SameRows, RowsEdited
  <2>2. Phase([call[c] EXCEPT !.pc = "unindexOld"])
    BY <1>18, <1>t DEF SetBodyWrite, Phase, CallRec
  <2>. QED
    BY <1>18, <2>1, <2>2, <1>t, QuietEffect DEF SetBodyWrite, Consolidating, Phase
<1>19. CASE SetBodyUnindex(c)
  <2>1. SameRows
    BY <1>19 DEF SetBodyUnindex, SameRows
  <2>2. Phase([call[c] EXCEPT !.pc = "indexNew"])
    BY <1>19, <1>t DEF SetBodyUnindex, Phase, CallRec
  <2>. QED
    BY <1>19, <2>1, <2>2, <1>t, QuietEffect DEF SetBodyUnindex, Consolidating, Phase
<1>20. CASE SetBodyIndex(c)
  <2>1. SameRows
    BY <1>20 DEF SetBodyIndex, SameRows
  <2>2. Phase([call[c] EXCEPT !.pc = "tagRow"])
    BY <1>20, <1>t DEF SetBodyIndex, Phase, CallRec
  <2>. QED
    BY <1>20, <2>1, <2>2, <1>t, QuietEffect DEF SetBodyIndex, Consolidating, Phase
<1>21. CASE TagCompressed(c)
  <2>1. SameRows
    BY <1>21, Edits DEF TagCompressed, SameRows, RowsEdited
  <2>. QED
    BY <1>21, <2>1, NextRowEffect DEF Effect, TagCompressed
<1>22. CASE DeleteRowsSelect(c)
  <2>1. SameRows
    BY <1>22 DEF DeleteRowsSelect, SameRows
  <2>2. CASE Return(c)
    BY <2>1, <2>2, ReturnEffect DEF Effect
  <2>3. CASE ~Return(c)
    <3>1. PICK found :
            call' = [call EXCEPT ![c] = [call[c] EXCEPT !.pc = "unindexOld",
                       !.rest = found, !.old = [i \in found |-> memories[i].body]]]
      BY <1>22, <2>3 DEF DeleteRowsSelect
    <3>2. /\ call'[c] = [call[c] EXCEPT !.pc = "unindexOld",
                       !.rest = found, !.old = [i \in found |-> memories[i].body]]
          /\ \A d \in Conns \ {c} : call'[d] = call[d]
      BY <3>1, <1>t
    <3>3. call'[c].pc = "unindexOld" /\ call'[c].op = call[c].op
      BY <3>2, <1>t DEF CallRec
    <3>4. ~Consolidating(c)
      BY <1>22, <1>t DEF DeleteRowsSelect, Phase, Consolidating
    <3>. QED
      BY <3>2, <3>3, <3>4, <2>1 DEF Effect, Leaves, Phase, Consolidating
  <2>. QED
    BY <2>2, <2>3
<1>23. CASE GovernedUnindex(c)
  <2>1. SameRows
    BY <1>23 DEF GovernedUnindex, SameRows
  <2>2. PICK v \in call[c].rest, p \in {"removeRows", "unindexOld"} :
          call' = [call EXCEPT ![c] = [call[c] EXCEPT !.pc = p, !.rest = call[c].rest \ {v}]]
    BY <1>23, <1>t DEF GovernedUnindex
  <2>3. /\ call'[c] = [call[c] EXCEPT !.pc = p, !.rest = call[c].rest \ {v}]
        /\ \A d \in Conns \ {c} : call'[d] = call[d]
    BY <2>2, <1>t
  <2>4. call'[c].pc = p /\ call'[c].op = call[c].op
    BY <2>3, <1>t DEF CallRec
  <2>5. ~Consolidating(c)
    BY <1>23, <1>t DEF GovernedUnindex, Phase, Consolidating
  <2>. QED
    BY <2>1, <2>3, <2>4, <2>5 DEF Effect, Leaves, Phase, Consolidating
<1>24. CASE GovernedRemove(c)
  <2>1. CASE BindMatches(c)
    <3>1. /\ Live' = Live \ Found(c) /\ \A r \in Live' : memories'[r] = memories[r]
      BY <1>24, <2>1, <1>t, RestrictTyped DEF GovernedRemove
    <3>2. Live \ Live' = Found(c) \cap Live
      BY <3>1
    <3>3. ForgetRows
      BY <1>24, <2>1, <3>1, <3>2 DEF ForgetRows, GovernedRemove
    <3>. QED
      BY <1>24, <3>3, ReturnEffect DEF Effect, GovernedRemove
  <2>2. CASE ~BindMatches(c)
    BY <1>24, <2>2, ReturnEffect DEF Effect, SameRows, GovernedRemove
  <2>. QED
    BY <2>1, <2>2
<1>25. CASE Interrupt(c)
  BY <1>25, ReturnEffect DEF Effect, SameRows, Interrupt
<1>. QED
  BY <1>1, <1>2, <1>3, <1>4, <1>5, <1>6, <1>7, <1>8, <1>9, <1>10, <1>11, <1>12, <1>13,
     <1>14, <1>15, <1>16, <1>17, <1>18, <1>19, <1>20, <1>21, <1>22, <1>23, <1>24, <1>25 DEF Begin, Step

(***************************************************************************)
(* The invariant is kept.                                                  *)
(***************************************************************************)
LEMMA InFacts ==
  ASSUME NEW S, NEW f PROVE f \in FactsOf(S) <=> \E r \in S : f \in memories[r].facts
BY DEF FactsOf

LEMMA StepPhase == IndInv /\ [Next]_vars => PhaseInv'
<1>. SUFFICES ASSUME IndInv, [Next]_vars PROVE PhaseInv'
  OBVIOUS
<1>0. CASE UNCHANGED vars
  BY <1>0 DEF vars, IndInv, PhaseInv, Consolidating
<1>1. ASSUME NEW c \in Conns, Begin(c) \/ Step(c) \/ Interrupt(c) PROVE PhaseInv'
  <2>1. Effect(c) /\ Phase(call'[c])
    BY <1>1, StepEffect
  <2>2. \A d \in Conns : Phase(call'[d])
    BY <2>1, PhaseHere DEF Effect
  <2>3. \A r \in Live' : r < nextId'
    <3>1. nextId \in Nat /\ \A r \in Live : r \in Nat /\ r < nextId
      BY StoreAssumption DEF IndInv, TypeOK, PhaseInv, Ids
    <3>2. CASE SameRows \/ ForgetRows \/ DropRow(c)
      BY <3>1, <3>2 DEF SameRows, ForgetRows, DropRow
    <3>3. CASE NewRow(c)
      BY <3>1, <3>3 DEF NewRow
    <3>. QED
      BY <3>2, <3>3, <2>1 DEF Effect
  <2>. QED
    BY <2>2, <2>3 DEF Phase, PhaseInv, Consolidating
<1>. QED
  BY <1>0, <1>1 DEF Next

(* A fact of a deleted row is carried by a newer one: the row in rest that  *)
(* a consolidation deletes is older than its digest.                        *)
LEMMA DropCovered ==
  ASSUME IndInv, NEW c \in Conns, DropRow(c)
  PROVE  \E v \in Nat :
           /\ Live' = Live \ {v}
           /\ v \in Live => \A f \in memories[v].facts :
                f \in forgotten \/ \E r \in Live' : r > v /\ f \in memories[r].facts
<1>1. PICK v \in call[c].rest : Live' = Live \ {v}
  BY DEF DropRow
<1>2. Consolidating(c) /\ ~At(c, "insert")
  BY PhaseHere DEF DropRow, Phase, Consolidating
<1>3. ListCovers(c) /\ DigestCarries(c) /\ v < call[c].id
  BY <1>2 DEF IndInv, ConsolidationInv
<1>4. v \in Nat /\ call[c].id \in Nat /\ \A r \in Live : r \in Nat
  BY <1>1 DEF IndInv, TypeOK, CallRec, Ids
<1>5. ASSUME v \in Live, NEW f \in memories[v].facts
      PROVE  f \in forgotten \/ \E r \in Live' : r > v /\ f \in memories[r].facts
  <2>1. f \in call[c].facts
    BY <1>1, <1>3, <1>5 DEF ListCovers
  <2>2. CASE f \in forgotten
    BY <2>2
  <2>3. ASSUME NEW r \in Live, r >= call[c].id, f \in memories[r].facts
        PROVE  \E q \in Live' : q > v /\ f \in memories[q].facts
    <3>1. r > v /\ r # v
      BY <2>3, <1>3, <1>4
    <3>. QED
      BY <2>3, <3>1, <1>1
  <2>. QED
    BY <2>1, <2>2, <2>3, <1>3 DEF DigestCarries
<1>. QED
  BY <1>1, <1>4, <1>5

LEMMA StepVanish == IndInv /\ [Next]_vars => NothingVanishes'
<1>. SUFFICES ASSUME IndInv, [Next]_vars PROVE NothingVanishes'
  OBVIOUS
<1>0. CASE UNCHANGED vars
  BY <1>0 DEF vars, IndInv, NothingVanishes, Carried, FactsOf
<1>1. ASSUME NEW c \in Conns, Begin(c) \/ Step(c) \/ Interrupt(c) PROVE NothingVanishes'
  <2>1. Effect(c)
    BY <1>1, StepEffect
  <2>n. nextId \in Nat
    BY DEF IndInv, TypeOK
  <2>. SUFFICES ASSUME NEW f \in 1..(nextId' - 1), f \notin forgotten'
                PROVE  \E r \in Live' : f \in memories'[r].facts
    BY DEF NothingVanishes, Carried, FactsOf
  <2>2. ASSUME f \in 1..(nextId - 1), f \notin forgotten
        PROVE  \E r \in Live : f \in memories[r].facts
    BY <2>2, InFacts DEF IndInv, NothingVanishes, Carried
  <2>3. CASE SameRows
    BY <2>2, <2>3 DEF SameRows
  <2>4. CASE NewRow(c)
    <3>1. CASE f = nextId
      BY <2>4, <3>1 DEF NewRow
    <3>2. CASE f # nextId
      <4>1. f \in 1..(nextId - 1)
        BY <2>4, <3>2, <2>n DEF NewRow
      <4>. QED
        BY <4>1, <2>2, <2>4 DEF NewRow
    <3>. QED
      BY <3>1, <3>2
  <2>5. CASE ForgetRows
    <3>1. f \notin forgotten /\ f \notin FactsOf(Live \ Live')
      BY <2>5 DEF ForgetRows
    <3>2. PICK r \in Live : f \in memories[r].facts
      BY <3>1, <2>2, <2>5 DEF ForgetRows
    <3>3. r \in Live'
      BY <3>1, <3>2, InFacts
    <3>. QED
      BY <3>2, <3>3, <2>5 DEF ForgetRows
  <2>6. CASE DropRow(c)
    <3>1. PICK v \in Nat :
            /\ Live' = Live \ {v}
            /\ v \in Live => \A g \in memories[v].facts :
                 g \in forgotten \/ \E r \in Live' : r > v /\ g \in memories[r].facts
      BY <2>6, DropCovered
    <3>2. f \notin forgotten /\ f \in 1..(nextId - 1)
      BY <2>6 DEF DropRow
    <3>3. PICK r \in Live : f \in memories[r].facts
      BY <3>2, <2>2
    <3>4. PICK q \in Live' : f \in memories[q].facts
      BY <3>1, <3>2, <3>3
    <3>. QED
      BY <3>4, <2>6 DEF DropRow
  <2>. QED
    BY <2>1, <2>3, <2>4, <2>5, <2>6 DEF Effect
<1>. QED
  BY <1>0, <1>1 DEF Next

(* The facts a digest answers for stay carried by rows at least as new.     *)
LEMMA StaysCarried ==
  ASSUME IndInv, NEW c \in Conns, Effect(c), NEW n \in Nat, NEW F,
         \A f \in F : f \in forgotten \/ \E r \in Live : r >= n /\ f \in memories[r].facts
  PROVE  \A f \in F : f \in forgotten' \/ \E r \in Live' : r >= n /\ f \in memories'[r].facts
<1>. SUFFICES ASSUME NEW f \in F, f \notin forgotten'
              PROVE  \E r \in Live' : r >= n /\ f \in memories'[r].facts
  OBVIOUS
<1>1. f \notin forgotten
  BY DEF Effect, SameRows, NewRow, ForgetRows, DropRow
<1>2. PICK r \in Live : r >= n /\ f \in memories[r].facts
  BY <1>1
<1>3. CASE SameRows
  BY <1>2, <1>3 DEF SameRows
<1>4. CASE NewRow(c)
  BY <1>2, <1>4 DEF NewRow
<1>5. CASE ForgetRows
  <2>1. f \notin FactsOf(Live \ Live')
    BY <1>5 DEF ForgetRows
  <2>2. r \in Live'
    BY <2>1, <1>2, InFacts
  <2>. QED
    BY <2>2, <1>2, <1>5 DEF ForgetRows
<1>6. CASE DropRow(c)
  <2>1. PICK v \in Nat :
          /\ Live' = Live \ {v}
          /\ v \in Live => \A g \in memories[v].facts :
               g \in forgotten \/ \E q \in Live' : q > v /\ g \in memories[q].facts
    BY <1>6, DropCovered
  <2>n. \A q \in Live : q \in Nat
    BY DEF IndInv, TypeOK, Ids
  <2>2. CASE r = v
    <3>1. PICK q \in Live' : q > v /\ f \in memories[q].facts
      BY <2>1, <2>2, <1>1, <1>2
    <3>2. q >= n
      BY <3>1, <2>1, <2>2, <2>n, <1>2
    <3>. QED
      BY <3>1, <3>2, <1>6 DEF DropRow
  <2>3. CASE r # v
    BY <2>1, <2>3, <1>2, <1>6 DEF DropRow
  <2>. QED
    BY <2>2, <2>3
<1>. QED
  BY <1>3, <1>4, <1>5, <1>6 DEF Effect

(* A list that spoke for its rows still does, for those that are left.      *)
LEMMA StaysCovered ==
  ASSUME IndInv, NEW c \in Conns, Effect(c), NEW S, NEW F, \A r \in S : r < nextId,
         \A r \in S \cap Live : memories[r].facts \subseteq F
  PROVE  \A r \in S \cap Live' : memories'[r].facts \subseteq F
<1>1. nextId \in Nat
  BY DEF IndInv, TypeOK
<1>2. nextId \notin S
  BY <1>1
<1>. QED
  BY <1>2 DEF Effect, SameRows, NewRow, ForgetRows, DropRow

LEMMA StepCons == IndInv /\ [Next]_vars => ConsolidationInv'
<1>. SUFFICES ASSUME IndInv, [Next]_vars PROVE ConsolidationInv'
  OBVIOUS
<1>0. CASE UNCHANGED vars
  BY <1>0 DEF vars, IndInv, ConsolidationInv, Consolidating, ListCovers, DigestCarries
<1>1. ASSUME NEW c \in Conns, Begin(c) \/ Step(c) \/ Interrupt(c) PROVE ConsolidationInv'
  <2>e. Effect(c)
    BY <1>1, StepEffect
  <2>n. /\ nextId \in Nat /\ nextId' \in Nat /\ nextId <= nextId'
        /\ \A r \in Live : r \in Nat /\ r < nextId
        /\ \A d \in Conns : call[d].id \in Nat /\ call[d].rest \subseteq Nat
    BY <2>e DEF IndInv, TypeOK, PhaseInv, CallRec, Ids, Effect, SameRows, NewRow, ForgetRows,
                DropRow
  <2>1. ASSUME NEW d \in Conns \ {c}, Consolidating(d)'
        PROVE  /\ ListCovers(d)' /\ \A r \in call'[d].rest : r < nextId'
               /\ ~At(d, "insert")' => DigestCarries(d)' /\ \A r \in call'[d].rest : r < call'[d].id
    <3>1. call'[d] = call[d] /\ Consolidating(d)
      BY <2>1, <2>e DEF Effect, Consolidating
    <3>2. /\ ListCovers(d) /\ \A r \in call[d].rest : r < nextId
          /\ ~At(d, "insert") => DigestCarries(d) /\ \A r \in call[d].rest : r < call[d].id
      BY <3>1 DEF IndInv, ConsolidationInv
    <3>3. ListCovers(d)'
      BY <3>1, <3>2, <2>e, StaysCovered DEF ListCovers
    <3>4. ~At(d, "insert") => DigestCarries(d)'
      BY <3>1, <3>2, <2>e, <2>n, StaysCarried DEF DigestCarries
    <3>5. \A r \in call[d].rest : r < nextId'
      BY <3>2, <2>n
    <3>. QED
      BY <3>1, <3>2, <3>3, <3>4, <3>5
  <2>2. ASSUME Consolidating(c)'
        PROVE  /\ ListCovers(c)' /\ \A r \in call'[c].rest : r < nextId'
               /\ ~At(c, "insert")' => DigestCarries(c)' /\ \A r \in call'[c].rest : r < call'[c].id
    <3>1. CASE Lists(c)
      <4>1. ListCovers(c)'
        BY <3>1, InFacts DEF Lists, ListCovers, SameRows
      <4>. QED
        BY <4>1, <3>1, <2>n DEF Lists
    <3>2. CASE Digests(c)
      <4>1. ListCovers(c) /\ \A r \in call[c].rest : r < nextId
        BY <3>2 DEF Digests, IndInv, ConsolidationInv
      <4>2. ListCovers(c)'
        BY <3>2, <4>1, <2>e, StaysCovered DEF Digests, ListCovers
      <4>3. DigestCarries(c)'
        BY <3>2, <2>n DEF Digests, NewRow, DigestCarries
      <4>4. \A r \in call'[c].rest : r < nextId' /\ r < call'[c].id
        BY <3>2, <4>1, <2>n DEF Digests, NewRow
      <4>. QED
        BY <4>2, <4>3, <4>4
    <3>3. CASE Proceeds(c)
      <4>1. /\ ListCovers(c) /\ \A r \in call[c].rest : r < nextId
            /\ DigestCarries(c) /\ \A r \in call[c].rest : r < call[c].id
        BY <3>3 DEF Proceeds, IndInv, ConsolidationInv
      <4>2. \A r \in call[c].rest \cap Live' : memories'[r].facts \subseteq call[c].facts
        BY <4>1, <2>e, StaysCovered DEF ListCovers
      <4>3. ListCovers(c)'
        BY <4>2, <3>3 DEF Proceeds, ListCovers
      <4>4. \A f \in call[c].facts : f \in forgotten'
              \/ \E r \in Live' : r >= call[c].id /\ f \in memories'[r].facts
        BY <4>1, <2>e, <2>n, StaysCarried DEF DigestCarries
      <4>5. DigestCarries(c)'
        BY <4>4, <3>3 DEF Proceeds, DigestCarries
      <4>6. \A r \in call'[c].rest : r < nextId' /\ r < call'[c].id
        BY <4>1, <3>3, <2>n DEF Proceeds
      <4>. QED
        BY <4>3, <4>5, <4>6
    <3>. QED
      BY <3>1, <3>2, <3>3, <2>2, <2>e DEF Effect, Leaves
  <2>. QED
    BY <2>1, <2>2 DEF ConsolidationInv
<1>. QED
  BY <1>0, <1>1 DEF Next

LEMMA InitInv == Init => IndInv
<1>. SUFFICES ASSUME Init PROVE IndInv
  OBVIOUS
<1>1. Live = {} /\ memories \in [Live -> Rows]
  BY DEF Init
<1>2. call \in [Conns -> CallRec] /\ \A c \in Conns : call[c] = Idle
  BY IdleTyped DEF Init
<1>3. TypeOK
  BY <1>1, <1>2, StoreAssumption DEF Init, TypeOK
<1>4. PhaseInv
  BY <1>1, <1>2, IdleFields DEF PhaseInv, Phase, Consolidating
<1>5. ConsolidationInv
  BY <1>2, IdleFields DEF ConsolidationInv, Consolidating
<1>6. NothingVanishes
  BY DEF Init, NothingVanishes
<1>. QED
  BY <1>3, <1>4, <1>5, <1>6 DEF IndInv

(* The inductive invariant holds in every reachable state of the store.     *)
THEOREM Invariance == Spec => []IndInv
<1>1. IndInv /\ [Next]_vars => IndInv'
  BY StepType, StepPhase, StepCons, StepVanish DEF IndInv
<1>. QED
  BY <1>1, InitInv, PTL DEF Spec

(* Tables and calls keep their types: whatever the compressor answers and   *)
(* wherever an operation stops, a row always has a text.                    *)
THEOREM TypeCorrect == Spec => []TypeOK
BY Invariance, PTL DEF IndInv

(* Nothing silently vanishes, for any number of connections consolidating   *)
(* at once: what was saved and not removed on request is in the store or    *)
(* spoken for by a digest that is.                                          *)
THEOREM NoVanishing == Spec => []NothingVanishes
BY Invariance, PTL DEF IndInv

(***************************************************************************)
(* The text a row was saved with is never lost to a compression, as long   *)
(* as no two compression sweeps overlap.                                   *)
(***************************************************************************)
OneSweep ==
  \A c, d \in Conns : call[c].op = "compress" /\ call[d].op = "compress" => c = d

(* A row whose text was rewritten has its first text set aside.             *)
RowKept(x) == x.full \in {NoText, Original} /\ (x.body # Original => x.full = Original)

(* What a sweep with call record k relies on: the row it found without an   *)
(* original still has none, the row it is about to rewrite has one.         *)
SweepKept(k, n, m) ==
  /\ k.pc \in {"llm", "keep", "read", "write"} => k.op = "compress"
  /\ k.pc \in {"keep", "read", "write"} => k.id < n
  /\ (k.pc = "keep" /\ k.id \in DOMAIN m) => m[k.id].full = NoText
  /\ (k.pc \in {"read", "write"} /\ k.id \in DOMAIN m) => m[k.id].full = Original

OriginalInv ==
  /\ \A r \in Live : RowKept(memories[r])
  /\ \A c \in Conns : SweepKept(call[c], nextId, memories)

(* Statements that leave the texts of the rows alone.                       *)
QuietTexts ==
  /\ nextId' \in Nat /\ nextId' >= nextId
  /\ \A r \in Live' :
       \/ r \in Live /\ memories'[r].body = memories[r].body
                     /\ memories'[r].full = memories[r].full
       \/ r = nextId /\ memories'[r].body = Original /\ memories'[r].full = NoText

LEMMA InsertQuiet ==
  ASSUME IndInv, NEW c, NEW op, NEW kind, NEW F, NEW S, InsertRow(c, op, kind, F, S)
  PROVE  QuietTexts
<1>1. nextId \in Nat
  BY DEF IndInv, TypeOK
<1>2. memories'[nextId].body = Original /\ memories'[nextId].full = NoText
  BY DEF InsertRow
<1>3. \A r \in Live' : r # nextId => r \in Live /\ memories'[r] = memories[r]
  BY DEF InsertRow
<1>. QED
  BY <1>1, <1>2, <1>3 DEF QuietTexts, InsertRow

(* Assigning compressed changes neither text.                               *)
LEMMA TagQuiet ==
  ASSUME IndInv, NEW i, NEW b,
         memories' = [r \in Live |-> IF r = i THEN [memories[r] EXCEPT !.compressed = b]
                                              ELSE memories[r]],
         nextId' = nextId
  PROVE  QuietTexts
<1>1. nextId \in Nat
  BY DEF IndInv, TypeOK
<1>2. ASSUME NEW r \in Live
      PROVE  memories'[r].body = memories[r].body /\ memories'[r].full = memories[r].full
  <2>1. memories[r] \in Rows
    BY DEF IndInv, TypeOK
  <2>2. PICK x \in Rows : x = memories[r]
    BY <2>1
  <2>3. memories'[r] = x \/ memories'[r] = [x EXCEPT !.compressed = b]
    BY <2>2
  <2>. QED
    BY <2>2, <2>3 DEF Rows
<1>. QED
  BY <1>1, <1>2 DEF QuietTexts

LEMMA SameQuiet ==
  ASSUME IndInv, nextId' = nextId, NEW S, memories' = memories \/ memories' = Restrict(memories, Live \ S)
  PROVE  QuietTexts
<1>1. nextId \in Nat
  BY DEF IndInv, TypeOK
<1>. QED
  BY <1>1 DEF QuietTexts, Restrict

LEMMA QuietSteps ==
  ASSUME IndInv, NEW c \in Conns, Begin(c) \/ Step(c) \/ Interrupt(c),
         ~KeepOriginal(c), ~SetBodyWrite(c)
  PROVE  QuietTexts
<1>1. CASE Save(c) \/ InsertBlock(c) \/ SaveDigest(c)
  BY <1>1, InsertQuiet DEF Save, InsertBlock, SaveDigest
<1>2. CASE TagDigest(c)
  BY <1>2, TagQuiet DEF TagDigest
<1>3. CASE TagCompressed(c)
  BY <1>3, TagQuiet DEF TagCompressed
<1>4. CASE CompressSkip(c)
  <2>1. PICK v \in call[c].rest, tag \in BOOLEAN :
          memories' = [r \in Live |-> IF r = v /\ tag
                                      THEN [memories[r] EXCEPT !.compressed = TRUE]
                                      ELSE memories[r]]
    BY <1>4 DEF CompressSkip
  <2>2. CASE tag
    <3>1. nextId' = nextId
      BY <1>4 DEF CompressSkip
    <3>2. memories' = [r \in Live |-> IF r = v THEN [memories[r] EXCEPT !.compressed = TRUE]
                                              ELSE memories[r]]
      BY <2>1, <2>2
    <3>. QED
      BY <3>1, <3>2, TagQuiet
  <2>3. CASE ~tag
    <3>1. \A r \in Live : memories'[r] = memories[r]
      BY <2>1, <2>3
    <3>2. Live' = Live /\ nextId' = nextId /\ nextId \in Nat
      BY <2>1, <1>4 DEF CompressSkip, IndInv, TypeOK
    <3>. QED
      BY <3>1, <3>2 DEF QuietTexts
  <2>. QED
    BY <2>2, <2>3
<1>5. CASE SetBlock(c)
  BY <1>5, SameQuiet DEF SetBlock
<1>6. CASE DeleteRemove(c)
  BY <1>6, SameQuiet DEF DeleteRemove
<1>7. CASE GovernedRemove(c)
  BY <1>7, SameQuiet DEF GovernedRemove
<1>8. CASE \/ ArchiveOverflow(c) \/ CompressProject(c) \/ CompressSweep(c) \/ DeleteRow(c)
           \/ DeleteRows(c) \/ IndexRow(c) \/ DeleteUnindex(c) \/ CompressRead(c)
           \/ SetBodyRead(c) \/ SetBodyUnindex(c) \/ SetBodyIndex(c) \/ DeleteRowsSelect(c)
           \/ GovernedUnindex(c) \/ Interrupt(c)
  <2>1. memories' = memories /\ nextId' = nextId
    BY <1>8 DEF ArchiveOverflow, CompressProject, Consolidate, CompressSweep, DeleteRow, DeleteRows,
                IndexRow, DeleteUnindex, CompressRead, SetBodyRead, SetBodyUnindex, SetBodyIndex,
                DeleteRowsSelect, GovernedUnindex, Interrupt
  <2>. QED
    BY <2>1, SameQuiet
<1>. QED
  BY <1>1, <1>2, <1>3, <1>4, <1>5, <1>6, <1>7, <1>8 DEF Begin, Step

(* Nothing a sweep relies on is disturbed by such a statement.              *)
LEMMA SweepStays ==
  ASSUME IndInv, QuietTexts, NEW k \in CallRec, SweepKept(k, nextId, memories)
  PROVE  SweepKept(k, nextId', memories')
<1>1. nextId \in Nat /\ nextId' \in Nat /\ nextId' >= nextId /\ k.id \in Nat
  BY DEF IndInv, TypeOK, QuietTexts, CallRec
<1>. QED
  BY <1>1 DEF QuietTexts, SweepKept

(* A sweep between two rows, and any other operation, relies on nothing.    *)
Fresh(k) == k.pc \in {"llm", "keep", "read", "write"} => k.op = "compress" /\ k.pc = "llm"

LEMMA FreshKept == ASSUME NEW k, Fresh(k), NEW n, NEW m PROVE SweepKept(k, n, m)
BY DEF Fresh, SweepKept

LEMMA NextRowFresh ==
  ASSUME IndInv, NEW c \in Conns, NEW v, NextRow(c, v)
  PROVE  Fresh(call'[c])
<1>1. call \in [Conns -> CallRec]
  BY DEF IndInv, TypeOK
<1>2. CASE Return(c)
  <2>1. call'[c] = Idle
    BY <1>2, ReturnEffect
  <2>. QED
    BY <2>1, IdleFields DEF Fresh
<1>3. CASE call' = [call EXCEPT ![c] = [Idle EXCEPT !.op = "compress", !.pc = "llm",
                                                    !.rest = call[c].rest \ {v}]]
  BY <1>1, <1>3, IdleFields DEF Fresh
<1>. QED
  BY <1>2, <1>3 DEF NextRow

(* Most statements end between two rows or outside a sweep.                 *)
LEMMA FreshSteps ==
  ASSUME IndInv, NEW c \in Conns, Begin(c) \/ Step(c) \/ Interrupt(c)
  PROVE  \/ Fresh(call'[c])
         \/ CompressRead(c) /\ \E v \in Live, new \in Rewrites :
              call' = [call EXCEPT ![c] = [call[c] EXCEPT !.id = v, !.new = new,
                          !.pc = IF memories[v].full = NoText THEN "keep" ELSE "read"]]
         \/ KeepOriginal(c)
         \/ SetBodyRead(c) /\ call[c].id \in Live
<1>t. call \in [Conns -> CallRec] /\ call[c] \in CallRec
  BY DEF IndInv, TypeOK
<1>1. CASE Save(c) \/ InsertBlock(c) \/ SaveDigest(c)
  <2>1. call'[c].pc = "index"
    BY <1>1, InsertEffect DEF Save, InsertBlock, SaveDigest
  <2>. QED
    BY <2>1 DEF Fresh
<1>2. CASE SetBlock(c)
  BY <1>2, <1>t, IdleFields DEF SetBlock, Fresh
<1>3. CASE ArchiveOverflow(c) \/ CompressProject(c)
  <2>1. PICK o, F, S : call' = [call EXCEPT ![c] = [Idle EXCEPT !.op = o, !.pc = "insert",
                                                               !.facts = F, !.rest = S]]
    BY <1>3 DEF ArchiveOverflow, CompressProject, Consolidate
  <2>2. call'[c].pc = "insert"
    BY <2>1, <1>t DEF Idle
  <2>. QED
    BY <2>2 DEF Fresh
<1>4. CASE CompressSweep(c)
  <2>1. PICK S : call' = [call EXCEPT ![c] = [Idle EXCEPT !.op = "compress", !.pc = "llm",
                                                          !.rest = S]]
    BY <1>4 DEF CompressSweep
  <2>. QED
    BY <2>1, <1>t, IdleFields DEF Fresh
<1>5. CASE DeleteRow(c)
  <2>1. PICK f, S : call' = [call EXCEPT ![c] = [Idle EXCEPT !.op = "delete_row",
                      !.pc = "unindexOld", !.old = f, !.rest = S, !.want = 1]]
    BY <1>5 DEF DeleteRow
  <2>2. call'[c].pc = "unindexOld"
    BY <2>1, <1>t DEF Idle
  <2>. QED
    BY <2>2 DEF Fresh
<1>6. CASE DeleteRows(c)
  <2>1. PICK S, n : call' = [call EXCEPT ![c] = [Idle EXCEPT !.op = "delete_rows",
                      !.pc = "select", !.rest = S, !.want = n]]
    BY <1>6 DEF DeleteRows
  <2>2. call'[c].pc = "select"
    BY <2>1, <1>t DEF Idle
  <2>. QED
    BY <2>2 DEF Fresh
<1>7. CASE Return(c)
  <2>1. call'[c] = Idle
    BY <1>7, ReturnEffect
  <2>. QED
    BY <2>1, IdleFields DEF Fresh
<1>8. ASSUME NEW p \in {"tag", "unindex", "remove", "unindexOld", "indexNew", "tagRow"}, Goto(c, p)
      PROVE  Fresh(call'[c])
  BY <1>8, MoveEffect DEF Fresh
<1>9. CASE IndexRow(c)
  BY <1>9, <1>7, <1>8 DEF IndexRow
<1>10. CASE \/ TagDigest(c) \/ DeleteUnindex(c) \/ SetBodyWrite(c) \/ SetBodyUnindex(c)
            \/ SetBodyIndex(c)
  BY <1>10, <1>8 DEF TagDigest, DeleteUnindex, SetBodyWrite, SetBodyUnindex, SetBodyIndex
<1>11. CASE DeleteRemove(c)
  <2>1. \/ Return(c)
        \/ \E S : call' = [call EXCEPT ![c] = [call[c] EXCEPT !.pc = "unindex", !.rest = S]]
    BY <1>11, <1>t DEF DeleteRemove, CallRec
  <2>2. ASSUME NEW S, call' = [call EXCEPT ![c] = [call[c] EXCEPT !.pc = "unindex", !.rest = S]]
        PROVE  Fresh(call'[c])
    <3>1. call'[c].pc = "unindex"
      BY <2>2, <1>t DEF CallRec
    <3>. QED
      BY <3>1 DEF Fresh
  <2>. QED
    BY <2>1, <2>2, <1>7
<1>12. CASE CompressRead(c)
  BY <1>12, <1>t, NextRowFresh DEF CompressRead
<1>13. CASE CompressSkip(c) \/ TagCompressed(c)
  BY <1>13, NextRowFresh DEF CompressSkip, TagCompressed
<1>14. CASE SetBodyRead(c)
  BY <1>14, NextRowFresh DEF SetBodyRead
<1>15. CASE DeleteRowsSelect(c)
  <2>1. \/ Return(c)
        \/ \E S, f : call' = [call EXCEPT ![c] = [call[c] EXCEPT !.pc = "unindexOld",
                                                                 !.rest = S, !.old = f]]
    BY <1>15 DEF DeleteRowsSelect
  <2>2. ASSUME NEW S, NEW f, call' = [call EXCEPT ![c] = [call[c] EXCEPT !.pc = "unindexOld",
                                                                 !.rest = S, !.old = f]]
        PROVE  Fresh(call'[c])
    <3>1. call'[c].pc = "unindexOld"
      BY <2>2, <1>t DEF CallRec
    <3>. QED
      BY <3>1 DEF Fresh
  <2>. QED
    BY <2>1, <2>2, <1>7
<1>16. CASE GovernedUnindex(c)
  <2>1. PICK p \in {"removeRows", "unindexOld"} :
          \E S : call' = [call EXCEPT ![c] = [call[c] EXCEPT !.pc = p, !.rest = S]]
    BY <1>16 DEF GovernedUnindex
  <2>2. call'[c].pc = p
    BY <2>1, <1>t DEF CallRec
  <2>. QED
    BY <2>2 DEF Fresh
<1>17. CASE GovernedRemove(c) \/ Interrupt(c)
  BY <1>17, <1>7 DEF GovernedRemove, Interrupt
<1>. QED
  BY <1>1, <1>2, <1>3, <1>4, <1>5, <1>6, <1>9, <1>10, <1>11, <1>12, <1>13, <1>14, <1>15,
     <1>16, <1>17 DEF Begin, Step

LEMMA StepOriginal ==
  IndInv /\ OriginalInv /\ OneSweep /\ [Next]_vars => OriginalInv'
<1>. SUFFICES ASSUME IndInv, OriginalInv, OneSweep, [Next]_vars PROVE OriginalInv'
  OBVIOUS
<1>n. NoText # Original /\ nextId \in Nat
  BY StoreAssumption DEF Texts, IndInv, TypeOK
<1>0. CASE UNCHANGED vars
  BY <1>0 DEF vars, OriginalInv
<1>1. ASSUME NEW c \in Conns, Begin(c) \/ Step(c) \/ Interrupt(c) PROVE OriginalInv'
  <2>t. /\ call \in [Conns -> CallRec] /\ memories \in [Live -> Rows]
        /\ \A d \in Conns : call[d] \in CallRec
    BY DEF IndInv, TypeOK
  <2>e. \A d \in Conns \ {c} : call'[d] = call[d]
    BY <1>1, StepEffect DEF Effect
  <2>k. \A d \in Conns : SweepKept(call[d], nextId, memories)
    BY DEF OriginalInv
  <2>1. CASE KeepOriginal(c)
    <3>1. PICK i : i = call[c].id
      OBVIOUS
    <3>2. /\ call[c].pc = "keep" /\ call[c].op = "compress" /\ i < nextId
          /\ i \in Live => memories[i].full = NoText
      BY <2>1, <2>k, <3>1 DEF KeepOriginal, SweepKept
    <3>3. Live' = Live /\ nextId' = nextId /\ \A r \in Live : r # i => memories'[r] = memories[r]
      BY <2>1, <3>1 DEF KeepOriginal
    <3>4. i \in Live => memories'[i].full = Original /\ memories'[i].body = Original
      <4>. SUFFICES ASSUME i \in Live PROVE memories'[i].full = Original /\ memories'[i].body = Original
        OBVIOUS
      <4>1. PICK x \in Rows : x = memories[i]
        BY <2>t
      <4>2. x.body = Original
        BY <4>1, <3>2, <1>n DEF OriginalInv, RowKept
      <4>3. memories'[i] = [x EXCEPT !.full = x.body]
        BY <2>1, <3>1, <4>1 DEF KeepOriginal
      <4>. QED
        BY <4>2, <4>3 DEF Rows
    <3>5. \A r \in Live' : RowKept(memories'[r])
      BY <3>3, <3>4 DEF OriginalInv, RowKept
    <3>6. call'[c].pc = "read" /\ call'[c].id = i /\ call'[c].op = "compress"
      BY <2>1, <3>1, <3>2, MoveEffect DEF KeepOriginal
    <3>7. SweepKept(call'[c], nextId', memories')
      BY <3>2, <3>3, <3>4, <3>6 DEF SweepKept
    <3>8. ASSUME NEW d \in Conns \ {c} PROVE SweepKept(call'[d], nextId', memories')
      <4>1. call[d].op # "compress"
        BY <3>2 DEF OneSweep
      <4>2. Fresh(call[d])
        BY <4>1, <2>k DEF Fresh, SweepKept
      <4>. QED
        BY <4>2, <2>e, FreshKept
    <3>. QED
      BY <3>5, <3>7, <3>8 DEF OriginalInv
  <2>2. CASE SetBodyWrite(c)
    <3>1. PICK i : i = call[c].id
      OBVIOUS
    <3>2. /\ call[c].pc = "write" /\ call[c].op = "compress"
          /\ i \in Live => memories[i].full = Original
      BY <2>2, <2>k, <3>1 DEF SetBodyWrite, SweepKept
    <3>3. Live' = Live /\ nextId' = nextId /\ \A r \in Live : r # i => memories'[r] = memories[r]
      BY <2>2, <3>1 DEF SetBodyWrite
    <3>4. i \in Live => memories'[i].full = Original
      <4>. SUFFICES ASSUME i \in Live PROVE memories'[i].full = Original
        OBVIOUS
      <4>1. PICK x \in Rows : x = memories[i]
        BY <2>t
      <4>2. memories'[i] = [x EXCEPT !.body = call[c].new]
        BY <2>2, <3>1, <4>1 DEF SetBodyWrite
      <4>. QED
        BY <4>1, <4>2, <3>2 DEF Rows
    <3>5. \A r \in Live' : RowKept(memories'[r])
      BY <3>3, <3>4 DEF OriginalInv, RowKept
    <3>6. Fresh(call'[c])
      BY <2>2, MoveEffect DEF SetBodyWrite, Fresh
    <3>8. ASSUME NEW d \in Conns \ {c} PROVE Fresh(call'[d])
      <4>1. call[d].op # "compress"
        BY <3>2 DEF OneSweep
      <4>. QED
        BY <4>1, <2>k, <2>e DEF Fresh, SweepKept
    <3>. QED
      BY <3>5, <3>6, <3>8, FreshKept DEF OriginalInv
  <2>3. CASE ~KeepOriginal(c) /\ ~SetBodyWrite(c)
    <3>1. QuietTexts
      BY <1>1, <2>3, QuietSteps
    <3>2. \A r \in Live' : RowKept(memories'[r])
      BY <3>1 DEF QuietTexts, OriginalInv, RowKept
    <3>3. \A d \in Conns \ {c} : SweepKept(call'[d], nextId', memories')
      BY <3>1, <2>e, <2>t, <2>k, SweepStays
    <3>4. SweepKept(call'[c], nextId', memories')
      <4>1. CASE Fresh(call'[c])
        BY <4>1, FreshKept
      <4>2. ASSUME CompressRead(c), NEW v \in Live, NEW new \in Rewrites,
                   call' = [call EXCEPT ![c] = [call[c] EXCEPT !.id = v, !.new = new,
                          !.pc = IF memories[v].full = NoText THEN "keep" ELSE "read"]]
            PROVE  SweepKept(call'[c], nextId', memories')
        <5>1. PICK k \in CallRec : k = call[c]
          BY <2>t
        <5>2. PICK p \in {"keep", "read"} : p = IF memories[v].full = NoText THEN "keep" ELSE "read"
          OBVIOUS
        <5>3. call'[c] = [k EXCEPT !.id = v, !.new = new, !.pc = p]
          BY <4>2, <5>1, <5>2, <2>t
        <5>4. call'[c].id = v /\ call'[c].pc = p /\ call'[c].op = k.op
          BY <5>3 DEF CallRec
        <5>5. k.op = "compress"
          BY <4>2, <5>1, <2>k DEF CompressRead, SweepKept
        <5>6. memories' = memories /\ nextId' = nextId
          BY <4>2 DEF CompressRead
        <5>7. v < nextId
          BY DEF IndInv, PhaseInv
        <5>8. (p = "keep" => memories[v].full = NoText) /\ (p = "read" => memories[v].full = Original)
          BY <5>2 DEF OriginalInv, RowKept
        <5>. QED
          BY <5>4, <5>5, <5>6, <5>7, <5>8 DEF SweepKept
      <4>3. CASE SetBodyRead(c) /\ call[c].id \in Live
        <5>1. PICK k \in CallRec : k = call[c]
          BY <2>t
        <5>2. PICK f : call' = [call EXCEPT ![c] = [k EXCEPT !.pc = "write", !.old = f]]
          BY <4>3, <5>1, <2>t DEF SetBodyRead, CallRec
        <5>3. call'[c] = [k EXCEPT !.pc = "write", !.old = f]
          BY <5>2, <2>t
        <5>4. call'[c].id = k.id /\ call'[c].pc = "write" /\ call'[c].op = k.op
          BY <5>3 DEF CallRec
        <5>5. k.op = "compress" /\ k.pc = "read" /\ k.id < nextId /\ memories[k.id].full = Original
          BY <4>3, <5>1, <2>k DEF SetBodyRead, SweepKept
        <5>6. memories' = memories /\ nextId' = nextId
          BY <4>3 DEF SetBodyRead
        <5>. QED
          BY <5>4, <5>5, <5>6 DEF SweepKept
      <4>. QED
        BY <4>1, <4>2, <4>3, <1>1, <2>3, FreshSteps
    <3>. QED
      BY <3>2, <3>3, <3>4 DEF OriginalInv
  <2>. QED
    BY <2>1, <2>2, <2>3
<1>. QED
  BY <1>0, <1>1 DEF Next

LEMMA InitOriginal == Init => OriginalInv
<1>. SUFFICES ASSUME Init PROVE OriginalInv
  OBVIOUS
<1>1. Live = {}
  BY DEF Init
<1>2. \A c \in Conns : Fresh(call[c])
  BY IdleFields DEF Init, Fresh
<1>. QED
  BY <1>1, <1>2, FreshKept DEF OriginalInv

(* body_full is only ever the text a row was saved with, whatever other     *)
(* connections save, delete and consolidate meanwhile and wherever a sweep  *)
(* is cut short, provided that no two compression sweeps overlap.           *)
THEOREM OriginalSurvives == Spec /\ []OneSweep => []OriginalKept
<1>1. OriginalInv => OriginalKept
  BY DEF OriginalInv, RowKept, OriginalKept
<1>. QED
  BY <1>1, StepOriginal, InitOriginal, Invariance, PTL DEF Spec

(***************************************************************************)
(* The full-text index follows the table, when operations do not overlap,  *)
(* none is cut short, no block is replaced and no id is named twice.       *)
(***************************************************************************)
OneAtATime == \A c, d \in Conns : ~At(c, "idle") /\ ~At(d, "idle") => c = d

(* The rows with no entry while an operation with record k is in progress,  *)
(* and the row whose entry is still the one of its previous text.           *)
Hidden(k, i) ==
  \/ k.pc \in {"index", "indexNew"} /\ i = k.id
  \/ k.pc = "remove" /\ i \in k.rest /\ \A w \in k.rest : i <= w
  \/ k.pc \in {"unindexOld", "removeRows"} /\ k.op # "compress" /\ i \in DOMAIN k.old \ k.rest

Swapped(k, i) == k.pc = "unindexOld" /\ k.op = "compress" /\ i = k.id

Plain(m, i) == IF i \in DOMAIN m THEN m[i].body ELSE NoText

(* The text the index has for row i, with rows m.                           *)
Shown(k, m, i) ==
  IF i \notin DOMAIN m \/ Hidden(k, i) THEN NoText
  ELSE IF Swapped(k, i) THEN k.old[i] ELSE m[i].body

ExactFor(k, m, g) ==
  \A i \in Ids, t \in Texts : g[i][t] = IF Shown(k, m, i) = t THEN 1 ELSE 0

(* What an operation relies on between two of its statements.               *)
Poised(k, m) ==
  /\ k.pc = "index" => k.id \in DOMAIN m /\ m[k.id].body = Original
  /\ k.pc = "insert" => k.op # "set_block"
  /\ k.pc \in {"llm", "keep", "read", "write", "indexNew", "tagRow"} => k.op = "compress"
  /\ k.pc \in {"keep", "read", "write", "indexNew"} => k.id \in DOMAIN m
  /\ k.pc = "write" => k.id \in DOMAIN k.old /\ k.old[k.id] = m[k.id].body
  /\ (k.pc = "unindexOld" /\ k.op = "compress") =>
       k.id \in DOMAIN m /\ m[k.id].body = k.new /\ k.old[k.id] \in Texts
  /\ k.pc = "indexNew" => m[k.id].body = k.new
  /\ k.pc = "select" => k.op # "compress" /\ k.rest \subseteq DOMAIN m
                        /\ k.want = Cardinality(k.rest)
  /\ (k.pc \in {"unindexOld", "removeRows"} /\ k.op # "compress") =>
       /\ k.rest \subseteq DOMAIN k.old /\ DOMAIN k.old \subseteq DOMAIN m
       /\ \A i \in DOMAIN k.old : k.old[i] = m[i].body
       /\ k.want = Cardinality(DOMAIN k.old)
  /\ k.pc = "removeRows" => k.op # "compress" /\ k.rest = {}

Settled(c) == ExactFor(call[c], memories, fts) /\ Poised(call[c], memories)

IndexInv ==
  faults = 0 =>
    /\ AtRest => ExactFor(Idle, memories, fts)
    /\ \A c \in Conns : ~At(c, "idle") => Settled(c)

PlainPcs == {"idle", "insert", "tag", "unindex", "llm", "keep", "read", "write", "tagRow", "select"}

LEMMA PlainShown ==
  ASSUME NEW k, k.pc \in PlainPcs, NEW m, NEW i PROVE Shown(k, m, i) = Plain(m, i)
BY DEF PlainPcs, Shown, Plain, Hidden, Swapped

(* One entry more, one entry less.                                          *)
LEMMA FtsMoves ==
  ASSUME IndInv, NEW i \in Ids, NEW t \in Texts
  PROVE  /\ FtsAdd(i, t) => /\ fts'[i][t] = fts[i][t] + 1
                            /\ \A j \in Ids, u \in Texts : (j # i \/ u # t) => fts'[j][u] = fts[j][u]
         /\ FtsDelete(i, t) => /\ fts'[i][t] = fts[i][t] - 1
                               /\ \A j \in Ids, u \in Texts :
                                    (j # i \/ u # t) => fts'[j][u] = fts[j][u]
<1>1. fts \in [Ids -> [Texts -> Int]]
  BY DEF IndInv, TypeOK
<1>2. PICK h \in [Texts -> Int] : h = fts[i]
  BY <1>1
<1>3. ASSUME FtsAdd(i, t)
      PROVE  /\ fts'[i][t] = fts[i][t] + 1
             /\ \A j \in Ids, u \in Texts : (j # i \/ u # t) => fts'[j][u] = fts[j][u]
  <2>1. fts' = [fts EXCEPT ![i] = [h EXCEPT ![t] = h[t] + 1]]
    BY <1>2, <1>3 DEF FtsAdd
  <2>2. fts'[i] = [h EXCEPT ![t] = h[t] + 1] /\ \A j \in Ids : j # i => fts'[j] = fts[j]
    BY <1>1, <2>1
  <2>. QED
    BY <1>2, <2>2
<1>4. ASSUME FtsDelete(i, t)
      PROVE  /\ fts'[i][t] = fts[i][t] - 1
             /\ \A j \in Ids, u \in Texts : (j # i \/ u # t) => fts'[j][u] = fts[j][u]
  <2>1. fts' = [fts EXCEPT ![i] = [h EXCEPT ![t] = h[t] - 1]]
    BY <1>2, <1>4 DEF FtsDelete
  <2>2. fts'[i] = [h EXCEPT ![t] = h[t] - 1] /\ \A j \in Ids : j # i => fts'[j] = fts[j]
    BY <1>1, <2>1
  <2>. QED
    BY <1>2, <2>2
<1>. QED
  BY <1>3, <1>4

LEMMA AddShows ==
  ASSUME IndInv, NEW k, NEW m, NEW k2, NEW m2, NEW i \in Ids, NEW t \in Texts,
         ExactFor(k, m, fts), FtsAdd(i, t),
         Shown(k, m, i) = NoText, Shown(k2, m2, i) = t,
         \A j \in Ids : j # i => Shown(k2, m2, j) = Shown(k, m, j)
  PROVE  ExactFor(k2, m2, fts')
<1>1. t # NoText
  BY StoreAssumption
<1>2. fts[i][t] = 0 /\ \A u \in Texts : fts[i][u] = 0
  BY StoreAssumption DEF ExactFor
<1>. QED
  BY <1>1, <1>2, FtsMoves DEF ExactFor

LEMMA DeleteHides ==
  ASSUME IndInv, NEW k, NEW m, NEW k2, NEW m2, NEW i \in Ids, NEW t \in Texts,
         ExactFor(k, m, fts), FtsDelete(i, t),
         Shown(k, m, i) = t, Shown(k2, m2, i) = NoText,
         \A j \in Ids : j # i => Shown(k2, m2, j) = Shown(k, m, j)
  PROVE  ExactFor(k2, m2, fts')
<1>1. \A u \in Texts : u # NoText
  BY StoreAssumption
<1>2. fts[i][t] = 1 /\ \A u \in Texts : u # t => fts[i][u] = 0
  BY DEF ExactFor
<1>. QED
  BY <1>1, <1>2, FtsMoves DEF ExactFor

LEMMA SameShows ==
  ASSUME NEW k, NEW m, NEW k2, NEW m2, ExactFor(k, m, fts), fts' = fts,
         \A j \in Ids : Shown(k2, m2, j) = Shown(k, m, j)
  PROVE  ExactFor(k2, m2, fts')
BY DEF ExactFor

(* The statements that only assign other columns.                           *)
LEMMA SameBodies ==
  ASSUME IndInv, NEW c \in Conns,
         TagDigest(c) \/ CompressSkip(c) \/ KeepOriginal(c) \/ TagCompressed(c)
  PROVE  /\ Live' = Live /\ \A r \in Live : memories'[r].body = memories[r].body
         /\ \A j : Plain(memories', j) = Plain(memories, j)
<1>1. Live' = Live
  BY Edits DEF RowsEdited
<1>2. \A r \in Live : memories'[r].body = memories[r].body
  <2>1. CASE ~KeepOriginal(c)
    <3>1. ~SetBodyWrite(c)
      <4>1. call[c].pc \in {"tag", "llm", "keep", "tagRow"}
        BY DEF TagDigest, CompressSkip, KeepOriginal, TagCompressed
      <4>. QED
        BY <4>1 DEF SetBodyWrite
    <3>2. QuietTexts
      BY <2>1, <3>1, QuietSteps DEF Step
    <3>3. nextId \notin Live
      BY DEF IndInv, PhaseInv, TypeOK
    <3>. QED
      BY <1>1, <3>2, <3>3 DEF QuietTexts
  <2>2. CASE KeepOriginal(c)
    <3>. SUFFICES ASSUME NEW r \in Live PROVE memories'[r].body = memories[r].body
      OBVIOUS
    <3>1. PICK x \in Rows : x = memories[r]
      BY DEF IndInv, TypeOK
    <3>2. memories'[r] = x \/ memories'[r] = [x EXCEPT !.full = x.body]
      BY <2>2, <3>1 DEF KeepOriginal
    <3>. QED
      BY <3>1, <3>2 DEF Rows
  <2>. QED
    BY <2>1, <2>2
<1>. QED
  BY <1>1, <1>2 DEF Plain

(* The fields a statement that only moves on leaves alone.                  *)
LEMMA MoveFields ==
  ASSUME IndInv, NEW c \in Conns, NEW p, Goto(c, p)
  PROVE  /\ call'[c].pc = p /\ call'[c].op = call[c].op /\ call'[c].id = call[c].id
         /\ call'[c].rest = call[c].rest /\ call'[c].new = call[c].new
         /\ call'[c].old = call[c].old /\ call'[c].want = call[c].want
<1>1. PICK k \in CallRec : k = call[c]
  BY DEF IndInv, TypeOK
<1>2. call'[c] = [k EXCEPT !.pc = p]
  BY <1>1 DEF Goto, IndInv, TypeOK
<1>. QED
  BY <1>1, <1>2 DEF CallRec

(* The record a sweep goes on with.                                         *)
LEMMA NextRowFields ==
  ASSUME IndInv, NEW c \in Conns, NEW v, NextRow(c, v)
  PROVE  call'[c].pc \in PlainPcs /\ Poised(call'[c], memories')
<1>1. call \in [Conns -> CallRec]
  BY DEF IndInv, TypeOK
<1>2. CASE Return(c)
  <2>1. call'[c].pc = "idle"
    BY <1>2, ReturnEffect, IdleFields
  <2>. QED
    BY <2>1 DEF Poised, PlainPcs
<1>3. CASE call' = [call EXCEPT ![c] = [Idle EXCEPT !.op = "compress", !.pc = "llm",
                                                    !.rest = call[c].rest \ {v}]]
  <2>1. call'[c].pc = "llm" /\ call'[c].op = "compress"
    BY <1>1, <1>3, IdleFields
  <2>. QED
    BY <2>1 DEF Poised, PlainPcs
<1>. QED
  BY <1>2, <1>3 DEF NextRow

(* Between two statements at which the index equals the table, a step that  *)
(* changes neither keeps them equal.                                        *)
LEMMA StillPlain ==
  ASSUME NEW c \in Conns, Settled(c), call[c].pc \in PlainPcs, call'[c].pc \in PlainPcs,
         fts' = fts, \A j : Plain(memories', j) = Plain(memories, j)
  PROVE  ExactFor(call'[c], memories', fts')
<1>1. PICK k2 : k2 = call'[c]
  OBVIOUS
<1>2. PICK m2 : m2 = memories'
  OBVIOUS
<1>3. \A j \in Ids : Shown(k2, m2, j) = Plain(m2, j) /\ Shown(call[c], memories, j) = Plain(memories, j)
  BY <1>1, PlainShown
<1>4. \A j \in Ids : Shown(k2, m2, j) = Shown(call[c], memories, j)
  BY <1>2, <1>3
<1>5. ExactFor(k2, m2, fts')
  BY <1>4, SameShows DEF Settled
<1>. QED
  BY <1>1, <1>2, <1>5

LEMMA InsertSettles ==
  ASSUME IndInv, NEW c \in Conns, Settled(c), call[c].pc \in PlainPcs,
         NEW op, NEW kind, NEW F, NEW S, InsertRow(c, op, kind, F, S)
  PROVE  ExactFor(call'[c], memories', fts') /\ Poised(call'[c], memories')
<1>1. PICK k2 : k2 = call'[c]
  OBVIOUS
<1>2. PICK m2 : m2 = memories'
  OBVIOUS
<1>3. k2.pc = "index" /\ k2.id = nextId
  BY <1>1, InsertEffect
<1>4. nextId \notin Live
  BY DEF IndInv, PhaseInv, TypeOK
<1>5. /\ DOMAIN m2 = Live \cup {nextId} /\ m2[nextId].body = Original
      /\ \A r \in Live : m2[r] = memories[r]
  BY <1>2, <1>4 DEF InsertRow
<1>6. \A j \in Ids : Shown(call[c], memories, j) = Plain(memories, j)
  BY PlainShown
<1>7. \A j \in Ids : Shown(k2, m2, j) = Plain(memories, j)
  BY <1>3, <1>4, <1>5 DEF Shown, Plain, Hidden, Swapped
<1>8. ExactFor(k2, m2, fts')
  BY <1>6, <1>7, SameShows DEF Settled, InsertRow
<1>9. Poised(k2, m2)
  BY <1>3, <1>5 DEF Poised
<1>. QED
  BY <1>1, <1>2, <1>8, <1>9

(* An operation that begins, unless it replaces a block.                    *)
LEMMA BeginSettles ==
  ASSUME IndInv, NEW c \in Conns, Settled(c), Begin(c), "set_block" \notin Ops, Repeats \subseteq {0}
  PROVE  Settled(c)'
<1>t. call \in [Conns -> CallRec] /\ Live \subseteq Ids
  BY DEF IndInv, TypeOK
<1>p. call[c].pc \in PlainPcs
  BY DEF Begin, Save, SetBlock, ArchiveOverflow, CompressProject, Consolidate, CompressSweep,
         DeleteRow, DeleteRows, Ready, PlainPcs
<1>. SUFFICES ExactFor(call'[c], memories', fts') /\ Poised(call'[c], memories')
  BY DEF Settled
<1>1. CASE Save(c)
  BY <1>1, <1>p, InsertSettles DEF Save
<1>2. CASE SetBlock(c)
  BY <1>2 DEF SetBlock, Ready
<1>3. CASE ArchiveOverflow(c) \/ CompressProject(c)
  <2>1. PICK o \in {"archive", "compress_project"} : \E F, S :
          call' = [call EXCEPT ![c] = [Idle EXCEPT !.op = o, !.pc = "insert",
                                                   !.facts = F, !.rest = S]]
    BY <1>3 DEF ArchiveOverflow, CompressProject, Consolidate
  <2>2. call'[c].pc = "insert" /\ call'[c].op = o
    BY <2>1, <1>t DEF Idle
  <2>3. memories' = memories /\ fts' = fts
    BY <1>3 DEF ArchiveOverflow, CompressProject, Consolidate
  <2>4. Poised(call'[c], memories')
    BY <2>2 DEF Poised
  <2>. QED
    BY <2>2, <2>3, <2>4, <1>p, StillPlain DEF PlainPcs
<1>4. CASE CompressSweep(c)
  <2>1. PICK S : call' = [call EXCEPT ![c] = [Idle EXCEPT !.op = "compress", !.pc = "llm",
                                                          !.rest = S]]
    BY <1>4 DEF CompressSweep
  <2>2. call'[c].pc = "llm" /\ call'[c].op = "compress"
    BY <2>1, <1>t, IdleFields
  <2>3. memories' = memories /\ fts' = fts
    BY <1>4 DEF CompressSweep
  <2>4. Poised(call'[c], memories')
    BY <2>2 DEF Poised
  <2>. QED
    BY <2>2, <2>3, <2>4, <1>p, StillPlain DEF PlainPcs
<1>5. CASE DeleteRow(c)
  <2>1. PICK r \in Live :
          call' = [call EXCEPT ![c] = [Idle EXCEPT !.op = "delete_row", !.pc = "unindexOld",
                     !.old = [i \in {r} |-> memories[i].body], !.rest = {r}, !.want = 1]]
    BY <1>5 DEF DeleteRow
  <2>2. PICK f : f = [i \in {r} |-> memories[i].body]
    OBVIOUS
  <2>3. PICK k2 : k2 = call'[c]
    OBVIOUS
  <2>4. k2 = [Idle EXCEPT !.op = "delete_row", !.pc = "unindexOld", !.old = f, !.rest = {r}, !.want = 1]
    BY <2>1, <2>2, <2>3, <1>t
  <2>5. k2.op = "delete_row" /\ k2.pc = "unindexOld" /\ k2.old = f /\ k2.rest = {r} /\ k2.want = 1
    BY <2>4 DEF Idle
  <2>6. DOMAIN f = {r} /\ f[r] = memories[r].body
    BY <2>2
  <2>7. memories' = memories /\ fts' = fts
    BY <1>5 DEF DeleteRow
  <2>8. Cardinality({r}) = 1
    BY FS_Singleton
  <2>9. Poised(k2, memories)
    BY <2>5, <2>6, <2>8 DEF Poised
  <2>10. \A j \in Ids : Shown(k2, memories, j) = Plain(memories, j)
    BY <2>5, <2>6 DEF Shown, Plain, Hidden, Swapped
  <2>11. \A j \in Ids : Shown(call[c], memories, j) = Plain(memories, j)
    BY <1>p, PlainShown
  <2>12. ExactFor(k2, memories, fts')
    BY <2>7, <2>10, <2>11, SameShows DEF Settled
  <2>. QED
    BY <2>3, <2>7, <2>9, <2>12
<1>6. CASE DeleteRows(c)
  <2>1. PICK ids \in SUBSET Live, again \in Repeats :
          call' = [call EXCEPT ![c] = [Idle EXCEPT !.op = "delete_rows", !.pc = "select",
                     !.rest = ids, !.want = Cardinality(ids) + again]]
    BY <1>6 DEF DeleteRows
  <2>2. Cardinality(ids) + again = Cardinality(ids)
    BY <1>t, IdsCount
  <2>3. PICK n : n = Cardinality(ids)
    OBVIOUS
  <2>4. call'[c] = [Idle EXCEPT !.op = "delete_rows", !.pc = "select", !.rest = ids, !.want = n]
    BY <2>1, <2>2, <2>3, <1>t
  <2>5. call'[c].pc = "select" /\ call'[c].op = "delete_rows" /\ call'[c].rest = ids /\ call'[c].want = n
    BY <2>4 DEF Idle
  <2>6. memories' = memories /\ fts' = fts
    BY <1>6 DEF DeleteRows
  <2>7. Poised(call'[c], memories')
    BY <2>3, <2>5, <2>6 DEF Poised
  <2>. QED
    BY <2>5, <2>6, <2>7, <1>p, StillPlain DEF PlainPcs
<1>. QED
  BY <1>1, <1>2, <1>3, <1>4, <1>5, <1>6 DEF Begin

(* A statement of an operation in progress.                                 *)
LEMMA StepSettles ==
  ASSUME IndInv, NEW c \in Conns, Settled(c), Step(c)
  PROVE  Settled(c)'
<1>t. /\ call \in [Conns -> CallRec] /\ call[c] \in CallRec /\ Live \subseteq Ids
      /\ memories \in [Live -> Rows] /\ TypeOK
  BY DEF IndInv, TypeOK
<1>s. ExactFor(call[c], memories, fts) /\ Poised(call[c], memories)
  BY DEF Settled
<1>n. /\ call[c].id \in Nat /\ \A r \in call[c].rest : r \in Nat
      /\ Original \in Texts /\ \A r \in Live : memories[r].body \in Texts
  BY <1>t DEF CallRec, Ids, Texts, Rows
<1>. SUFFICES ExactFor(call'[c], memories', fts') /\ Poised(call'[c], memories')
  BY DEF Settled
<1>k. PICK k2 : k2 = call'[c]
  OBVIOUS
<1>m. PICK m2 : m2 = memories'
  OBVIOUS
<1>1. CASE IndexRow(c)
  <2>1. PICK i : i = call[c].id
    OBVIOUS
  <2>2. call[c].pc = "index" /\ i \in Live /\ memories[i].body = Original
    BY <1>1, <1>s, <2>1 DEF IndexRow, Poised
  <2>3. k2.pc \in {"tag", "unindex", "idle"}
    <3>1. Goto(c, "tag") \/ Goto(c, "unindex") \/ Return(c)
      BY <1>1 DEF IndexRow
    <3>. QED
      BY <3>1, <1>k, MoveFields, ReturnEffect, IdleFields
  <2>4. \A j : Shown(k2, memories, j) = Plain(memories, j)
    BY <2>3, PlainShown DEF PlainPcs
  <2>5. /\ Shown(call[c], memories, i) = NoText
        /\ \A j \in Ids : j # i => Shown(call[c], memories, j) = Plain(memories, j)
    BY <2>1, <2>2 DEF Shown, Plain, Hidden, Swapped
  <2>6. Shown(k2, memories, i) = Original
    BY <2>2, <2>4 DEF Plain
  <2>7. FtsAdd(i, Original) /\ memories' = memories /\ i \in Ids
    BY <1>1, <1>t, <2>1, <2>2 DEF IndexRow
  <2>8. ExactFor(k2, memories, fts')
    BY <1>n, <1>s, <2>4, <2>5, <2>6, <2>7, AddShows
  <2>9. Poised(k2, memories)
    BY <2>3 DEF Poised
  <2>. QED
    BY <1>k, <2>7, <2>8, <2>9
<1>2. CASE InsertBlock(c)
  BY <1>2, <1>s DEF InsertBlock, Poised
<1>3. CASE SaveDigest(c)
  <2>1. call[c].pc \in PlainPcs
    BY <1>3 DEF SaveDigest, PlainPcs
  <2>. QED
    BY <1>3, <2>1, InsertSettles DEF SaveDigest
<1>4. CASE TagDigest(c)
  <2>1. call[c].pc \in PlainPcs /\ call'[c].pc = "unindex" /\ fts' = fts
    BY <1>4, MoveFields DEF TagDigest, PlainPcs
  <2>2. Poised(call'[c], memories')
    BY <2>1 DEF Poised
  <2>. QED
    BY <1>4, <2>1, <2>2, SameBodies, StillPlain DEF PlainPcs
<1>5. CASE DeleteUnindex(c)
  <2>1. PICK v \in call[c].rest :
          /\ Oldest(c, v)
          /\ IF v \in Live THEN FtsDelete(v, memories[v].body) ELSE UNCHANGED fts
    BY <1>5 DEF DeleteUnindex
  <2>2. k2.pc = "remove" /\ k2.rest = call[c].rest /\ memories' = memories
    BY <1>5, <1>k, MoveFields DEF DeleteUnindex
  <2>3. \A j \in Ids : Shown(call[c], memories, j) = Plain(memories, j)
    BY <1>5, PlainShown DEF DeleteUnindex, PlainPcs
  <2>4. Hidden(k2, v) /\ \A j \in Ids : j # v => ~Hidden(k2, j)
    BY <2>1, <2>2, <1>n DEF Hidden, Oldest, Ids
  <2>5. \A j \in Ids : j # v => Shown(k2, memories, j) = Plain(memories, j)
    BY <2>2, <2>4 DEF Shown, Plain, Swapped
  <2>6. Shown(k2, memories, v) = NoText
    BY <2>4 DEF Shown
  <2>7. Poised(k2, memories)
    BY <2>2 DEF Poised
  <2>8. CASE v \in Live
    <3>1. Shown(call[c], memories, v) = memories[v].body /\ v \in Ids /\ memories[v].body \in Texts
      BY <2>3, <2>8, <1>t, <1>n DEF Plain
    <3>2. FtsDelete(v, memories[v].body)
      BY <2>1, <2>8
    <3>3. ExactFor(k2, memories, fts')
      BY <3>1, <3>2, <2>3, <2>5, <2>6, <1>s, DeleteHides
    <3>. QED
      BY <3>3, <2>2, <2>7, <1>k
  <2>9. CASE v \notin Live
    <3>1. \A j \in Ids : Shown(k2, memories, j) = Shown(call[c], memories, j)
      BY <2>3, <2>5, <2>6, <2>9 DEF Plain
    <3>2. ExactFor(k2, memories, fts')
      BY <3>1, <2>1, <2>9, <1>s, SameShows
    <3>. QED
      BY <3>2, <2>2, <2>7, <1>k
  <2>. QED
    BY <2>8, <2>9
<1>6. CASE DeleteRemove(c)
  <2>1. PICK v \in call[c].rest :
          /\ Oldest(c, v)
          /\ memories' = Restrict(memories, Live \ {v})
          /\ \/ Return(c)
             \/ call' = [call EXCEPT ![c] = [call[c] EXCEPT !.pc = "unindex",
                                                            !.rest = call[c].rest \ {v}]]
    BY <1>6, <1>t DEF DeleteRemove, CallRec
  <2>2. k2.pc \in {"idle", "unindex"}
    <3>1. CASE Return(c)
      BY <3>1, <1>k, ReturnEffect, IdleFields
    <3>2. CASE call' = [call EXCEPT ![c] = [call[c] EXCEPT !.pc = "unindex",
                                                           !.rest = call[c].rest \ {v}]]
      BY <3>2, <1>k, <1>t DEF CallRec
    <3>. QED
      BY <2>1, <3>1, <3>2
  <2>3. DOMAIN m2 = Live \ {v} /\ \A r \in Live \ {v} : m2[r] = memories[r]
    BY <2>1, <1>m DEF Restrict
  <2>4. \A j \in Ids : Shown(k2, m2, j) = Plain(m2, j)
    BY <2>2, PlainShown DEF PlainPcs
  <2>5. /\ Shown(call[c], memories, v) = NoText
        /\ \A j \in Ids : j # v => Shown(call[c], memories, j) = Plain(memories, j)
    BY <1>6, <2>1, <1>n DEF DeleteRemove, Shown, Plain, Hidden, Swapped, Oldest, Ids
  <2>6. \A j \in Ids : Shown(k2, m2, j) = Shown(call[c], memories, j)
    BY <2>3, <2>4, <2>5 DEF Plain
  <2>7. ExactFor(k2, m2, fts')
    BY <1>6, <1>s, <2>6, SameShows DEF DeleteRemove
  <2>8. Poised(k2, m2)
    BY <2>2 DEF Poised
  <2>. QED
    BY <2>7, <2>8, <1>k, <1>m
<1>7. CASE CompressRead(c)
  <2>0. call[c].pc = "llm" /\ call[c].op = "compress" /\ memories' = memories /\ fts' = fts
    BY <1>7, <1>s DEF CompressRead, Poised
  <2>1. PICK v \in call[c].rest, new \in Rewrites, p \in {"keep", "read"} :
          \/ v \in Live /\ call' = [call EXCEPT ![c] = [call[c] EXCEPT !.id = v, !.new = new, !.pc = p]]
          \/ NextRow(c, v)
    BY <1>7 DEF CompressRead
  <2>2. CASE NextRow(c, v)
    BY <2>0, <2>2, NextRowFields, StillPlain DEF PlainPcs
  <2>3. CASE v \in Live /\ call' = [call EXCEPT ![c] = [call[c] EXCEPT !.id = v, !.new = new, !.pc = p]]
    <3>1. call'[c] = [call[c] EXCEPT !.id = v, !.new = new, !.pc = p]
      BY <2>3, <1>t
    <3>2. call'[c].pc = p /\ call'[c].id = v /\ call'[c].op = "compress"
      BY <3>1, <2>0, <1>t DEF CallRec
    <3>3. Poised(call'[c], memories')
      BY <3>2, <2>0, <2>3 DEF Poised
    <3>. QED
      BY <3>2, <3>3, <2>0, StillPlain DEF PlainPcs
  <2>. QED
    BY <2>1, <2>2, <2>3
<1>8. CASE CompressSkip(c)
  <2>1. PICK v : NextRow(c, v)
    BY <1>8 DEF CompressSkip
  <2>2. call[c].pc \in PlainPcs /\ fts' = fts
    BY <1>8 DEF CompressSkip, PlainPcs
  <2>. QED
    BY <1>8, <2>1, <2>2, NextRowFields, SameBodies, StillPlain
<1>9. CASE KeepOriginal(c)
  <2>1. /\ call[c].pc = "keep" /\ fts' = fts
        /\ call'[c].pc = "read" /\ call'[c].id = call[c].id /\ call'[c].op = call[c].op
    BY <1>9, MoveFields DEF KeepOriginal
  <2>2. Live' = Live /\ \A j : Plain(memories', j) = Plain(memories, j)
    BY <1>9, SameBodies
  <2>3. Poised(call'[c], memories')
    BY <2>1, <2>2, <1>s DEF Poised
  <2>. QED
    BY <2>1, <2>2, <2>3, StillPlain DEF PlainPcs
<1>10. CASE SetBodyRead(c)
  <2>0. /\ call[c].pc = "read" /\ call[c].op = "compress" /\ memories' = memories /\ fts' = fts
        /\ call[c].id \in Live
    BY <1>10, <1>s DEF SetBodyRead, Poised
  <2>1. PICK f : f = [i \in {call[c].id} |-> memories[i].body]
    OBVIOUS
  <2>2. call' = [call EXCEPT ![c] = [call[c] EXCEPT !.pc = "write", !.old = f]]
    BY <1>10, <1>t, <2>0, <2>1 DEF SetBodyRead, CallRec
  <2>3. call'[c] = [call[c] EXCEPT !.pc = "write", !.old = f]
    BY <2>2, <1>t
  <2>4. /\ call'[c].pc = "write" /\ call'[c].old = f
        /\ call'[c].op = "compress" /\ call'[c].id = call[c].id
    BY <2>0, <2>3, <1>t DEF CallRec
  <2>5. call[c].id \in DOMAIN f /\ f[call[c].id] = memories[call[c].id].body
    BY <2>1
  <2>6. Poised(call'[c], memories')
    BY <2>0, <2>4, <2>5 DEF Poised
  <2>. QED
    BY <2>0, <2>4, <2>6, StillPlain DEF PlainPcs
<1>11. CASE SetBodyWrite(c)
  <2>1. PICK i : i = call[c].id
    OBVIOUS
  <2>0. /\ call[c].pc = "write" /\ call[c].op = "compress" /\ i \in Live
        /\ call[c].old[i] = memories[i].body /\ fts' = fts
    BY <1>11, <1>s, <2>1 DEF SetBodyWrite, Poised
  <2>2. /\ k2.pc = "unindexOld" /\ k2.op = "compress" /\ k2.id = i
        /\ k2.new = call[c].new /\ k2.old = call[c].old
    BY <1>11, <1>k, <2>0, <2>1, MoveFields DEF SetBodyWrite
  <2>3. DOMAIN m2 = Live /\ \A r \in Live : r # i => m2[r] = memories[r]
    BY <1>11, <1>m, <2>1 DEF SetBodyWrite
  <2>4. m2[i].body = call[c].new
    <3>1. PICK x \in Rows : x = memories[i]
      BY <2>0, <1>t
    <3>2. m2[i] = [x EXCEPT !.body = call[c].new]
      BY <1>11, <1>m, <2>0, <2>1, <3>1 DEF SetBodyWrite
    <3>. QED
      BY <3>2 DEF Rows
  <2>5. \A j \in Ids : Shown(call[c], memories, j) = Plain(memories, j)
    BY <2>0, PlainShown DEF PlainPcs
  <2>6. \A j \in Ids : Shown(k2, m2, j) = Plain(memories, j)
    BY <2>0, <2>2, <2>3 DEF Shown, Plain, Hidden, Swapped
  <2>7. ExactFor(k2, m2, fts')
    BY <2>0, <2>5, <2>6, <1>s, SameShows
  <2>8. Poised(k2, m2)
    BY <2>0, <2>2, <2>3, <2>4, <1>n DEF Poised
  <2>. QED
    BY <2>7, <2>8, <1>k, <1>m
<1>12. CASE SetBodyUnindex(c)
  <2>1. PICK i : i = call[c].id
    OBVIOUS
  <2>0. /\ call[c].pc = "unindexOld" /\ call[c].op = "compress" /\ i \in Live /\ i \in Ids
        /\ memories[i].body = call[c].new /\ call[c].old[i] \in Texts
        /\ memories' = memories /\ FtsDelete(i, call[c].old[i])
    BY <1>12, <1>s, <1>t, <2>1 DEF SetBodyUnindex, Poised
  <2>2. k2.pc = "indexNew" /\ k2.op = "compress" /\ k2.id = i /\ k2.new = call[c].new
    BY <1>12, <1>k, <2>0, <2>1, MoveFields DEF SetBodyUnindex
  <2>3. /\ Shown(call[c], memories, i) = call[c].old[i]
        /\ \A j \in Ids : j # i => Shown(call[c], memories, j) = Plain(memories, j)
    BY <2>0, <2>1 DEF Shown, Plain, Hidden, Swapped
  <2>4. /\ Shown(k2, memories, i) = NoText
        /\ \A j \in Ids : j # i => Shown(k2, memories, j) = Plain(memories, j)
    BY <2>2 DEF Shown, Plain, Hidden, Swapped
  <2>5. ExactFor(k2, memories, fts')
    BY <2>0, <2>3, <2>4, <1>s, DeleteHides
  <2>6. Poised(k2, memories)
    BY <2>0, <2>2 DEF Poised
  <2>. QED
    BY <2>0, <2>5, <2>6, <1>k
<1>13. CASE SetBodyIndex(c)
  <2>1. PICK i : i = call[c].id
    OBVIOUS
  <2>0. /\ call[c].pc = "indexNew" /\ call[c].op = "compress" /\ i \in Live /\ i \in Ids
        /\ memories[i].body = call[c].new /\ call[c].new \in Texts
        /\ memories' = memories /\ FtsAdd(i, call[c].new)
    BY <1>13, <1>s, <1>t, <1>n, <2>1 DEF SetBodyIndex, Poised
  <2>2. k2.pc = "tagRow" /\ k2.op = "compress"
    BY <1>13, <1>k, <2>0, MoveFields DEF SetBodyIndex
  <2>3. /\ Shown(call[c], memories, i) = NoText
        /\ \A j \in Ids : j # i => Shown(call[c], memories, j) = Plain(memories, j)
    BY <2>0, <2>1 DEF Shown, Plain, Hidden, Swapped
  <2>4. \A j \in Ids : Shown(k2, memories, j) = Plain(memories, j)
    BY <2>2, PlainShown DEF PlainPcs
  <2>5. Shown(k2, memories, i) = call[c].new
    BY <2>0, <2>4 DEF Plain
  <2>6. ExactFor(k2, memories, fts')
    BY <2>0, <2>3, <2>4, <2>5, <1>s, AddShows
  <2>7. Poised(k2, memories)
    BY <2>2 DEF Poised
  <2>. QED
    BY <2>0, <2>6, <2>7, <1>k
<1>14. CASE TagCompressed(c)
  <2>1. NextRow(c, call[c].id) /\ call[c].pc \in PlainPcs /\ fts' = fts
    BY <1>14 DEF TagCompressed, PlainPcs
  <2>. QED
    BY <1>14, <2>1, NextRowFields, SameBodies, StillPlain
<1>15. CASE DeleteRowsSelect(c)
  <2>0. /\ call[c].pc = "select" /\ memories' = memories /\ fts' = fts
        /\ call[c].op # "compress" /\ call[c].rest \subseteq Live
        /\ call[c].want = Cardinality(call[c].rest)
    BY <1>15, <1>s DEF DeleteRowsSelect, Poised
  <2>1. PICK S : S = call[c].rest
    OBVIOUS
  <2>2. PICK f : f = [i \in S |-> memories[i].body]
    OBVIOUS
  <2>3. S \cap Live = S
    BY <2>0, <2>1
  <2>4. CASE Return(c)
    <3>1. call'[c].pc = "idle"
      BY <2>4, ReturnEffect, IdleFields
    <3>2. Poised(call'[c], memories')
      BY <3>1 DEF Poised
    <3>. QED
      BY <3>1, <3>2, <2>0, StillPlain DEF PlainPcs
  <2>5. CASE ~Return(c)
    <3>1. call' = [call EXCEPT ![c] = [call[c] EXCEPT !.pc = "unindexOld", !.rest = S, !.old = f]]
      BY <1>15, <2>1, <2>2, <2>3, <2>5 DEF DeleteRowsSelect
    <3>2. k2 = [call[c] EXCEPT !.pc = "unindexOld", !.rest = S, !.old = f]
      BY <3>1, <1>t, <1>k
    <3>3. /\ k2.pc = "unindexOld" /\ k2.rest = S /\ k2.old = f
          /\ k2.op = call[c].op /\ k2.want = call[c].want
      BY <3>2, <1>t DEF CallRec
    <3>4. DOMAIN f = S /\ \A i \in S : f[i] = memories[i].body
      BY <2>2
    <3>5. Poised(k2, memories)
      BY <3>3, <3>4, <2>0, <2>1 DEF Poised
    <3>6. \A j \in Ids : Shown(k2, memories, j) = Plain(memories, j)
      BY <3>3, <3>4, <2>0 DEF Shown, Plain, Hidden, Swapped
    <3>7. \A j \in Ids : Shown(call[c], memories, j) = Plain(memories, j)
      BY <2>0, PlainShown DEF PlainPcs
    <3>8. ExactFor(k2, memories, fts')
      BY <3>6, <3>7, <2>0, <1>s, SameShows
    <3>. QED
      BY <3>5, <3>8, <2>0, <1>k
  <2>. QED
    BY <2>4, <2>5
<1>16. CASE GovernedUnindex(c)
  <2>0. /\ call[c].pc = "unindexOld" /\ call[c].op # "compress" /\ memories' = memories
        /\ call[c].rest \subseteq DOMAIN call[c].old /\ DOMAIN call[c].old \subseteq Live
        /\ \A i \in DOMAIN call[c].old : call[c].old[i] = memories[i].body
        /\ call[c].want = Cardinality(DOMAIN call[c].old)
    BY <1>16, <1>s DEF GovernedUnindex, Poised
  <2>1. PICK v \in call[c].rest :
          /\ FtsDelete(v, call[c].old[v])
          /\ call' = [call EXCEPT ![c] = [call[c] EXCEPT
                        !.pc = IF call[c].rest = {v} THEN "removeRows" ELSE "unindexOld",
                        !.rest = call[c].rest \ {v}]]
    BY <1>16 DEF GovernedUnindex
  <2>2. PICK p \in {"removeRows", "unindexOld"} :
          p = IF call[c].rest = {v} THEN "removeRows" ELSE "unindexOld"
    OBVIOUS
  <2>3. k2 = [call[c] EXCEPT !.pc = p, !.rest = call[c].rest \ {v}]
    BY <2>1, <2>2, <1>t, <1>k
  <2>4. /\ k2.pc = p /\ k2.rest = call[c].rest \ {v} /\ k2.old = call[c].old
        /\ k2.op = call[c].op /\ k2.want = call[c].want
    BY <2>3, <1>t DEF CallRec
  <2>5. p = "removeRows" => k2.rest = {}
    BY <2>2, <2>4
  <2>6. Poised(k2, memories)
    BY <2>0, <2>4, <2>5 DEF Poised
  <2>7. v \in Live /\ v \in Ids /\ v \in DOMAIN call[c].old
        /\ call[c].old[v] = memories[v].body /\ call[c].old[v] \in Texts
    BY <2>0, <1>t, <1>n
  <2>8. /\ Shown(call[c], memories, v) = call[c].old[v] /\ Shown(k2, memories, v) = NoText
        /\ \A j \in Ids : j # v => Shown(k2, memories, j) = Shown(call[c], memories, j)
    BY <2>0, <2>4, <2>7 DEF Shown, Hidden, Swapped
  <2>9. ExactFor(k2, memories, fts')
    BY <2>1, <2>7, <2>8, <1>s, DeleteHides
  <2>. QED
    BY <2>0, <2>6, <2>9, <1>k
<1>17. CASE GovernedRemove(c)
  <2>0. /\ call[c].pc = "removeRows" /\ call[c].op # "compress" /\ call[c].rest = {} /\ fts' = fts
        /\ call[c].want = Cardinality(Found(c))
    BY <1>17, <1>s DEF GovernedRemove, Poised, Found
  <2>1. memories' = Restrict(memories, Live \ Found(c))
    BY <1>17, <2>0 DEF GovernedRemove, BindMatches
  <2>2. DOMAIN m2 = Live \ Found(c) /\ \A r \in Live \ Found(c) : m2[r] = memories[r]
    BY <2>1, <1>m DEF Restrict
  <2>3. k2.pc = "idle"
    BY <1>17, <1>k, ReturnEffect, IdleFields DEF GovernedRemove
  <2>4. \A j \in Ids : Shown(k2, m2, j) = Plain(m2, j)
    BY <2>3, PlainShown DEF PlainPcs
  <2>5. \A j \in Ids : Shown(call[c], memories, j)
                         = IF j \in Found(c) THEN NoText ELSE Plain(memories, j)
    BY <2>0 DEF Shown, Plain, Hidden, Swapped, Found
  <2>6. \A j \in Ids : Shown(k2, m2, j) = Shown(call[c], memories, j)
    BY <2>2, <2>4, <2>5 DEF Plain
  <2>7. ExactFor(k2, m2, fts')
    BY <2>0, <2>6, <1>s, SameShows
  <2>8. Poised(k2, m2)
    BY <2>3 DEF Poised
  <2>. QED
    BY <2>7, <2>8, <1>k, <1>m
<1>. QED
  BY <1>1, <1>2, <1>3, <1>4, <1>5, <1>6, <1>7, <1>8, <1>9, <1>10, <1>11, <1>12, <1>13, <1>14,
     <1>15, <1>16, <1>17 DEF Step

(* An operation that begins is under way.                                   *)
LEMMA BeginBusy ==
  ASSUME IndInv, NEW c \in Conns, Begin(c)
  PROVE  call'[c].pc # "idle" /\ (call'[c].op = "archive" => ArchiveOverflow(c))
<1>t. call \in [Conns -> CallRec]
  BY DEF IndInv, TypeOK
<1>1. CASE Save(c)
  BY <1>1, InsertEffect DEF Save
<1>2. CASE SetBlock(c)
  BY <1>2, <1>t, IdleFields DEF SetBlock
<1>3. CASE ArchiveOverflow(c) \/ CompressProject(c)
  <2>1. PICK o, F, S : /\ call' = [call EXCEPT ![c] = [Idle EXCEPT !.op = o, !.pc = "insert",
                                                                  !.facts = F, !.rest = S]]
                       /\ ArchiveOverflow(c) \/ o = "compress_project"
    BY <1>3 DEF ArchiveOverflow, CompressProject, Consolidate
  <2>2. call'[c].pc = "insert" /\ call'[c].op = o
    BY <2>1, <1>t DEF Idle
  <2>. QED
    BY <2>1, <2>2
<1>4. CASE CompressSweep(c)
  <2>1. PICK S : call' = [call EXCEPT ![c] = [Idle EXCEPT !.op = "compress", !.pc = "llm",
                                                          !.rest = S]]
    BY <1>4 DEF CompressSweep
  <2>. QED
    BY <2>1, <1>t, IdleFields
<1>5. CASE DeleteRow(c)
  <2>1. PICK f, S : call' = [call EXCEPT ![c] = [Idle EXCEPT !.op = "delete_row",
                      !.pc = "unindexOld", !.old = f, !.rest = S, !.want = 1]]
    BY <1>5 DEF DeleteRow
  <2>. QED
    BY <2>1, <1>t DEF Idle
<1>6. CASE DeleteRows(c)
  <2>1. PICK S, n : call' = [call EXCEPT ![c] = [Idle EXCEPT !.op = "delete_rows",
                      !.pc = "select", !.rest = S, !.want = n]]
    BY <1>6 DEF DeleteRows
  <2>. QED
    BY <2>1, <1>t DEF Idle
<1>. QED
  BY <1>1, <1>2, <1>3, <1>4, <1>5, <1>6 DEF Begin

LEMMA StepIndex ==
  ASSUME "set_block" \notin Ops, Repeats \subseteq {0}
  PROVE  IndInv /\ IndexInv /\ OneAtATime /\ OneAtATime' /\ [Next]_vars => IndexInv'
<1>. SUFFICES ASSUME IndInv, IndexInv, OneAtATime, OneAtATime', [Next]_vars PROVE IndexInv'
  OBVIOUS
<1>0. CASE UNCHANGED vars
  BY <1>0 DEF vars, IndexInv, AtRest, Settled
<1>1. ASSUME NEW c \in Conns, Begin(c) \/ Step(c) \/ Interrupt(c) PROVE IndexInv'
  <2>e. \A d \in Conns \ {c} : call'[d] = call[d]
    BY <1>1, StepEffect DEF Effect
  <2>i. Idle.pc = "idle"
    BY IdleFields
  <2>f. faults \in Nat
    BY DEF IndInv, TypeOK
  <2>1. CASE Interrupt(c)
    BY <2>1, <2>f DEF Interrupt, IndexInv
  <2>2. CASE Begin(c) \/ Step(c)
    <3>1. faults' = faults
      BY <2>2 DEF Begin, Step, Save, SetBlock, ArchiveOverflow, CompressProject, Consolidate,
         CompressSweep, DeleteRow, DeleteRows, IndexRow, InsertBlock, SaveDigest, InsertRow,
         TagDigest, DeleteUnindex, DeleteRemove, CompressRead, CompressSkip, KeepOriginal,
         SetBodyRead, SetBodyWrite, SetBodyUnindex, SetBodyIndex, TagCompressed,
         DeleteRowsSelect, GovernedUnindex, GovernedRemove
    <3>. SUFFICES ASSUME faults = 0
                  PROVE  /\ AtRest' => ExactFor(Idle, memories', fts')
                         /\ \A d \in Conns : ~At(d, "idle")' => Settled(d)'
      BY <3>1 DEF IndexInv
    <3>2. ASSUME NEW d \in Conns \ {c} PROVE call[d].pc = "idle" /\ call'[d].pc = "idle"
      <4>1. CASE Begin(c)
        <5>1. call[c].pc = "idle"
          BY <4>1 DEF Begin, Save, SetBlock, ArchiveOverflow, CompressProject, Consolidate,
                      CompressSweep, DeleteRow, DeleteRows, Ready
        <5>2. call'[c].pc # "idle"
          BY <4>1, BeginBusy
        <5>. QED
          BY <5>2, <2>e DEF OneAtATime
      <4>2. CASE Step(c)
        <5>1. call[c].pc # "idle"
          BY <4>2 DEF Step, IndexRow, InsertBlock, SaveDigest, TagDigest, DeleteUnindex,
             DeleteRemove, CompressRead, CompressSkip, KeepOriginal, SetBodyRead, SetBodyWrite,
             SetBodyUnindex, SetBodyIndex, TagCompressed, DeleteRowsSelect, GovernedUnindex,
             GovernedRemove
        <5>. QED
          BY <5>1, <2>e DEF OneAtATime
      <4>. QED
        BY <2>2, <4>1, <4>2
    <3>3. Settled(c)
      <4>1. CASE call[c].pc = "idle"
        <5>1. ExactFor(Idle, memories, fts)
          BY <3>2, <4>1 DEF AtRest, IndexInv
        <5>2. \A i : Shown(Idle, memories, i) = Shown(call[c], memories, i)
          BY <4>1, <2>i, PlainShown DEF PlainPcs
        <5>3. ExactFor(call[c], memories, fts)
          BY <5>1, <5>2 DEF ExactFor
        <5>4. Poised(call[c], memories)
          BY <4>1 DEF Poised
        <5>. QED
          BY <5>3, <5>4 DEF Settled
      <4>2. CASE call[c].pc # "idle"
        BY <4>2 DEF IndexInv
      <4>. QED
        BY <4>1, <4>2
    <3>4. Settled(c)'
      BY <2>2, <3>3, BeginSettles, StepSettles
    <3>5. ASSUME call'[c].pc = "idle" PROVE ExactFor(Idle, memories', fts')
      <4>1. PICK k2 : k2 = call'[c]
        OBVIOUS
      <4>2. PICK m2 : m2 = memories'
        OBVIOUS
      <4>3. \A i : Shown(Idle, m2, i) = Shown(k2, m2, i)
        BY <3>5, <4>1, <2>i, PlainShown DEF PlainPcs
      <4>4. ExactFor(k2, m2, fts')
        BY <3>4, <4>1, <4>2 DEF Settled
      <4>5. ExactFor(Idle, m2, fts')
        BY <4>3, <4>4 DEF ExactFor
      <4>. QED
        BY <4>2, <4>5
    <3>. QED
      BY <3>2, <3>4, <3>5 DEF AtRest
  <2>. QED
    BY <1>1, <2>1, <2>2
<1>. QED
  BY <1>0, <1>1 DEF Next

LEMMA InitIndex == Init => IndexInv
<1>. SUFFICES ASSUME Init PROVE IndexInv
  OBVIOUS
<1>1. Live = {} /\ fts = [i \in Ids |-> [t \in Texts |-> 0]]
  BY DEF Init
<1>2. \A c \in Conns : call[c].pc = "idle"
  BY IdleFields DEF Init
<1>3. \A t \in Texts : t # NoText
  BY StoreAssumption
<1>4. ExactFor(Idle, memories, fts)
  BY <1>1, <1>3 DEF ExactFor, Shown
<1>. QED
  BY <1>2, <1>4 DEF IndexInv

(* Full-text recall and the table agree whenever the store is at rest, for  *)
(* any number of rows and texts: when operations run one after the other to *)
(* their end, no block is replaced (set_block deletes rows the index is not *)
(* told of) and no batch delete names an id twice (its DELETE is refused    *)
(* after the index was changed).                                            *)
THEOREM IndexFollows ==
  ASSUME "set_block" \notin Ops, Repeats \subseteq {0}
  PROVE  Spec /\ []OneAtATime => []IndexExact
<1>1. IndexInv => IndexExact
  <2>. SUFFICES ASSUME IndexInv, AtRest, faults = 0, NEW i \in Ids, NEW t \in Texts
                PROVE  fts[i][t] = IF i \in Live /\ memories[i].body = t THEN 1 ELSE 0
    BY DEF IndexExact
  <2>1. ExactFor(Idle, memories, fts)
    BY DEF IndexInv
  <2>2. Shown(Idle, memories, i) = Plain(memories, i)
    BY IdleFields, PlainShown DEF PlainPcs
  <2>3. t # NoText
    BY StoreAssumption
  <2>. QED
    BY <2>1, <2>2, <2>3 DEF ExactFor, Plain
<1>2. IndInv /\ IndexInv /\ OneAtATime /\ OneAtATime' /\ [Next]_vars => IndexInv'
  BY StepIndex
<1>. QED
  BY <1>1, <1>2, InitIndex, Invariance, PTL DEF Spec

(***************************************************************************)
(* A sweep of the daemon that has the store to itself settles.             *)
(***************************************************************************)
LEMMA Least ==
  ASSUME NEW S \in SUBSET Nat, S # {}
  PROVE  \E x \in S : \A y \in S : x <= y
<1>1. PICK R : R = OpToRel(<, Nat)
  OBVIOUS
<1>2. PICK x \in S : \A y \in S : ~(<<y, x>> \in R)
  BY <1>1, NatLessThanWellFounded, WFMin
<1>3. \A y \in S : ~(y < x)
  BY <1>1, <1>2 DEF OpToRel
<1>. QED
  BY <1>2, <1>3

(* No more than KeepRecent rows have fewer than KeepRecent newer ones.      *)
LEMMA NewestFew ==
  ASSUME NEW S \in SUBSET Ids
  PROVE  Cardinality(S \ BeyondRecent(S)) <= KeepRecent
<1>1. PICK T : T = S \ BeyondRecent(S)
  OBVIOUS
<1>i. Ids \in SUBSET Nat /\ IsFiniteSet(Ids)
  BY FS_Interval, StoreAssumption DEF Ids
<1>2. T \in SUBSET S /\ T \in SUBSET Nat /\ S \in SUBSET Nat
  BY <1>1, <1>i
<1>3. CASE T = {}
  BY <1>1, <1>3, FS_EmptySet, StoreAssumption
<1>4. CASE T # {}
  <2>1. PICK m \in T : \A y \in T : m <= y
    BY <1>2, <1>4, Least
  <2>2. PICK U : U = {s \in S : s > m}
    OBVIOUS
  <2>3. U \in SUBSET Ids
    BY <2>2
  <2>4. IsFiniteSet(U)
    BY <2>3, <1>i, FS_Subset
  <2>5. Cardinality(U) \in Nat /\ ~(Cardinality(U) >= KeepRecent)
    BY <1>1, <2>1, <2>2, <2>3, IdsCount DEF BeyondRecent
  <2>6. IsFiniteSet(U \cup {m}) /\ Cardinality(U \cup {m}) <= Cardinality(U) + 1
    <3>1. /\ IsFiniteSet(U \cup {m})
          /\ Cardinality(U \cup {m}) = IF m \in U THEN Cardinality(U) ELSE Cardinality(U) + 1
      BY <2>4, FS_AddElement, Zenon
    <3>. QED
      BY <2>5, <3>1
  <2>7. T \in SUBSET (U \cup {m})
    BY <1>2, <2>1, <2>2
  <2>8. Cardinality(T) <= Cardinality(U \cup {m}) /\ Cardinality(T) \in Nat
        /\ Cardinality(U \cup {m}) \in Nat
    BY <2>6, <2>7, FS_Subset, FS_CardinalityType
  <2>. QED
    BY <1>1, <2>5, <2>6, <2>8, StoreAssumption
<1>. QED
  BY <1>3, <1>4

(* What a sweep leaves of the rows m once it has deleted its list.          *)
Left(k, m) == {r \in DOMAIN m : m[r].kind # "archival"} \ k.rest

SettleInv ==
  \A c \in Conns : call[c].op = "archive" => Cardinality(Left(call[c], memories)) <= KeepRecent

(* Assigning other columns leaves the kind of a row alone.                  *)
LEMMA TagKinds ==
  ASSUME IndInv, NEW c \in Conns, TagDigest(c)
  PROVE  Live' = Live /\ \A r \in Live : memories'[r].kind = memories[r].kind
<1>1. Live' = Live
  BY Edits DEF RowsEdited
<1>2. ASSUME NEW r \in Live PROVE memories'[r].kind = memories[r].kind
  <2>1. PICK x \in Rows : x = memories[r]
    BY DEF IndInv, TypeOK
  <2>2. memories'[r] = x \/ memories'[r] = [x EXCEPT !.compressed = FALSE]
    BY <2>1 DEF TagDigest
  <2>. QED
    BY <2>1, <2>2 DEF Rows
<1>. QED
  BY <1>1, <1>2

(* What the last DELETE of a sweep leaves, and what one in between leaves.  *)
LEMMA RemoveLeft ==
  ASSUME IndInv, NEW c \in Conns, DeleteRemove(c)
  PROVE  \/ /\ Return(c)
            /\ {r \in Live' : memories'[r].kind # "archival"} = Left(call[c], memories)
         \/ /\ call'[c].pc = "unindex" /\ call'[c].op = call[c].op
            /\ Left(call'[c], memories') = Left(call[c], memories)
<1>t. call \in [Conns -> CallRec] /\ call[c] \in CallRec
  BY DEF IndInv, TypeOK
<1>1. PICK v \in call[c].rest :
        /\ memories' = Restrict(memories, Live \ {v})
        /\ \/ Return(c) /\ call[c].rest = {v}
           \/ call' = [call EXCEPT ![c] = [call[c] EXCEPT !.pc = "unindex",
                                                          !.rest = call[c].rest \ {v}]]
  BY <1>t DEF DeleteRemove, CallRec
<1>2. Live' = Live \ {v} /\ \A r \in Live' : memories'[r] = memories[r]
  BY <1>1 DEF Restrict
<1>3. CASE Return(c) /\ call[c].rest = {v}
  BY <1>2, <1>3 DEF Left
<1>4. CASE call' = [call EXCEPT ![c] = [call[c] EXCEPT !.pc = "unindex",
                                                       !.rest = call[c].rest \ {v}]]
  <2>1. call'[c] = [call[c] EXCEPT !.pc = "unindex", !.rest = call[c].rest \ {v}]
    BY <1>4, <1>t
  <2>2. /\ call'[c].pc = "unindex" /\ call'[c].rest = call[c].rest \ {v}
        /\ call'[c].op = call[c].op
    BY <2>1, <1>t DEF CallRec
  <2>3. Left(call'[c], memories') = Left(call[c], memories)
    BY <2>2, <1>1, <1>2 DEF Left
  <2>. QED
    BY <2>2, <2>3
<1>. QED
  BY <1>1, <1>3, <1>4

LEMMA StepSettleInv ==
  IndInv /\ SettleInv /\ OneAtATime /\ OneAtATime' /\ [Next]_vars => SettleInv'
<1>. SUFFICES ASSUME IndInv, SettleInv, OneAtATime, OneAtATime', [Next]_vars PROVE SettleInv'
  OBVIOUS
<1>0. CASE UNCHANGED vars
  BY <1>0 DEF vars, SettleInv
<1>1. ASSUME NEW c \in Conns, Begin(c) \/ Step(c) \/ Interrupt(c) PROVE SettleInv'
  <2>t. call \in [Conns -> CallRec] /\ call[c] \in CallRec /\ Phase(call[c]) /\ Live \subseteq Ids
    BY PhaseHere DEF IndInv, TypeOK
  <2>e. Effect(c) /\ Phase(call'[c])
    BY <1>1, StepEffect
  <2>1. ASSUME NEW d \in Conns \ {c}, call'[d].op = "archive"
        PROVE  Cardinality(Left(call'[d], memories')) <= KeepRecent
    <3>1. call[d] = call'[d] /\ Phase(call[d])
      BY <2>e, PhaseHere DEF Effect
    <3>2. call[d].pc # "idle"
      BY <2>1, <3>1 DEF Phase
    <3>3. CASE Begin(c)
      BY <3>1, <3>2, <3>3, BeginBusy DEF OneAtATime
    <3>4. CASE Step(c) \/ Interrupt(c)
      <4>1. call[c].pc # "idle"
        BY <3>4 DEF Step, IndexRow, InsertBlock, SaveDigest, TagDigest, DeleteUnindex,
             DeleteRemove, CompressRead, CompressSkip, KeepOriginal, SetBodyRead, SetBodyWrite,
             SetBodyUnindex, SetBodyIndex, TagCompressed, DeleteRowsSelect, GovernedUnindex,
             GovernedRemove, Interrupt
      <4>. QED
        BY <3>2, <4>1 DEF OneAtATime
    <3>. QED
      BY <1>1, <3>3, <3>4
  <2>2. ASSUME call'[c].op = "archive"
        PROVE  Cardinality(Left(call'[c], memories')) <= KeepRecent
    <3>1. CASE Begin(c)
      <4>1. ArchiveOverflow(c)
        BY <2>2, <3>1, BeginBusy
      <4>2. PICK S \in SUBSET Ids : S = Candidates("archive")
        BY <2>t DEF Candidates
      <4>3. call'[c].rest = BeyondRecent(S) /\ memories' = memories
        <5>1. PICK F, R : /\ call' = [call EXCEPT ![c] = [Idle EXCEPT !.op = "archive",
                                          !.pc = "insert", !.facts = F, !.rest = R]]
                          /\ R = BeyondRecent(S)
          BY <4>1, <4>2 DEF ArchiveOverflow, Consolidate
        <5>2. call'[c].rest = R
          BY <5>1, <2>t DEF Idle
        <5>. QED
          BY <5>1, <5>2, <4>1 DEF ArchiveOverflow, Consolidate
      <4>4. Left(call'[c], memories') = S \ BeyondRecent(S)
        BY <4>2, <4>3 DEF Left, Candidates
      <4>. QED
        BY <4>4, NewestFew
    <3>2. CASE Interrupt(c)
      <4>1. call'[c] = Idle
        BY <3>2, ReturnEffect DEF Interrupt
      <4>. QED
        BY <4>1, <2>2, IdleFields
    <3>3. CASE Step(c)
      <4>0. call[c].pc # "idle"
        BY <3>3 DEF Step, IndexRow, InsertBlock, SaveDigest, TagDigest, DeleteUnindex,
             DeleteRemove, CompressRead, CompressSkip, KeepOriginal, SetBodyRead, SetBodyWrite,
             SetBodyUnindex, SetBodyIndex, TagCompressed, DeleteRowsSelect, GovernedUnindex,
             GovernedRemove
      <4>1. Consolidating(c)
        BY <2>2, <2>e, <4>0 DEF Effect, Leaves, Lists, Digests, Proceeds, Consolidating
      <4>2. call[c].pc \in {"insert", "index", "tag", "unindex", "remove"}
        BY <4>1, <2>t DEF Phase, Consolidating
      <4>3. \/ IndexRow(c) \/ SaveDigest(c) \/ TagDigest(c) \/ DeleteUnindex(c) \/ DeleteRemove(c)
        BY <3>3, <4>1, <4>2 DEF Step, Consolidating, InsertBlock, CompressRead, CompressSkip,
             KeepOriginal, SetBodyRead, SetBodyWrite, SetBodyUnindex, SetBodyIndex,
             TagCompressed, DeleteRowsSelect, GovernedUnindex, GovernedRemove
      <4>4. ASSUME NEW p, Goto(c, p) \/ Return(c), Live' = Live,
                   \A r \in Live : memories'[r].kind = memories[r].kind
            PROVE  Cardinality(Left(call'[c], memories')) <= KeepRecent
        <5>1. ~Return(c)
          BY <2>2, ReturnEffect, IdleFields
        <5>2. call'[c].op = call[c].op /\ call'[c].rest = call[c].rest
          BY <4>4, <5>1, MoveFields
        <5>3. Left(call'[c], memories') = Left(call[c], memories)
          BY <4>4, <5>2 DEF Left
        <5>. QED
          BY <2>2, <5>2, <5>3 DEF SettleInv
      <4>5. CASE IndexRow(c)
        BY <4>4, <4>5 DEF IndexRow
      <4>6. CASE TagDigest(c)
        BY <4>4, <4>6, TagKinds DEF TagDigest
      <4>7. CASE DeleteUnindex(c)
        BY <4>4, <4>7 DEF DeleteUnindex
      <4>8. CASE SaveDigest(c)
        <5>1. InsertRow(c, call[c].op, "archival", call[c].facts, call[c].rest)
          BY <4>8 DEF SaveDigest
        <5>2. call'[c].op = call[c].op /\ call'[c].rest = call[c].rest
          BY <5>1, InsertEffect
        <5>3. nextId \notin Live
          BY DEF IndInv, PhaseInv, TypeOK
        <5>4. /\ Live' = Live \cup {nextId} /\ memories'[nextId].kind = "archival"
              /\ \A r \in Live : memories'[r] = memories[r]
          BY <5>1, <5>3 DEF InsertRow
        <5>5. Left(call'[c], memories') = Left(call[c], memories)
          BY <5>2, <5>3, <5>4 DEF Left
        <5>. QED
          BY <2>2, <5>2, <5>5 DEF SettleInv
      <4>9. CASE DeleteRemove(c)
        <5>1. ~Return(c)
          BY <2>2, ReturnEffect, IdleFields
        <5>. QED
          BY <2>2, <4>9, <5>1, RemoveLeft DEF SettleInv
      <4>. QED
        BY <4>3, <4>5, <4>6, <4>7, <4>8, <4>9
    <3>. QED
      BY <1>1, <3>1, <3>2, <3>3
  <2>. QED
    BY <2>1, <2>2 DEF SettleInv
<1>. QED
  BY <1>0, <1>1 DEF Next

(* A sweep of the daemon that runs to its end with no other operation under *)
(* way leaves no more than KeepRecent rows to consolidate, for any store.   *)
THEOREM SweepLeaves == Spec /\ []OneAtATime => SweepSettles
<1>1. Init => SettleInv
  BY IdleFields DEF Init, SettleInv
<1>2. ASSUME IndInv, SettleInv, [Next]_vars, NEW c \in Conns, call[c].op = "archive",
             At(c, "remove"), At(c, "idle")', faults' = faults
      PROVE  Cardinality(Candidates("archive")') <= KeepRecent
  <2>1. PICK d \in Conns : Begin(d) \/ Step(d) \/ Interrupt(d)
    BY <1>2 DEF Next, vars
  <2>2. d = c
    BY <1>2, <2>1, StepEffect DEF Effect
  <2>3. DeleteRemove(c)
    <3>1. ~Begin(c)
      BY <1>2 DEF Begin, Save, SetBlock, ArchiveOverflow, CompressProject, Consolidate,
             CompressSweep, DeleteRow, DeleteRows, Ready
    <3>2. ~Interrupt(c)
      BY <1>2 DEF Interrupt, IndInv, TypeOK
    <3>. QED
      BY <1>2, <2>1, <2>2, <3>1, <3>2 DEF Step, IndexRow, InsertBlock,
             SaveDigest, TagDigest, DeleteUnindex, CompressRead, CompressSkip,
             KeepOriginal, SetBodyRead, SetBodyWrite, SetBodyUnindex, SetBodyIndex,
             TagCompressed, DeleteRowsSelect, GovernedUnindex, GovernedRemove
  <2>4. {r \in Live' : memories'[r].kind # "archival"} = Left(call[c], memories)
    BY <1>2, <2>3, RemoveLeft
  <2>. QED
    BY <1>2, <2>4 DEF SettleInv, Candidates
<1>3. IndInv /\ SettleInv /\ [Next]_vars =>
        [\A c \in Conns : call[c].op = "archive" /\ At(c, "remove") /\ At(c, "idle")'
                          /\ faults' = faults
            => Cardinality(Candidates("archive")') <= KeepRecent]_vars
  BY <1>2
<1>. QED
  BY <1>1, <1>3, StepSettleInv, Invariance, PTL DEF Spec, SweepSettles

=============================================================================
