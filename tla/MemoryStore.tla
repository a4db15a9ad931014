---------------------------- MODULE MemoryStore ----------------------------
(***************************************************************************)
(* The rows of a project's memory store and their full-text index          *)
(* (crates/rtrt-memory/src/lib.rs).  The store is one SQLite file opened   *)
(* by several connections at once: the command line, the MCP server, the   *)
(* dashboard and its daemons.  Outside the ingest of forwarded events no   *)
(* operation opens a transaction, so each SQL statement commits by itself  *)
(* and an operation of several statements interleaves with the others and  *)
(* can stop between two of them.  One action is one statement.             *)
(*                                                                         *)
(* A text is abstracted to what the properties tell apart.  Original is    *)
(* the text a row was saved with, a member of Rewrites a shorter one a     *)
(* language model answered.  The facts of a row are the saved rows whose   *)
(* content it speaks for: itself, and for an archival digest every row     *)
(* rolled into it.  One project and one block name are modelled; the       *)
(* clock behind created_at never goes back, so the oldest rows are those   *)
(* with the smallest ids.                                                  *)
(***************************************************************************)
EXTENDS Integers, FiniteSets, Functions

CONSTANTS
  Conns,        \* connections, each running one operation at a time
  Rewrites,     \* texts the compressor can answer
  KeepRecent,   \* keep_recent of the consolidation operations
  Ops,          \* the operations called in this instance
  Repeats,      \* how many ids a batch delete may name twice
  MaxId,        \* bound on the ids AUTOINCREMENT hands out
  MaxSaves,     \* bound on the ids that plain saves may use
  MaxFaults     \* bound on interrupted operations

Original == "original"
NoText == "none"
Texts == {Original} \cup Rewrites
Ids == 1..MaxId
Kinds == {"note", "block", "archival"}
OpNames == {"save", "set_block", "compress", "delete_row", "delete_rows",
            "archive", "compress_project"}

ASSUME StoreAssumption ==
  /\ KeepRecent \in Nat /\ MaxId \in Nat /\ MaxSaves \in Nat /\ MaxFaults \in Nat
  /\ Ops \subseteq OpNames
  /\ Repeats \subseteq Nat
  /\ Original \notin Rewrites /\ NoText \notin Texts

VARIABLES
  memories,   \* table memories: live id -> row
  nextId,     \* AUTOINCREMENT: ids are never reused
  fts,        \* memories_fts: per id and text, insertions minus deletions
  call,       \* the operation each connection is in the middle of
  forgotten,  \* facts removed on request (history)
  faults      \* operations interrupted so far

vars == <<memories, nextId, fts, call, forgotten, faults>>

Live == DOMAIN memories

Idle == [op |-> "none", pc |-> "idle", id |-> 0, new |-> NoText,
         facts |-> {}, rest |-> {}, old |-> <<>>, want |-> 0]

Init ==
  /\ memories = <<>>
  /\ nextId = 1
  /\ fts = [i \in Ids |-> [t \in Texts |-> 0]]
  /\ call = [c \in Conns |-> Idle]
  /\ forgotten = {}
  /\ faults = 0

At(c, pc) == call[c].pc = pc
Ready(c, op) == At(c, "idle") /\ op \in Ops
Goto(c, pc) == call' = [call EXCEPT ![c].pc = pc]
Return(c) == call' = [call EXCEPT ![c] = Idle]

FactsOf(S) == UNION {memories[r].facts : r \in S}

(* INSERT INTO memories_fts(rowid, body), and the 'delete' command of the   *)
(* external-content index, which is told the text to take out and never     *)
(* checks that it is there.                                                 *)
FtsAdd(id, text) == fts' = [fts EXCEPT ![id][text] = @ + 1]
FtsDelete(id, text) == fts' = [fts EXCEPT ![id][text] = @ - 1]

(***************************************************************************)
(* save_scoped: insert the row, then index it.  The vector an attached     *)
(* embedder adds is the subject of module Embeddings.                      *)
(***************************************************************************)
InsertRow(c, op, kind, facts, rest) ==
  /\ nextId <= MaxId
  /\ memories' = [r \in Live \cup {nextId} |->
                    IF r = nextId
                    THEN [kind |-> kind, facts |-> facts \cup {nextId},
                          body |-> Original, full |-> NoText, compressed |-> FALSE]
                    ELSE memories[r]]
  /\ nextId' = nextId + 1
  /\ call' = [call EXCEPT ![c] = [Idle EXCEPT !.op = op, !.pc = "index", !.id = nextId,
                                              !.facts = facts, !.rest = rest]]
  /\ UNCHANGED <<fts, forgotten, faults>>

Save(c) == Ready(c, "save") /\ nextId <= MaxSaves /\ InsertRow(c, "save", "note", {}, {})

(* After the index entry a plain save and set_block return; the digest of  *)
(* archive_overflow_no_llm gets its metadata, and compress_project goes on *)
(* to delete what it summarised.                                           *)
IndexRow(c) ==
  /\ At(c, "index")
  /\ FtsAdd(call[c].id, Original)
  /\ CASE call[c].op = "archive" -> Goto(c, "tag")
       [] call[c].op = "compress_project" -> Goto(c, "unindex")
       [] OTHER -> Return(c)
  /\ UNCHANGED <<memories, nextId, forgotten, faults>>

(***************************************************************************)
(* set_block: delete every row of the block, then save the new version.    *)
(* The DELETE says nothing to the full-text index.                         *)
(***************************************************************************)
SetBlock(c) ==
  /\ Ready(c, "set_block")
  /\ nextId <= MaxSaves
  /\ LET gone == {r \in Live : memories[r].kind = "block"} IN
       /\ memories' = Restrict(memories, Live \ gone)
       /\ forgotten' = forgotten \cup FactsOf(gone)
  /\ call' = [call EXCEPT ![c] = [Idle EXCEPT !.op = "set_block", !.pc = "insert"]]
  /\ UNCHANGED <<nextId, fts, faults>>

InsertBlock(c) ==
  /\ At(c, "insert") /\ call[c].op = "set_block"
  /\ InsertRow(c, "set_block", "block", {}, {})

(***************************************************************************)
(* Consolidation.  archive_overflow_no_llm lists the rows that are not     *)
(* digests, compress_project lists them all and waits for a summary; both  *)
(* then save one archival row for the rows beyond the KeepRecent newest    *)
(* and delete those rows one by one, oldest first.                         *)
(***************************************************************************)
Candidates(op) ==
  IF op = "archive" THEN {r \in Live : memories[r].kind # "archival"} ELSE Live

BeyondRecent(S) == {r \in S : Cardinality({s \in S : s > r}) >= KeepRecent}

(* Variant: the whole list is deleted, the digest speaks for its old part.  *)
ConsolidateWholeList(c, op) ==
  /\ Ready(c, op)
  /\ Cardinality(Candidates(op)) > KeepRecent
  /\ call' = [call EXCEPT ![c] = [Idle EXCEPT
                !.op = op, !.pc = "insert", !.rest = Candidates(op),
                !.facts = FactsOf(BeyondRecent(Candidates(op)))]]
  /\ UNCHANGED <<memories, nextId, fts, forgotten, faults>>

Consolidate(c, op) ==
  /\ Ready(c, op)
  /\ Cardinality(Candidates(op)) > KeepRecent
  /\ LET rest == BeyondRecent(Candidates(op)) IN
       call' = [call EXCEPT ![c] = [Idle EXCEPT
                  !.op = op, !.pc = "insert", !.facts = FactsOf(rest), !.rest = rest]]
  /\ UNCHANGED <<memories, nextId, fts, forgotten, faults>>

ArchiveOverflow(c) == Consolidate(c, "archive")
CompressProject(c) == Consolidate(c, "compress_project")

(* Variant: the digest is saved as an ordinary row.                         *)
SaveDigestAsNote(c) ==
  /\ At(c, "insert") /\ call[c].op # "set_block"
  /\ InsertRow(c, call[c].op, "note", call[c].facts, call[c].rest)

SaveDigest(c) ==
  /\ At(c, "insert") /\ call[c].op # "set_block"
  /\ InsertRow(c, call[c].op, "archival", call[c].facts, call[c].rest)

(* save_with_metadata overwrites the whole metadata of the new digest.      *)
TagDigest(c) ==
  /\ At(c, "tag")
  /\ memories' = [r \in Live |-> IF r = call[c].id
                                 THEN [memories[r] EXCEPT !.compressed = FALSE]
                                 ELSE memories[r]]
  /\ Goto(c, "unindex")
  /\ UNCHANGED <<nextId, fts, forgotten, faults>>

Oldest(c, v) == v \in call[c].rest /\ \A w \in call[c].rest : v <= w

(* delete: one statement takes the current text of the row out of the       *)
(* index, doing nothing when the row is gone; the next deletes the row.     *)
DeleteUnindex(c) ==
  /\ At(c, "unindex")
  /\ \E v \in call[c].rest :
       /\ Oldest(c, v)
       /\ IF v \in Live THEN FtsDelete(v, memories[v].body) ELSE UNCHANGED fts
  /\ Goto(c, "remove")
  /\ UNCHANGED <<memories, nextId, forgotten, faults>>

DeleteRemove(c) ==
  /\ At(c, "remove")
  /\ \E v \in call[c].rest :
       /\ Oldest(c, v)
       /\ memories' = Restrict(memories, Live \ {v})
       /\ IF call[c].rest = {v}
          THEN Return(c)
          ELSE call' = [call EXCEPT ![c].pc = "unindex", ![c].rest = @ \ {v}]
  /\ UNCHANGED <<nextId, fts, forgotten, faults>>

(***************************************************************************)
(* The compression sweep: list the rows not yet tagged compressed_at, ask  *)
(* the language model for a shorter text for each, and write it with       *)
(* compress_in_place.  Any row of the list may have changed or gone by     *)
(* then.  A row that fails is skipped, and so are the rows the age, length *)
(* and batch limits leave out.                                             *)
(***************************************************************************)
CompressSweep(c) ==
  /\ Ready(c, "compress")
  /\ LET rest == {r \in Live : ~memories[r].compressed} IN
       /\ rest # {}
       /\ call' = [call EXCEPT ![c] = [Idle EXCEPT !.op = "compress", !.pc = "llm",
                                                   !.rest = rest]]
  /\ UNCHANGED <<memories, nextId, fts, forgotten, faults>>

(* The rest of the sweep once row v is dealt with.                          *)
NextRow(c, v) ==
  IF call[c].rest = {v} THEN Return(c)
  ELSE call' = [call EXCEPT ![c] = [Idle EXCEPT !.op = "compress", !.pc = "llm",
                                                !.rest = call[c].rest \ {v}]]

(* Variant: the original is set aside on every compression.                 *)
CompressReadAlways(c) ==
  /\ At(c, "llm")
  /\ \E v \in call[c].rest, new \in Rewrites :
       /\ Oldest(c, v)
       /\ IF v \in Live
          THEN call' = [call EXCEPT ![c].id = v, ![c].new = new, ![c].pc = "keep"]
          ELSE NextRow(c, v)
  /\ UNCHANGED <<memories, nextId, fts, forgotten, faults>>

(* compress_in_place begins: is the original already kept?                  *)
CompressRead(c) ==
  /\ At(c, "llm")
  /\ \E v \in call[c].rest, new \in Rewrites :
       /\ Oldest(c, v)
       /\ IF v \in Live
          THEN call' = [call EXCEPT ![c] = [call[c] EXCEPT !.id = v, !.new = new,
                          !.pc = IF memories[v].full = NoText THEN "keep" ELSE "read"]]
          ELSE NextRow(c, v)
  /\ UNCHANGED <<memories, nextId, fts, forgotten, faults>>

(* The answer is empty or no shorter: the row is only tagged.  The model    *)
(* fails: the row is skipped.                                               *)
CompressSkip(c) ==
  /\ At(c, "llm")
  /\ \E v \in call[c].rest, tag \in BOOLEAN :
       /\ Oldest(c, v)
       /\ memories' = [r \in Live |-> IF r = v /\ tag
                                      THEN [memories[r] EXCEPT !.compressed = TRUE]
                                      ELSE memories[r]]
       /\ NextRow(c, v)
  /\ UNCHANGED <<nextId, fts, forgotten, faults>>

(* UPDATE memories SET body_full = body: whatever the body is by now.       *)
KeepOriginal(c) ==
  /\ At(c, "keep")
  /\ memories' = [r \in Live |-> IF r = call[c].id
                                 THEN [memories[r] EXCEPT !.full = memories[r].body]
                                 ELSE memories[r]]
  /\ Goto(c, "read")
  /\ UNCHANGED <<nextId, fts, forgotten, faults>>

(* set_body: read the text to take out of the index, write the new one,     *)
(* take the old one out, put the new one in.                                *)
SetBodyRead(c) ==
  /\ At(c, "read")
  /\ IF call[c].id \in Live
     THEN call' = [call EXCEPT ![c].pc = "write",
                     ![c].old = [i \in {call[c].id} |-> memories[i].body]]
     ELSE NextRow(c, call[c].id)
  /\ UNCHANGED <<memories, nextId, fts, forgotten, faults>>

SetBodyWrite(c) ==
  /\ At(c, "write")
  /\ memories' = [r \in Live |-> IF r = call[c].id
                                 THEN [memories[r] EXCEPT !.body = call[c].new]
                                 ELSE memories[r]]
  /\ Goto(c, "unindexOld")
  /\ UNCHANGED <<nextId, fts, forgotten, faults>>

(* Variant: the text to take out is read after the row was rewritten.       *)
SetBodyUnindexNew(c) ==
  /\ At(c, "unindexOld") /\ call[c].op = "compress"
  /\ FtsDelete(call[c].id, call[c].new)
  /\ Goto(c, "indexNew")
  /\ UNCHANGED <<memories, nextId, forgotten, faults>>

SetBodyUnindex(c) ==
  /\ At(c, "unindexOld") /\ call[c].op = "compress"
  /\ FtsDelete(call[c].id, call[c].old[call[c].id])
  /\ Goto(c, "indexNew")
  /\ UNCHANGED <<memories, nextId, forgotten, faults>>

SetBodyIndex(c) ==
  /\ At(c, "indexNew")
  /\ FtsAdd(call[c].id, call[c].new)
  /\ Goto(c, "tagRow")
  /\ UNCHANGED <<memories, nextId, forgotten, faults>>

(* The caller's set_metadata with compressed_at.                            *)
TagCompressed(c) ==
  /\ At(c, "tagRow")
  /\ memories' = [r \in Live |-> IF r = call[c].id
                                 THEN [memories[r] EXCEPT !.compressed = TRUE]
                                 ELSE memories[r]]
  /\ NextRow(c, call[c].id)
  /\ UNCHANGED <<nextId, fts, forgotten, faults>>

(***************************************************************************)
(* Governance deletes.  Both read the texts of the rows, take each out of  *)
(* the index and delete the rows.  delete_rows prepares its DELETE with    *)
(* one placeholder per id asked for and binds one value per row found: the *)
(* statement is refused when the two differ.                               *)
(***************************************************************************)
DeleteRow(c) ==
  /\ Ready(c, "delete_row")
  /\ \E r \in Live :
       call' = [call EXCEPT ![c] = [Idle EXCEPT !.op = "delete_row", !.pc = "unindexOld",
                  !.old = [i \in {r} |-> memories[i].body], !.rest = {r}, !.want = 1]]
  /\ UNCHANGED <<memories, nextId, fts, forgotten, faults>>

(* The handler first checks that every id exists.                           *)
DeleteRows(c) ==
  /\ Ready(c, "delete_rows")
  /\ \E ids \in SUBSET Live, again \in Repeats :
       /\ ids # {}
       /\ call' = [call EXCEPT ![c] = [Idle EXCEPT !.op = "delete_rows", !.pc = "select",
                     !.rest = ids, !.want = Cardinality(ids) + again]]
  /\ UNCHANGED <<memories, nextId, fts, forgotten, faults>>

DeleteRowsSelect(c) ==
  /\ At(c, "select")
  /\ LET found == call[c].rest \cap Live IN
       IF found = {} THEN Return(c)
       ELSE call' = [call EXCEPT ![c] = [call[c] EXCEPT !.pc = "unindexOld",
                       !.rest = found, !.old = [i \in found |-> memories[i].body]]]
  /\ UNCHANGED <<memories, nextId, fts, forgotten, faults>>

GovernedUnindex(c) ==
  /\ At(c, "unindexOld") /\ call[c].op # "compress"
  /\ \E v \in call[c].rest :
       /\ Oldest(c, v)
       /\ FtsDelete(v, call[c].old[v])
       /\ call' = [call EXCEPT ![c] = [call[c] EXCEPT
                     !.pc = IF call[c].rest = {v} THEN "removeRows" ELSE "unindexOld",
                     !.rest = call[c].rest \ {v}]]
  /\ UNCHANGED <<memories, nextId, forgotten, faults>>

Found(c) == DOMAIN call[c].old

BindMatches(c) == call[c].want = Cardinality(Found(c))

GovernedRemove(c) ==
  /\ At(c, "removeRows")
  /\ IF BindMatches(c)
     THEN /\ memories' = Restrict(memories, Live \ Found(c))
          /\ forgotten' = forgotten \cup FactsOf(Found(c) \cap Live)
     ELSE UNCHANGED <<memories, forgotten>>
  /\ Return(c)
  /\ UNCHANGED <<nextId, fts, faults>>

(* The process dies, or the next statement or the summariser fails and the  *)
(* error ends the operation.  What was committed stays.                     *)
Interrupt(c) ==
  /\ ~At(c, "idle")
  /\ faults < MaxFaults
  /\ faults' = faults + 1
  /\ Return(c)
  /\ UNCHANGED <<memories, nextId, fts, forgotten>>

(* What a connection does of itself once an operation has begun.            *)
Step(c) ==
  \/ IndexRow(c) \/ InsertBlock(c)
  \/ SaveDigest(c) \/ TagDigest(c) \/ DeleteUnindex(c) \/ DeleteRemove(c)
  \/ CompressRead(c) \/ CompressSkip(c) \/ KeepOriginal(c)
  \/ SetBodyRead(c) \/ SetBodyWrite(c) \/ SetBodyUnindex(c) \/ SetBodyIndex(c)
  \/ TagCompressed(c)
  \/ DeleteRowsSelect(c) \/ GovernedUnindex(c) \/ GovernedRemove(c)

Begin(c) ==
  \/ Save(c) \/ SetBlock(c) \/ ArchiveOverflow(c) \/ CompressProject(c)
  \/ CompressSweep(c) \/ DeleteRow(c) \/ DeleteRows(c)

Next == \E c \in Conns : Begin(c) \/ Step(c) \/ Interrupt(c)

Spec == Init /\ [][Next]_vars

-----------------------------------------------------------------------------
Rows == [kind : Kinds, facts : SUBSET Ids, body : Texts,
         full : Texts \cup {NoText}, compressed : BOOLEAN]

PCs == {"idle", "index", "insert", "tag", "unindex", "remove", "llm", "keep", "read",
        "write", "unindexOld", "indexNew", "tagRow", "select", "removeRows"}

OldTexts == UNION {[S -> Texts] : S \in SUBSET Ids}

CallRec == [op : OpNames \cup {"none"}, pc : PCs, id : Nat, new : Texts \cup {NoText},
            facts : SUBSET Ids, rest : SUBSET Ids,
            old : OldTexts, want : Nat]

(* The shape of the tables and of the operations in progress; a row always  *)
(* has a text.                                                              *)
TypeOK ==
  /\ Live \subseteq Ids /\ memories \in [Live -> Rows]
  /\ nextId \in 1..(MaxId + 1)
  /\ fts \in [Ids -> [Texts -> Int]]
  /\ call \in [Conns -> CallRec]
  /\ forgotten \subseteq Ids
  /\ faults \in 0..MaxFaults

Carried == FactsOf(Live)

(* "Nothing silently vanishes": a row that was ever saved is, unless it was *)
(* removed on request, still there or spoken for by a digest that is, at    *)
(* every statement boundary, whoever else consolidates and wherever an      *)
(* operation is cut short.                                                  *)
NothingVanishes == \A f \in 1..(nextId - 1) : f \in forgotten \cup Carried

Consolidating(c) == call[c].op \in {"archive", "compress_project"}

(* Why it is true.  What a consolidation is about to delete is older than   *)
(* its digest, the list it works from speaks for all of it, and every fact  *)
(* of that list is carried by a row at least as new as the digest, so that  *)
(* two consolidations can never each delete what the other relies on.       *)
ListCovers(c) ==
  \A r \in call[c].rest \cap Live : memories[r].facts \subseteq call[c].facts

DigestCarries(c) ==
  \A f \in call[c].facts :
    f \in forgotten \/ \E r \in Live : r >= call[c].id /\ f \in memories[r].facts

ConsolidationInv ==
  \A c \in Conns : Consolidating(c) =>
    /\ ListCovers(c)
    /\ \A r \in call[c].rest : r < nextId
    /\ ~At(c, "insert") => DigestCarries(c) /\ \A r \in call[c].rest : r < call[c].id

(* Which statements belong to a consolidation, which of them is given a     *)
(* text to write, and ids that are handed out once.                         *)
PhaseInv ==
  /\ \A c \in Conns : Consolidating(c) <=>
       \/ call[c].pc \in {"tag", "unindex", "remove"}
       \/ At(c, "insert") /\ call[c].op # "set_block"
       \/ At(c, "index") /\ call[c].op \notin {"save", "set_block"}
  /\ \A c \in Conns : call[c].pc \in {"keep", "read", "write"} => call[c].new \in Rewrites
  /\ \A r \in Live : r < nextId

(* The inductive invariant behind the proofs.                               *)
IndInv == TypeOK /\ PhaseInv /\ ConsolidationInv /\ NothingVanishes

AtRest == \A c \in Conns : At(c, "idle")

(* Full-text recall and the table agree whenever the store is at rest and   *)
(* no operation was cut short: one entry per live row, for the text it has  *)
(* now, and none for anything else.                                         *)
IndexExact ==
  AtRest /\ faults = 0 =>
    \A i \in Ids, t \in Texts :
      fts[i][t] = IF i \in Live /\ memories[i].body = t THEN 1 ELSE 0

(* Whatever was compressed, and however often a sweep was cut short, the    *)
(* text set aside in body_full is the one the row was saved with.           *)
OriginalKept == \A r \in Live : memories[r].full \in {NoText, Original}

(* A sweep of the daemon that has the store to itself and runs to its end   *)
(* leaves no more than KeepRecent rows to consolidate: its own digest does  *)
(* not feed the next sweep.                                                 *)
SweepSettles ==
  [][\A c \in Conns :
        call[c].op = "archive" /\ At(c, "remove") /\ At(c, "idle")' /\ faults' = faults
          => Cardinality(Candidates("archive")') <= KeepRecent]_vars

=============================================================================
