-------------------------- MODULE SchemaMigration --------------------------
(***************************************************************************)
(* Opening the memory store (crates/rtrt-memory/src/lib.rs).  Every open   *)
(* brings the file up to date: it creates what is missing, reads the       *)
(* version once, runs the batches above it and, for the store of a         *)
(* project, binds the file to the project's identity.  The command line,   *)
(* every hook of an agent, the MCP server and the dashboard open the same  *)
(* file with connections of their own, without a lock and outside a        *)
(* transaction, so each statement of a batch commits by itself.            *)
(*                                                                         *)
(* One action is one SQL statement or system call.  The schema is the set  *)
(* of its tables, indexes and added columns.  The backfill of the registry *)
(* of dimensions, between the first batch and the version, is in           *)
(* Embeddings (Open).                                                      *)
(***************************************************************************)
EXTENDS Naturals, Sequences

CONSTANTS
  Openers,      \* connections
  Identities,   \* identities of projects that resolve to this file
  NoIdentity,   \* an open by path; a file that is not bound
  MaxFaults     \* bound on failed statements and deaths

ASSUME OpenAssumption == NoIdentity \notin Identities /\ MaxFaults \in Nat

VARIABLES
  exists,       \* the file is there
  schema,       \* tables, indexes and added columns
  version,      \* PRAGMA user_version
  identity,     \* row of table store_identity
  opener,       \* what each connection is doing
  faults,       \* faults so far
  cut,          \* history: an open ended between an ADD COLUMN and its stamp
  lowered       \* history: a stamp took the version below an added column

file == <<exists, schema, version, identity>>
history == <<faults, cut, lowered>>
storeVars == <<exists, schema, version, identity, opener, faults, cut, lowered>>

-----------------------------------------------------------------------------
Make(o) == [op |-> "make", obj |-> o, ver |-> 0]
Add(o) == [op |-> "add", obj |-> o, ver |-> 0]
Stamp(v) == [op |-> "stamp", obj |-> "user_version", ver |-> v]

(* The first batch runs always, batch k if the version read was below k.    *)
Batches == <<
  << Make("store_identity"), Make("memories"), Make("idx_memories_project"),
     Make("memories_fts"), Make("embeddings"), Make("embedding_models"), Make("edges") >>,
  << Add("scope"), Make("idx_memories_scope"), Stamp(2) >>,
  << Add("metadata"), Stamp(3) >>,
  << Add("session_id"), Add("body_sha"),
     Make("idx_memories_session"), Make("idx_memories_body_sha"), Stamp(4) >>,
  << Make("idx_memories_timeline"), Stamp(5) >>,
  << Add("body_full"), Stamp(6) >>,
  << Make("entities"), Make("memory_entities"), Make("idx_memory_entities_entity"),
     Make("idx_memory_entities_memory"), Stamp(7) >>,
  << Make("invocation_provenance"), Make("idx_invocation_provenance_parent"),
     Make("idx_invocation_provenance_invocation"), Stamp(8) >>,
  << Make("forwarded_event_receipts"), Make("idx_forwarded_receipts_memory"), Stamp(9) >> >>

SchemaVersion == Len(Batches)

Objects(k) == {s.obj : s \in {Batches[k][i] : i \in DOMAIN Batches[k]} \ {Stamp(k)}}
Columns(k) == {s.obj : s \in {Batches[k][i] : i \in {j \in DOMAIN Batches[k] : Batches[k][j].op = "add"}}}
UpTo(k) == UNION {Objects(j) : j \in 1..k}

(* Tables that later releases added to the first batch.                     *)
Late == {"store_identity", "embedding_models"}

NotOpen == [pc |-> "closed", who |-> NoIdentity, batch |-> 1, pos |-> 1]

(* No file, or one that some release left, bound to a project or not.       *)
FileInit ==
  /\ \/ exists = FALSE /\ schema = {} /\ version = 0 /\ identity = NoIdentity
     \/ /\ exists = TRUE
        /\ version \in {0} \union 2..SchemaVersion
        /\ \E L \in SUBSET Late :
             /\ schema = UpTo(IF version = 0 THEN 1 ELSE version) \ L
             /\ identity \in (IF "store_identity" \in L THEN {} ELSE Identities) \union {NoIdentity}
  /\ opener = [c \in Openers |-> NotOpen]
  /\ faults = 0 /\ cut = FALSE /\ lowered = FALSE

-----------------------------------------------------------------------------
OpenerAt(c, pc) == opener[c].pc = pc
OpenerGoto(c, pc) == opener' = [opener EXCEPT ![c] = [opener[c] EXCEPT !.pc = pc]]
Fail(c) == opener' = [opener EXCEPT ![c] = NotOpen]

(* open_project and open: only the first insists on a private file and      *)
(* binds it; SQLite creates the file of the second.                         *)
OpenStore(c) ==
  /\ OpenerAt(c, "closed")
  /\ \/ /\ \E w \in Identities : opener' = [opener EXCEPT ![c] = [NotOpen EXCEPT !.pc = "stat", !.who = w]]
        /\ UNCHANGED exists
     \/ OpenerGoto(c, "run") /\ exists' = TRUE
  /\ UNCHANGED <<schema, version, identity, history>>

StatFile(c) ==
  /\ OpenerAt(c, "stat")
  /\ OpenerGoto(c, IF exists THEN "run" ELSE "create")
  /\ UNCHANGED <<file, history>>

(* create_new: who comes second fails.                                      *)
CreateFile(c) ==
  /\ OpenerAt(c, "create")
  /\ IF exists THEN Fail(c) ELSE OpenerGoto(c, "run")
  /\ exists' = TRUE
  /\ UNCHANGED <<schema, version, identity, history>>

-----------------------------------------------------------------------------
Statement(c) == Batches[opener[c].batch][opener[c].pos]

(* After the last batch a project's store is bound; an open by path ends.   *)
Ready(o) == [o EXCEPT !.pc = IF o.who = NoIdentity THEN "open" ELSE "bind", !.batch = 1, !.pos = 1]

(* Variant: the last batch is not the end.                                  *)
FollowingWithoutEnd(o) ==
  IF o.pos < Len(Batches[o.batch]) THEN [o EXCEPT !.pos = o.pos + 1]
  ELSE IF o.batch = 1 THEN [o EXCEPT !.pc = "version"]
  ELSE [o EXCEPT !.batch = o.batch + 1, !.pos = 1]

(* What comes after a statement.                                            *)
Following(o) ==
  IF o.pos < Len(Batches[o.batch]) THEN [o EXCEPT !.pos = o.pos + 1]
  ELSE IF o.batch = 1 THEN [o EXCEPT !.pc = "version"]
  ELSE IF o.batch = SchemaVersion THEN Ready(o)
  ELSE [o EXCEPT !.batch = o.batch + 1, !.pos = 1]

Advance(c) == opener' = [opener EXCEPT ![c] = Following(opener[c])]

(* CREATE ... IF NOT EXISTS.                                                *)
CreateIfMissing(c) ==
  /\ OpenerAt(c, "run") /\ Statement(c).op = "make"
  /\ schema' = schema \union {Statement(c).obj}
  /\ Advance(c)
  /\ UNCHANGED <<exists, version, identity, history>>

(* ALTER TABLE ... ADD COLUMN has no IF NOT EXISTS: a second one fails, and *)
(* the open with it.                                                        *)
AddColumn(c) ==
  /\ OpenerAt(c, "run") /\ Statement(c).op = "add"
  /\ IF Statement(c).obj \in schema
     THEN Fail(c) /\ UNCHANGED schema
     ELSE Advance(c) /\ schema' = schema \union {Statement(c).obj}
  /\ UNCHANGED <<exists, version, identity, history>>

(* Variant: each batch stamps the version before its own.                   *)
StampOneBehind(c) ==
  /\ OpenerAt(c, "run") /\ Statement(c).op = "stamp"
  /\ version' = Statement(c).ver - 1
  /\ Advance(c)
  /\ UNCHANGED <<exists, schema, identity, history>>

(* PRAGMA user_version = k, whatever the version is by now.                 *)
StampVersion(c) ==
  /\ OpenerAt(c, "run") /\ Statement(c).op = "stamp"
  /\ version' = Statement(c).ver
  /\ lowered' = (lowered \/ \E k \in version' + 1 .. version : Columns(k) # {})
  /\ Advance(c)
  /\ UNCHANGED <<exists, schema, identity, faults, cut>>

(* Variant: one batch too few.                                              *)
FirstBatchSkips(v) == IF v < 2 THEN 2 ELSE v + 2
FirstBatch(v) == IF v < 2 THEN 2 ELSE v + 1

(* Only the batches above the version run.                                  *)
FirstFor(o, v) ==
  IF FirstBatch(v) > SchemaVersion THEN Ready(o) ELSE [o EXCEPT !.pc = "run", !.batch = FirstBatch(v), !.pos = 1]

Start(c, v) == opener' = [opener EXCEPT ![c] = FirstFor(opener[c], v)]

(* Variant: the version is not read.                                        *)
ReadVersionNever(c) ==
  /\ OpenerAt(c, "version")
  /\ Start(c, 0)
  /\ UNCHANGED <<file, history>>

(* The version is read once for all batches.                                *)
ReadVersion(c) ==
  /\ OpenerAt(c, "version")
  /\ Start(c, version)
  /\ UNCHANGED <<file, history>>

(* A version that cannot be read is taken for 0.                            *)
VersionUnread(c) ==
  /\ OpenerAt(c, "version")
  /\ faults < MaxFaults /\ faults' = faults + 1
  /\ Start(c, 0)
  /\ UNCHANGED <<file, cut, lowered>>

-----------------------------------------------------------------------------
(* Variant: INSERT OR REPLACE.                                              *)
BindIdentityReplace(c) ==
  /\ OpenerAt(c, "bind")
  /\ identity' = opener[c].who
  /\ OpenerGoto(c, "check")
  /\ UNCHANGED <<exists, schema, version, history>>

(* INSERT OR IGNORE: the first identity stays.                              *)
BindIdentity(c) ==
  /\ OpenerAt(c, "bind")
  /\ identity' = IF identity = NoIdentity THEN opener[c].who ELSE identity
  /\ OpenerGoto(c, "check")
  /\ UNCHANGED <<exists, schema, version, history>>

(* The row is read back: another project's file is refused.                 *)
CheckIdentity(c) ==
  /\ OpenerAt(c, "check")
  /\ IF identity = opener[c].who THEN OpenerGoto(c, "open") ELSE Fail(c)
  /\ UNCHANGED <<file, history>>

CloseStore(c) ==
  /\ OpenerAt(c, "open")
  /\ Fail(c)
  /\ UNCHANGED <<file, history>>

(* Some column of the batch is added and its stamp not yet written.         *)
InGap(c) ==
  OpenerAt(c, "run") /\ \E i \in 1 .. opener[c].pos - 1 : Batches[opener[c].batch][i].op = "add"

(* A statement fails (the file stays locked, the disk is full) or the       *)
(* process dies.                                                            *)
Die(c) ==
  /\ opener[c].pc \notin {"closed", "open"}
  /\ faults < MaxFaults /\ faults' = faults + 1
  /\ cut' = (cut \/ InGap(c))
  /\ Fail(c)
  /\ UNCHANGED <<file, lowered>>

Step(c) ==
  \/ StatFile(c) \/ CreateFile(c)
  \/ CreateIfMissing(c) \/ AddColumn(c) \/ StampVersion(c) \/ ReadVersion(c)
  \/ BindIdentity(c) \/ CheckIdentity(c)

OpenNext == \E c \in Openers : OpenStore(c) \/ Step(c) \/ VersionUnread(c) \/ CloseStore(c) \/ Die(c)

OpenSpec == FileInit /\ [][OpenNext]_storeVars

(* An open runs to its end, a connection is closed at last, and there is    *)
(* always a next command or hook that opens the store.                      *)
FairOpenSpec == OpenSpec /\ \A c \in Openers : WF_storeVars(OpenStore(c)) /\ WF_storeVars(Step(c)) /\ WF_storeVars(CloseStore(c))

-----------------------------------------------------------------------------
(* Shape of the file and of the opens in progress.                          *)
StoreTypeOK ==
  /\ exists \in BOOLEAN /\ cut \in BOOLEAN /\ lowered \in BOOLEAN
  /\ schema \subseteq UpTo(SchemaVersion)
  /\ version \in 0..SchemaVersion
  /\ identity \in Identities \union {NoIdentity}
  /\ faults \in 0..MaxFaults
  /\ \A c \in Openers :
       /\ opener[c].pc \in {"closed", "stat", "create", "run", "version", "bind", "check", "open"}
       /\ opener[c].who \in Identities \union {NoIdentity}
       /\ opener[c].batch \in 1..SchemaVersion
       /\ opener[c].pos \in 1 .. Len(Batches[opener[c].batch])

(* Whoever has the store open finds every table and column its statements   *)
(* name, although it ran only the batches above a version that others raise *)
(* and lower meanwhile.                                                     *)
OpenedIsComplete == \A c \in Openers : OpenerAt(c, "open") => UpTo(SchemaVersion) \subseteq schema

(* A project's connection is on its own project's file as long as it is     *)
(* open, however first opens of several projects race for the binding.      *)
OwnProjectOnly ==
  \A c \in Openers : OpenerAt(c, "open") /\ opener[c].who # NoIdentity => identity = opener[c].who

(* An open that has the file to itself succeeds: the columns it will add    *)
(* are not there.                                                           *)
Openable == \A k \in 2..SchemaVersion : version < k => Columns(k) \intersect schema = {}

(* There are two ways only to leave a file that no later open accepts, an   *)
(* open cut short within a batch that adds columns and a stamp that lowers  *)
(* the version: an open that merely loses the race for a file, a column or  *)
(* the binding fails without harm.                                          *)
RefusedOnlyIfHurt ==
  ~Openable => cut \/ lowered \/ \E c \in Openers : InGap(c)

(* "Every memory store from v0.1.0 onward must open in every future         *)
(* version": while nobody is opening it, a store can be opened.             *)
StoreOpens ==
  (\A c \in Openers : opener[c].pc \in {"closed", "open"}) => Openable

(* A file that is not hurt in one of these ways is brought up to date,      *)
(* however often opens fail on each other.                                  *)
Upgraded == [](~cut /\ ~lowered) => <>(version = SchemaVersion)
=============================================================================
