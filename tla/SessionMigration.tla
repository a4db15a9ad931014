--------------------------- MODULE SessionMigration ---------------------------
(***************************************************************************)
(* Migration of OpenCode's global session graph into private stores.       *)
(*                                                                         *)
(* `rtrt opencode sessions apply` and the catch-up every `rtrt opencode`   *)
(* launch runs first copy the global SQLite graph, session by session,     *)
(* into one private database per project, and what cannot be attributed    *)
(* into "legacy-global".  A migration holds an operation lock, brackets    *)
(* its read with the generation stamp of the source, merges destination    *)
(* after destination and records the generation in a manifest last.  All   *)
(* the while OpenCode writes the global store directly, and the OpenCode   *)
(* children of other launches write their private stores, whose rows the   *)
(* migration must never replace.  Any command may die between two steps.   *)
(*                                                                         *)
(* A store holds keyed rows and, per session, an event history.  A session *)
(* is named by the key of its own row; its messages, parts and other rows  *)
(* are further keys it owns.                                               *)
(***************************************************************************)
EXTENDS Naturals, Sequences, FiniteSets, SequencesExt

CONSTANTS
    Sessions,     \* session ids
    Keys,         \* primary keys of the rows of the graph
    Owner,        \* key -> the session whose graph the row belongs to
    Vals,         \* contents of a row
    Events,       \* rows of the event table
    Dests,        \* private stores: one per project, and Legacy
    Legacy,       \* "legacy-global"
    Direct,       \* session -> the store its directory, workspace or project names
    Parent,       \* session -> the session it was started from
    WellFormed,   \* the ids that start with "ses_"
    Cmds,         \* commands that may run at the same time
    Launches,     \* those that are launches; the others are `sessions apply`
    ProjectOf,    \* launch -> the store of its project
    Missing,      \* the stores that do not exist at first
    NoRow, NoDest, NoParent, NoCmd,
    ReadTries,    \* readings of a source that keeps changing (3 in the code)
    MaxRuns,      \* bound: times one command is started
    MaxWrites,    \* bound: writes of OpenCode, to the source and to private stores
    MaxFaults     \* bound: commands that die

ASSUME GraphAssumption ==
    /\ Sessions \subseteq Keys
    /\ IsFiniteSet(Sessions)
    /\ Owner \in [Keys -> Sessions]
    /\ \A s \in Sessions : Owner[s] = s
    /\ NoRow \notin Vals

ASSUME RouteAssumption ==
    /\ Legacy \in Dests
    /\ NoDest \notin Dests
    /\ NoParent \notin Sessions
    /\ Direct \in [Sessions -> Dests \union {NoDest}]
    /\ Parent \in [Sessions -> Sessions \union {NoParent}]
    /\ WellFormed \subseteq Sessions

ASSUME CommandAssumption ==
    /\ NoCmd \notin Cmds
    /\ Launches \subseteq Cmds
    /\ ProjectOf \in [Launches -> Dests \ {Legacy}]
    /\ Missing \subseteq Dests
    /\ ReadTries \in Nat \ {0}
    /\ MaxRuns \in Nat
    /\ MaxWrites \in Nat
    /\ MaxFaults \in Nat

VARIABLES
    source,    \* the global store
    gen,       \* its generation: what source_generation stamps
    manifest,  \* the generation opencode-session-migration.json records
    lock,      \* the command that holds the operation lock
    store,     \* the private store at each destination's path
    inode,     \* the file at that path, 0 when there is none
    forks,     \* rtrt-event-forks.sqlite beside each store
    cmd,       \* the state of each command
    runs, writes, faults,
    private,   \* history: what the children have committed to each store
    deleted    \* history: sessions the children have deleted from each store

vars == <<source, gen, manifest, lock, store, inode, forks, cmd,
          runs, writes, faults, private, deleted>>

NoGen == 0

Store == [rows : [Keys -> Vals \union {NoRow}], hist : [Sessions -> Seq(Events)]]

EmptyStore == [rows |-> [k \in Keys |-> NoRow], hist |-> [s \in Sessions |-> <<>>]]

IdleCmd == [pc |-> "idle", before |-> NoGen, snap |-> EmptyStore, tries |-> 0,
            todo |-> {}, dest |-> NoDest, handle |-> 0]

Migrating == {"lock", "check", "before", "read", "after", "merge", "publish"}

Command ==
    [pc : Migrating \union {"idle", "launch", "child"}, before : Nat, snap : Store,
     tries : 0..ReadTries, todo : SUBSET Dests, dest : Dests \union {NoDest}, handle : Nat]

TypeOK ==
    /\ source \in Store
    /\ gen \in Nat \ {0}
    /\ manifest \in Nat
    /\ lock \in Cmds \union {NoCmd}
    /\ store \in [Dests -> Store]
    /\ inode \in [Dests -> Nat]
    /\ forks \in [Dests -> SUBSET (Sessions \X Seq(Events))]
    /\ cmd \in [Cmds -> Command]
    /\ runs \in [Cmds -> Nat]
    /\ writes \in Nat
    /\ faults \in Nat
    /\ private \in [Dests -> Store]
    /\ deleted \in [Dests -> SUBSET Sessions]

Init ==
    /\ source = EmptyStore
    /\ gen = 1
    /\ manifest = NoGen
    /\ lock = NoCmd
    /\ store = [d \in Dests |-> EmptyStore]
    /\ inode = [d \in Dests |-> IF d \in Missing THEN 0 ELSE 1]
    /\ forks = [d \in Dests |-> {}]
    /\ cmd = [c \in Cmds |-> IdleCmd]
    /\ runs = [c \in Cmds |-> 0]
    /\ writes = 0
    /\ faults = 0
    /\ private = [d \in Dests |-> EmptyStore]
    /\ deleted = [d \in Dests |-> {}]

-----------------------------------------------------------------------------
(* Routing. *)

Present(st) == {s \in Sessions : st.rows[s] # NoRow}

\* Where quarantine starts.  The first disjunct looks only at the sessions
\* that were routed directly: the map the code filters holds no others yet.
MalformedSeeds(st) ==
    {s \in Present(st) : \/ Direct[s] # NoDest /\ s \notin WellFormed
                         \/ Parent[s] \in Sessions \ WellFormed}

\* The least set that holds the seeds and, with a session, its children.
MalformedSessions(st) ==
    LET Closed(T) == \A t \in Present(st) : Parent[t] \in T => t \in T
        seeds == MalformedSeeds(st)
    IN  {s \in Present(st) :
            \A T \in SUBSET Present(st) : seeds \subseteq T /\ Closed(T) => s \in T}

\* Only catch-up sets malformed sessions aside.
Quarantined(c, st) == IF c \in Launches THEN MalformedSessions(st) ELSE {}

\* The routes before inheritance, and one pass of inheritance from the parents.
FirstRoutes(st, aside) ==
    [s \in Sessions |-> IF s \in aside THEN Legacy
                        ELSE IF s \in Present(st) THEN Direct[s] ELSE NoDest]

InheritOnce(st, route) ==
    [s \in Sessions |-> IF route[s] = NoDest /\ s \in Present(st) /\ Parent[s] \in Sessions
                        THEN route[Parent[s]] ELSE route[s]]

\* As many passes as there are sessions.
InheritedRoutes(st, aside) ==
    LET After[n \in 0..Cardinality(Sessions)] ==
            IF n = 0 THEN FirstRoutes(st, aside) ELSE InheritOnce(st, After[n-1])
    IN  After[Cardinality(Sessions)]

RouteSessions(st, aside) ==
    LET route == InheritedRoutes(st, aside)
    IN  [s \in Sessions |-> IF route[s] = NoDest THEN Legacy ELSE route[s]]

\* A source without a session still makes a plan, for Legacy alone.
DestinationsOf(st, aside) ==
    LET route == RouteSessions(st, aside)
    IN  {d \in Dests : \/ \E s \in Present(st) : route[s] = d
                       \/ d = Legacy /\ Present(st) = {}}

\* What of the source goes to d.
SelectRows(st, aside, d) ==
    LET route == RouteSessions(st, aside)
        going == {s \in Present(st) \ aside : route[s] = d}
    IN  [rows |-> [k \in Keys |-> IF Owner[k] \in going THEN st.rows[k] ELSE NoRow],
         hist |-> [s \in Sessions |-> IF s \in going THEN st.hist[s] ELSE <<>>]]

-----------------------------------------------------------------------------
(* Merging. *)

EventIds(st) == UNION {Range(st.hist[s]) : s \in Sessions}

ForkedFirst(h, p) == \E i \in 1..Len(h) : i <= Len(p) /\ h[i] # p[i]

\* Mutant of Forked: only the common part is compared.
ForkedCommonOnly(st, sel, s) == ForkedFirst(sel.hist[s], st.hist[s])

\* The selected history of s disagrees with the private one, or what it adds
\* uses an event id the store already has.
Forked(st, sel, s) ==
    \/ ForkedFirst(sel.hist[s], st.hist[s])
    \/ \E i \in 1..Len(sel.hist[s]) :
          i > Len(st.hist[s]) /\ sel.hist[s][i] \in EventIds(st)

ForksOf(st, sel) == {<<s, sel.hist[s]>> : s \in {t \in Sessions : Forked(st, sel, t)}}

\* Mutant of MergeEventGraph: the whole longer history is appended, not its tail.
MergeEventGraphWhole(st, sel) ==
    [s \in Sessions |-> IF ~Forked(st, sel, s) /\ Len(sel.hist[s]) > Len(st.hist[s])
                        THEN st.hist[s] \o sel.hist[s] ELSE st.hist[s]]

MergeEventGraph(st, sel) ==
    [s \in Sessions |-> IF ~Forked(st, sel, s) /\ Len(sel.hist[s]) > Len(st.hist[s])
                        THEN sel.hist[s] ELSE st.hist[s]]

\* Mutant of InsertOrCompare: a row of the source replaces the private one.
InsertOrReplace(st, sel) ==
    [k \in Keys |-> IF sel.rows[k] # NoRow THEN sel.rows[k] ELSE st.rows[k]]

\* insert_or_compare: a row the store has stays, whatever it says.
InsertOrCompare(st, sel) ==
    [k \in Keys |-> IF st.rows[k] # NoRow THEN st.rows[k] ELSE sel.rows[k]]

MergeInto(st, sel) == [rows |-> InsertOrCompare(st, sel), hist |-> MergeEventGraph(st, sel)]

-----------------------------------------------------------------------------
(* A command. *)

Goto(c, pc) == cmd' = [cmd EXCEPT ![c] = [cmd[c] EXCEPT !.pc = pc]]

\* What follows the migration: a launch goes on whatever came of its catch-up.
Leave(c) ==
    cmd' = [cmd EXCEPT ![c] = [IdleCmd EXCEPT !.pc = IF c \in Launches THEN "launch" ELSE "idle"]]

Die(c) == cmd' = [cmd EXCEPT ![c] = IdleCmd]

Release(c) == lock' = IF lock = c THEN NoCmd ELSE lock

\* run_opencode_launcher first makes sure that its own store exists.
Start(c) ==
    /\ cmd[c].pc = "idle"
    /\ runs[c] < MaxRuns
    /\ runs' = [runs EXCEPT ![c] = runs[c] + 1]
    /\ inode' = [d \in Dests |-> IF c \in Launches /\ d = ProjectOf[c] /\ inode[d] = 0
                                 THEN 1 ELSE inode[d]]
    /\ Goto(c, "lock")
    /\ UNCHANGED <<source, gen, manifest, lock, store, forks, writes, faults, private, deleted>>

AcquireLock(c) ==
    /\ cmd[c].pc = "lock"
    /\ lock = NoCmd
    /\ lock' = c
    /\ Goto(c, IF c \in Launches THEN "check" ELSE "before")
    /\ UNCHANGED <<source, gen, manifest, store, inode, forks, runs, writes, faults,
                   private, deleted>>

\* The busy timeout ends: catch-up is skipped, apply gives an error.
LockTimesOut(c) ==
    /\ cmd[c].pc = "lock"
    /\ lock # NoCmd
    /\ Leave(c)
    /\ UNCHANGED <<source, gen, manifest, lock, store, inode, forks, runs, writes, faults,
                   private, deleted>>

CheckManifest(c) ==
    /\ cmd[c].pc = "check"
    /\ IF manifest = gen THEN Leave(c) /\ Release(c)
       ELSE Goto(c, "before") /\ UNCHANGED lock
    /\ UNCHANGED <<source, gen, manifest, store, inode, forks, runs, writes, faults,
                   private, deleted>>

StampBefore(c) ==
    /\ cmd[c].pc = "before"
    /\ cmd' = [cmd EXCEPT ![c] = [cmd[c] EXCEPT !.pc = "read", !.before = gen,
                                               !.tries = cmd[c].tries + 1]]
    /\ UNCHANGED <<source, gen, manifest, lock, store, inode, forks, runs, writes, faults,
                   private, deleted>>

\* One read transaction: a committed state of the source.
ReadSource(c) ==
    /\ cmd[c].pc = "read"
    /\ cmd' = [cmd EXCEPT ![c] = [cmd[c] EXCEPT !.pc = "after", !.snap = source]]
    /\ UNCHANGED <<source, gen, manifest, lock, store, inode, forks, runs, writes, faults,
                   private, deleted>>

StampAfter(c) ==
    /\ cmd[c].pc = "after"
    /\ \/ /\ gen = cmd[c].before
          /\ cmd' = [cmd EXCEPT ![c] = [cmd[c] EXCEPT !.pc = "merge",
                        !.todo = DestinationsOf(cmd[c].snap, Quarantined(c, cmd[c].snap))]]
          /\ UNCHANGED lock
       \/ /\ gen # cmd[c].before
          /\ cmd[c].tries < ReadTries
          /\ Goto(c, "before")
          /\ UNCHANGED lock
       \/ /\ gen # cmd[c].before
          /\ cmd[c].tries >= ReadTries
          /\ Leave(c)
          /\ Release(c)
    /\ UNCHANGED <<source, gen, manifest, store, inode, forks, runs, writes, faults,
                   private, deleted>>

Selection(c, d) == SelectRows(cmd[c].snap, Quarantined(c, cmd[c].snap), d)

\* A destination that exists: the forks are filed in their own database, then
\* one transaction merges the rest.
MergeExisting(c, d) ==
    /\ cmd[c].pc = "merge"
    /\ d \in cmd[c].todo
    /\ inode[d] # 0
    /\ forks' = [forks EXCEPT ![d] = forks[d] \union ForksOf(store[d], Selection(c, d))]
    /\ store' = [store EXCEPT ![d] = MergeInto(store[d], Selection(c, d))]
    /\ cmd' = [cmd EXCEPT ![c] = [cmd[c] EXCEPT !.todo = cmd[c].todo \ {d}]]
    /\ UNCHANGED <<source, gen, manifest, lock, inode, runs, writes, faults, private, deleted>>

\* The transaction is refused (a busy store, a schema conflict, a check that
\* fails), or the process dies in it: the rows are as before, and so many of
\* the forks as were filed stay.
MergeRollsBack(c, d) ==
    /\ cmd[c].pc = "merge"
    /\ d \in cmd[c].todo
    /\ faults < MaxFaults
    /\ faults' = faults + 1
    /\ \E filed \in SUBSET ForksOf(IF inode[d] # 0 THEN store[d] ELSE EmptyStore, Selection(c, d)) :
          forks' = [forks EXCEPT ![d] = forks[d] \union filed]
    /\ Leave(c) \/ Die(c)
    /\ Release(c)
    /\ UNCHANGED <<source, gen, manifest, store, inode, runs, writes, private, deleted>>

\* A destination that does not exist is built beside its path ...
MergeStaged(c, d) ==
    /\ cmd[c].pc = "merge"
    /\ d \in cmd[c].todo
    /\ inode[d] = 0
    /\ cmd' = [cmd EXCEPT ![c] = [cmd[c] EXCEPT !.pc = "publish", !.dest = d]]
    /\ UNCHANGED <<source, gen, manifest, lock, store, inode, forks, runs, writes, faults,
                   private, deleted>>

\* ... and renamed over it.
Publish(c) ==
    /\ cmd[c].pc = "publish"
    /\ LET d == cmd[c].dest IN
          /\ store' = [store EXCEPT ![d] = MergeInto(EmptyStore, Selection(c, d))]
          /\ inode' = [inode EXCEPT ![d] = inode[d] + 1]
          /\ cmd' = [cmd EXCEPT ![c] = [cmd[c] EXCEPT !.pc = "merge", !.dest = NoDest,
                                                     !.todo = cmd[c].todo \ {d}]]
    /\ UNCHANGED <<source, gen, manifest, lock, forks, runs, writes, faults, private, deleted>>

\* Mutant of WriteManifest: the generation is stamped anew, not the one read.
WriteManifestNow(c) ==
    /\ cmd[c].pc = "merge"
    /\ cmd[c].todo = {}
    /\ manifest' = gen
    /\ Leave(c)
    /\ Release(c)
    /\ UNCHANGED <<source, gen, store, inode, forks, runs, writes, faults, private, deleted>>

WriteManifest(c) ==
    /\ cmd[c].pc = "merge"
    /\ cmd[c].todo = {}
    /\ manifest' = cmd[c].before
    /\ Leave(c)
    /\ Release(c)
    /\ UNCHANGED <<source, gen, store, inode, forks, runs, writes, faults, private, deleted>>

\* The process ends anywhere; SQLite drops the exclusive transaction with it.
Crash(c) ==
    /\ cmd[c].pc # "idle"
    /\ faults < MaxFaults
    /\ faults' = faults + 1
    /\ Die(c)
    /\ Release(c)
    /\ UNCHANGED <<source, gen, manifest, store, inode, forks, runs, writes, private, deleted>>

-----------------------------------------------------------------------------
(* OpenCode. *)

StartChild(c) ==
    /\ cmd[c].pc = "launch"
    /\ cmd' = [cmd EXCEPT ![c] = [cmd[c] EXCEPT !.pc = "child", !.handle = inode[ProjectOf[c]]]]
    /\ UNCHANGED <<source, gen, manifest, lock, store, inode, forks, runs, writes, faults,
                   private, deleted>>

\* Rows reference their session.
SetRow(st, k, v) == [st EXCEPT !.rows = [st.rows EXCEPT ![k] = v]]
Writable(st, k) == k \in Sessions \/ st.rows[Owner[k]] # NoRow

AppendEvent(st, s, e) == [st EXCEPT !.hist = [st.hist EXCEPT ![s] = Append(st.hist[s], e)]]
Appendable(st, s, e) == st.rows[s] # NoRow /\ e \notin EventIds(st)

DropSession(st, s) ==
    [rows |-> [k \in Keys |-> IF Owner[k] = s THEN NoRow ELSE st.rows[k]],
     hist |-> [st.hist EXCEPT ![s] = <<>>]]

\* The child's connection writes the file it opened, which is the store only
\* as long as that file is at the path.
ChildWrites(c, Mine, Theirs) ==
    /\ cmd[c].pc = "child"
    /\ writes < MaxWrites
    /\ writes' = writes + 1
    /\ private' = [private EXCEPT ![ProjectOf[c]] = Mine]
    /\ store' = [store EXCEPT ![ProjectOf[c]] =
                    IF cmd[c].handle = inode[ProjectOf[c]] THEN Theirs ELSE store[ProjectOf[c]]]
    /\ UNCHANGED <<source, gen, manifest, lock, inode, forks, cmd, runs, faults>>

ChildSetRow(c, k, v) ==
    LET d == ProjectOf[c] IN
    /\ Writable(store[d], k)
    /\ ChildWrites(c, SetRow(private[d], k, v), SetRow(store[d], k, v))
    /\ UNCHANGED deleted

\* What the child appends to is the whole history, merged events included:
\* from then on it is the private history of the session.
ChildAppend(c, s, e) ==
    LET d == ProjectOf[c] IN
    /\ Appendable(store[d], s, e)
    /\ ChildWrites(c, [private[d] EXCEPT !.hist = [private[d].hist EXCEPT ![s] =
                                        Append(store[d].hist[s], e)]],
                      AppendEvent(store[d], s, e))
    /\ UNCHANGED deleted

ChildDelete(c, s) ==
    LET d == ProjectOf[c] IN
    /\ store[d].rows[s] # NoRow
    /\ ChildWrites(c, DropSession(private[d], s), DropSession(store[d], s))
    /\ deleted' = [deleted EXCEPT ![d] = deleted[d] \union {s}]

ChildExit(c) ==
    /\ cmd[c].pc = "child"
    /\ Die(c)
    /\ UNCHANGED <<source, gen, manifest, lock, store, inode, forks, runs, writes, faults,
                   private, deleted>>

\* OpenCode started directly writes the global store.
SourceWrites(st) ==
    /\ writes < MaxWrites
    /\ writes' = writes + 1
    /\ source' = st
    /\ gen' = gen + 1
    /\ UNCHANGED <<manifest, lock, store, inode, forks, cmd, runs, faults, private, deleted>>

SourceSetRow(k, v) == Writable(source, k) /\ SourceWrites(SetRow(source, k, v))
SourceAppend(s, e) == Appendable(source, s, e) /\ SourceWrites(AppendEvent(source, s, e))
SourceDelete(s) == source.rows[s] # NoRow /\ SourceWrites(DropSession(source, s))

-----------------------------------------------------------------------------
MigrationStep(c) ==
    \/ AcquireLock(c)
    \/ LockTimesOut(c)
    \/ CheckManifest(c)
    \/ StampBefore(c)
    \/ ReadSource(c)
    \/ StampAfter(c)
    \/ \E d \in Dests : MergeExisting(c, d) \/ MergeStaged(c, d)
    \/ Publish(c)
    \/ WriteManifest(c)

ChildStep(c) ==
    \/ \E k \in Keys, v \in Vals : ChildSetRow(c, k, v)
    \/ \E s \in Sessions, e \in Events : ChildAppend(c, s, e)
    \/ \E s \in Sessions : ChildDelete(c, s)
    \/ ChildExit(c)

SourceStep ==
    \/ \E k \in Keys, v \in Vals : SourceSetRow(k, v)
    \/ \E s \in Sessions, e \in Events : SourceAppend(s, e)
    \/ \E s \in Sessions : SourceDelete(s)

Next ==
    \/ \E c \in Cmds : Start(c) \/ MigrationStep(c) \/ Crash(c)
    \/ \E c \in Cmds, d \in Dests : MergeRollsBack(c, d)
    \/ \E c \in Launches : StartChild(c) \/ ChildStep(c)
    \/ SourceStep

Spec == Init /\ [][Next]_vars

-----------------------------------------------------------------------------
(* Properties. *)

\* What OpenCode committed to a private store stays there: a merge neither
\* replaces a row (insert_or_compare), nor rewrites an event history
\* (merge_event_graph), nor puts another file in the place of the store
\* (merge_destination).
PrivateRowsKept ==
    \A d \in Dests :
        /\ \A k \in Keys : private[d].rows[k] # NoRow => store[d].rows[k] = private[d].rows[k]
        /\ \A s \in Sessions : IsPrefix(private[d].hist[s], store[d].hist[s])

\* When the manifest names the generation the source has, so that catch-up
\* (migrate) skips the migration, every well-formed session of the source has
\* reached the store it routes to: every row is there, and its history is
\* there or filed as a fork; unless the user deleted the session there.
UpToDateMeansCopied ==
    manifest = gen =>
        LET route == RouteSessions(source, {}) IN
        \A s \in Present(source) \ MalformedSessions(source) :
            LET d == route[s] IN
            \/ s \in deleted[d]
            \/ /\ \A k \in Keys : Owner[k] = s /\ source.rows[k] # NoRow => store[d].rows[k] # NoRow
               /\ \/ IsPrefix(source.hist[s], store[d].hist[s])
                  \/ <<s, source.hist[s]>> \in forks[d]

\* No event id is in a store twice: neither within a history nor in the
\* histories of two sessions.  A second one would make every later
\* validate_event_graph of that store fail.
EventIdsUnique ==
    \A d \in Dests, s, t \in Sessions :
        \A i \in 1..Len(store[d].hist[s]), j \in 1..Len(store[d].hist[t]) :
            store[d].hist[s][i] = store[d].hist[t][j] => s = t /\ i = j

\* Merging what was merged changes nothing, whatever the children did since
\* the plan was read: a migration that was interrupted can be repeated.
MergeIdempotent ==
    \A c \in Cmds, d \in Dests :
        cmd[c].pc = "merge" =>
            LET sel == Selection(c, d)
                once == MergeInto(store[d], sel)
            IN  MergeInto(once, sel) = once /\ ForksOf(once, sel) \subseteq ForksOf(store[d], sel)

=============================================================================
