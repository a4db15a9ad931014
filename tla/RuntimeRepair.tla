---------------------------- MODULE RuntimeRepair ----------------------------
(***************************************************************************)
(* Repair of a private OpenCode store before each launch.                  *)
(*                                                                         *)
(* OpenCode attributes sessions to a runtime project id of its own, which  *)
(* it keeps in a cache file of the checkout, and cannot decode sessions    *)
(* with malformed ids.  Before `rtrt opencode` starts its child it brings  *)
(* the store in line: malformed sessions are archived and removed, all     *)
(* others attributed to the current authority.  A checkpoint names the     *)
(* authority and the generation of the store for which this need not be    *)
(* done again; it is written after a repair, and after a child that ended  *)
(* well, without looking at the sessions.  Meanwhile other launches of the *)
(* same checkout repair the same store, their children write it, and       *)
(* migrations started elsewhere merge sessions into it (SessionMigration). *)
(***************************************************************************)
EXTENDS Naturals, FiniteSets

CONSTANTS
    Sessions,      \* session ids
    Parent,        \* session -> the session it was started from
    WellFormed,    \* the ids that start with "ses_"
    Brought,       \* the sessions the first migration has brought
    Ids,           \* runtime project ids OpenCode may have for the checkout
    Global,        \* the authority of a checkout without one
    NoCache, NoSession, NoParent,
    Launches,      \* launches in this checkout
    RefreshTries,  \* attempts at a checkpoint (3 in the code)
    MaxLaunches,   \* bound: starts of launches
    MaxMerges,     \* bound: sessions merged by migrations
    MaxWrites,     \* bound: writes of the children
    MaxFaults      \* bound: launches that die

ASSUME RepairAssumption ==
    /\ IsFiniteSet(Sessions)
    /\ NoParent \notin Sessions
    /\ Parent \in [Sessions -> Sessions \union {NoParent}]
    /\ WellFormed \subseteq Sessions /\ Brought \subseteq Sessions
    /\ Global \notin Ids /\ NoCache \notin Ids
    /\ NoSession \notin Ids \union {Global}
    /\ RefreshTries \in Nat \ {0}
    /\ MaxLaunches \in Nat /\ MaxMerges \in Nat /\ MaxWrites \in Nat /\ MaxFaults \in Nat

Authorities == Ids \union {Global}

VARIABLES
    sess,        \* session -> the project of its row, or NoSession
    projects,    \* rows of the project table
    gen,         \* generation of the database and its write-ahead log
    cache,       \* the cache file in the git directory
    checkpoint,  \* rtrt-runtime-repair.json
    archives,    \* rtrt-repair-archives: generation and sessions of each
    launch,      \* the state of each launch
    started, merges, writes, faults,
    removed,     \* history: sessions repairs have removed
    deleted,     \* history: sessions children have deleted
    unseen       \* history: news (below) of the launch that wrote the checkpoint

vars == <<sess, projects, gen, cache, checkpoint, archives, launch,
          started, merges, writes, faults, removed, deleted, unseen>>
bounds == <<started, merges, writes, faults>>
ghosts == <<removed, deleted, unseen>>

Present == {s \in Sessions : sess[s] # NoSession}

IdleLaunch == [pc |-> "idle", auth |-> Global, probed |-> FALSE, probeOk |-> FALSE, malformed |-> {},
               stamp |-> 0, tries |-> 0, roots |-> 0, ran |-> FALSE, news |-> {}]

NoCheckpoint == [auth |-> Global, gen |-> 0, roots |-> 0]

Steps == {"idle", "stamp", "checkpoint", "probe", "scan", "name", "vacuum", "repair",
          "rstamp", "rread", "rafter", "rwrite", "ready", "child"}

Launch == [pc : Steps, auth : Authorities, probed : BOOLEAN, probeOk : BOOLEAN,
           malformed : SUBSET Sessions, stamp : Nat, tries : 0..RefreshTries, roots : Nat, ran : BOOLEAN,
           news : SUBSET Sessions]  \* history: sessions others wrote since its scan

TypeOK ==
    /\ sess \in [Sessions -> Authorities \union {NoSession}]
    /\ projects \subseteq Authorities
    /\ gen \in Nat \ {0}
    /\ cache \in Ids \union {NoCache}
    /\ checkpoint \in [auth : Authorities, gen : Nat, roots : Nat]
    /\ archives \subseteq [name : Nat, held : SUBSET Sessions]
    /\ launch \in [Launches -> Launch]
    /\ started \in Nat /\ merges \in Nat /\ writes \in Nat /\ faults \in Nat
    /\ removed \subseteq Sessions /\ deleted \subseteq Sessions
    /\ unseen \subseteq Sessions

\* The first migration has made the store: what it brought has its project's row.
Init ==
    /\ sess = [s \in Sessions |-> IF s \in Brought THEN Global ELSE NoSession]
    /\ projects = IF Brought = {} THEN {} ELSE {Global}
    /\ gen = 1
    /\ cache = NoCache
    /\ checkpoint = NoCheckpoint
    /\ archives = {}
    /\ launch = [l \in Launches |-> IdleLaunch]
    /\ started = 0 /\ merges = 0 /\ writes = 0 /\ faults = 0
    /\ removed = {} /\ deleted = {}
    /\ unseen = {}

-----------------------------------------------------------------------------
(* What the sessions of a store are. *)

\* The least set with the sessions that have a malformed id, or were started
\* from one, and with a session those that were started from it.
MalformedClosure(S) ==
    LET Seed(s) == s \notin WellFormed \/ Parent[s] \in Sessions \ WellFormed
        Closed(T) == \A s \in S : Seed(s) \/ Parent[s] \in T => s \in T
    IN  {s \in S : \A T \in SUBSET S : Closed(T) => s \in T}

ValidRoots(a) == {s \in WellFormed : sess[s] = a /\ Parent[s] = NoParent}

Authority(c) == IF c = NoCache THEN Global ELSE c

-----------------------------------------------------------------------------
(* A launch. *)

Set(l, r) == launch' = [launch EXCEPT ![l] = r]
Goto(l, pc) == Set(l, [launch[l] EXCEPT !.pc = pc])
End(l) == Set(l, IdleLaunch)

Scanned(k) == launch[k].pc \notin {"idle", "stamp", "checkpoint", "probe", "scan"}
Tell(k, T) == IF Scanned(k) THEN [launch[k] EXCEPT !.news = launch[k].news \union T] ELSE launch[k]

\* read_runtime_project_cache: without a cache the authority is Global, for now.
Start(l) ==
    /\ launch[l].pc = "idle"
    /\ started < MaxLaunches
    /\ started' = started + 1
    /\ Set(l, [IdleLaunch EXCEPT !.pc = "stamp", !.auth = Authority(cache)])
    /\ UNCHANGED <<sess, projects, gen, cache, checkpoint, archives, merges, writes, faults, ghosts>>

Stamp(l) ==
    /\ launch[l].pc = "stamp"
    /\ Set(l, [launch[l] EXCEPT !.pc = "checkpoint", !.stamp = gen])
    /\ UNCHANGED <<sess, projects, gen, cache, checkpoint, archives, bounds, ghosts>>

\* A probe that failed is forgiven only when the repair found a reason for it.
Complete(l, r) ==
    Set(l, IF r.probed /\ ~r.probeOk /\ r.malformed = {} THEN IdleLaunch
           ELSE [IdleLaunch EXCEPT !.pc = "ready", !.auth = r.auth, !.roots = r.roots,
                                  !.news = r.news])

Hit(l) == /\ checkpoint.gen = launch[l].stamp
          /\ checkpoint.auth = launch[l].auth
          /\ gen = launch[l].stamp

CheckpointHit(l) ==
    /\ launch[l].pc = "checkpoint"
    /\ Hit(l)
    /\ Complete(l, [launch[l] EXCEPT !.roots = checkpoint.roots, !.news = unseen])
    /\ UNCHANGED <<sess, projects, gen, cache, checkpoint, archives, bounds, ghosts>>

\* That there is no cache means Global only after a probe.
CheckpointMiss(l) ==
    /\ launch[l].pc = "checkpoint"
    /\ ~Hit(l)
    /\ Set(l, [launch[l] EXCEPT !.stamp = 0,
                  !.pc = IF launch[l].auth = Global /\ ~launch[l].probed THEN "probe" ELSE "scan"])
    /\ UNCHANGED <<sess, projects, gen, cache, checkpoint, archives, bounds, ghosts>>

\* `opencode session list` against this store: it may create the row of the
\* project it takes the checkout for, and the cache.
Probe(l) ==
    /\ launch[l].pc = "probe"
    /\ \E c \in {cache} \union (IF cache = NoCache THEN Ids ELSE {}), ok, makes \in BOOLEAN :
          /\ cache' = c
          /\ projects' = IF makes THEN projects \union {Authority(c)} ELSE projects
          /\ gen' = IF projects' # projects THEN gen + 1 ELSE gen
          /\ IF ~ok /\ c = NoCache THEN End(l)
             ELSE Set(l, [launch[l] EXCEPT !.pc = "stamp", !.auth = Authority(c),
                                          !.probed = TRUE, !.probeOk = ok])
    /\ UNCHANGED <<sess, checkpoint, archives, bounds, ghosts>>

\* The rows are read table by table, outside the transaction that changes them.
Scan(l) ==
    /\ launch[l].pc = "scan"
    /\ IF launch[l].auth \notin projects
       THEN IF launch[l].probed THEN End(l) ELSE Goto(l, "probe")
       ELSE Set(l, [launch[l] EXCEPT !.pc = IF MalformedClosure(Present) = {} THEN "repair" ELSE "name",
                                    !.malformed = MalformedClosure(Present)])
    /\ UNCHANGED <<sess, projects, gen, cache, checkpoint, archives, bounds, ghosts>>

Named(n) == {a \in archives : a.name = n}

\* The archive is named for the generation; one that is there is not made again.
NameArchive(l) ==
    /\ launch[l].pc = "name"
    /\ IF Named(gen) = {} THEN Set(l, [launch[l] EXCEPT !.pc = "vacuum", !.stamp = gen])
       ELSE Goto(l, "repair")
    /\ UNCHANGED <<sess, projects, gen, cache, checkpoint, archives, bounds, ghosts>>

VacuumInto(l) ==
    /\ launch[l].pc = "vacuum"
    /\ archives' = IF Named(launch[l].stamp) = {}
                   THEN archives \union {[name |-> launch[l].stamp, held |-> Present]} ELSE archives
    /\ Set(l, [launch[l] EXCEPT !.pc = "repair", !.stamp = 0])
    /\ UNCHANGED <<sess, projects, gen, cache, checkpoint, bounds, ghosts>>

\* Mutant: what is malformed now is removed, not what was found and archived.
RepairedAsFound(l) ==
    [s \in Sessions |-> IF s \in MalformedClosure(Present) THEN NoSession
                        ELSE IF s \in Present THEN launch[l].auth ELSE NoSession]

\* normalize_runtime_project after remove_malformed_graph.
Repaired(l) ==
    [s \in Sessions |-> IF s \in launch[l].malformed THEN NoSession
                        ELSE IF s \in Present \intersect WellFormed THEN launch[l].auth ELSE sess[s]]

Written(new) == {s \in Sessions : new[s] # sess[s]}

Repair(l) ==
    /\ launch[l].pc = "repair"
    /\ sess' = Repaired(l)
    /\ gen' = IF Written(Repaired(l)) # {} THEN gen + 1 ELSE gen
    /\ removed' = removed \union {s \in Present : Repaired(l)[s] = NoSession}
    /\ launch' = [k \in Launches |-> IF k = l THEN [launch[l] EXCEPT !.pc = "rstamp"]
                                      ELSE Tell(k, Written(Repaired(l)))]
    /\ UNCHANGED <<projects, cache, checkpoint, archives, bounds, deleted, unseen>>

\* refresh_runtime_checkpoint, after a repair and after a child.
RefreshStamp(l) ==
    /\ launch[l].pc = "rstamp"
    /\ Set(l, [launch[l] EXCEPT !.pc = "rread", !.stamp = gen, !.tries = launch[l].tries + 1])
    /\ UNCHANGED <<sess, projects, gen, cache, checkpoint, archives, bounds, ghosts>>

RefreshRead(l) ==
    /\ launch[l].pc = "rread"
    /\ IF launch[l].auth \notin projects THEN End(l)
       ELSE Set(l, [launch[l] EXCEPT !.pc = "rafter", !.roots = Cardinality(ValidRoots(launch[l].auth))])
    /\ UNCHANGED <<sess, projects, gen, cache, checkpoint, archives, bounds, ghosts>>

\* Mutant: the store is not stamped again.
RefreshAfterUnchecked(l) ==
    /\ launch[l].pc = "rafter"
    /\ Set(l, [launch[l] EXCEPT !.pc = "rwrite", !.stamp = gen])
    /\ UNCHANGED <<sess, projects, gen, cache, checkpoint, archives, bounds, ghosts>>

RefreshAfter(l) ==
    /\ launch[l].pc = "rafter"
    /\ \/ gen = launch[l].stamp /\ Goto(l, "rwrite")
       \/ gen # launch[l].stamp /\ launch[l].tries < RefreshTries /\ Goto(l, "rstamp")
       \/ gen # launch[l].stamp /\ launch[l].tries >= RefreshTries /\ End(l)
    /\ UNCHANGED <<sess, projects, gen, cache, checkpoint, archives, bounds, ghosts>>

WriteCheckpoint(l) ==
    /\ launch[l].pc = "rwrite"
    /\ checkpoint' = [auth |-> launch[l].auth, gen |-> launch[l].stamp, roots |-> launch[l].roots]
    /\ unseen' = launch[l].news
    /\ IF launch[l].ran THEN End(l) ELSE Complete(l, launch[l])
    /\ UNCHANGED <<sess, projects, gen, cache, archives, bounds, removed, deleted>>

\* `--continue` needs a root session.
StartChild(l, continue) ==
    /\ launch[l].pc = "ready"
    /\ IF continue /\ launch[l].roots = 0 THEN End(l) ELSE Goto(l, "child")
    /\ UNCHANGED <<sess, projects, gen, cache, checkpoint, archives, bounds, ghosts>>

\* Mutant: the authority is not looked up again after the child.
ChildExitTrusted(l, ok) ==
    /\ launch[l].pc = "child"
    /\ IF ok THEN Set(l, [launch[l] EXCEPT !.pc = "rstamp", !.ran = TRUE, !.tries = 0]) ELSE End(l)
    /\ UNCHANGED <<sess, projects, gen, cache, checkpoint, archives, bounds, ghosts>>

ChildExit(l, ok) ==
    /\ launch[l].pc = "child"
    /\ IF ok /\ Authority(cache) = launch[l].auth
       THEN Set(l, [launch[l] EXCEPT !.pc = "rstamp", !.ran = TRUE, !.tries = 0])
       ELSE End(l)
    /\ UNCHANGED <<sess, projects, gen, cache, checkpoint, archives, bounds, ghosts>>

\* The launch dies, or one of its checks fails and the transaction goes back.
Crash(l) ==
    /\ launch[l].pc # "idle"
    /\ faults < MaxFaults
    /\ faults' = faults + 1
    /\ End(l)
    /\ UNCHANGED <<sess, projects, gen, cache, checkpoint, archives, started, merges, writes, ghosts>>

-----------------------------------------------------------------------------
(* OpenCode and the migrations. *)

\* The child starts a session, not from one it cannot decode; by then OpenCode
\* may have given the checkout an id.
ChildAdd(l, s, c) ==
    /\ launch[l].pc = "child"
    /\ writes < MaxWrites
    /\ writes' = writes + 1
    /\ s \in WellFormed \ Present
    /\ Parent[s] \in (Present \ MalformedClosure(Present)) \union {NoParent}
    /\ c \in {cache} \union (IF cache = NoCache THEN Ids ELSE {})
    /\ cache' = c
    /\ sess' = [sess EXCEPT ![s] = Authority(c)]
    /\ projects' = projects \union {Authority(c)}
    /\ gen' = gen + 1
    /\ launch' = [k \in Launches |-> IF k = l THEN launch[k] ELSE Tell(k, {s})]
    /\ UNCHANGED <<checkpoint, archives, started, merges, faults, ghosts>>

ChildDelete(l, s) ==
    /\ launch[l].pc = "child"
    /\ writes < MaxWrites
    /\ writes' = writes + 1
    /\ s \in Present \ MalformedClosure(Present)
    /\ sess' = [sess EXCEPT ![s] = NoSession]
    /\ gen' = gen + 1
    /\ deleted' = deleted \union {s}
    /\ UNCHANGED <<projects, cache, checkpoint, archives, launch, started, merges, faults,
                   removed, unseen>>

\* A migration inserts a session with the project its source gave it.
Merge(s, a) ==
    /\ merges < MaxMerges
    /\ merges' = merges + 1
    /\ s \notin Present
    /\ sess' = [sess EXCEPT ![s] = a]
    /\ projects' = projects \union {a}
    /\ gen' = gen + 1
    /\ launch' = [k \in Launches |-> Tell(k, {s})]
    /\ UNCHANGED <<cache, checkpoint, archives, started, writes, faults, ghosts>>

-----------------------------------------------------------------------------
LaunchStep(l) ==
    \/ Stamp(l) \/ CheckpointHit(l) \/ CheckpointMiss(l) \/ Probe(l)
    \/ Scan(l) \/ NameArchive(l) \/ VacuumInto(l) \/ Repair(l)
    \/ RefreshStamp(l) \/ RefreshRead(l) \/ RefreshAfter(l) \/ WriteCheckpoint(l)
    \/ \E continue \in BOOLEAN : StartChild(l, continue)

Next ==
    \/ \E l \in Launches : Start(l) \/ LaunchStep(l) \/ Crash(l)
    \/ \E l \in Launches, ok \in BOOLEAN : ChildExit(l, ok)
    \/ \E l \in Launches, s \in Sessions, c \in Ids \union {NoCache} : ChildAdd(l, s, c)
    \/ \E l \in Launches, s \in Sessions : ChildDelete(l, s)
    \/ \E s \in Sessions, a \in Authorities : Merge(s, a)

Spec == Init /\ [][Next]_vars

-----------------------------------------------------------------------------
(* Properties. *)

Bad(s, a) == s \in MalformedClosure(Present) \/ (s \in Present /\ sess[s] # a)

\* The sessions of T and those started from them, at any depth.
StartedFrom(T) ==
    {s \in Sessions : \A U \in SUBSET Sessions :
        (T \subseteq U /\ \A c \in Sessions : Parent[c] \in U => c \in U) => s \in U}

\* A checkpoint that a launch would accept vouches for everything that was in
\* the store when the repair it rests on scanned it: what it hides, a
\* malformed session or one with another project, was written since then by
\* someone other than that launch and its child, or was started from one that
\* was (repair_runtime_attribution, refresh_runtime_checkpoint).
CheckpointVouches ==
    checkpoint.gen = gen => \A s \in Sessions : Bad(s, checkpoint.auth) => s \in StartedFrom(unseen)

\* The number of root sessions a checkpoint carries, on which `--continue` is
\* decided, is right as long as the checkpoint is accepted, whoever wrote
\* between the stamps and the query (refresh_runtime_checkpoint).
RootsCurrent ==
    checkpoint.gen = gen => checkpoint.roots = Cardinality(ValidRoots(checkpoint.auth))

Archived == UNION {a.held : a \in archives}

\* Of every session repairs removed from the store an archive has a copy,
\* whatever came into the store while the archive was made, unless a child had
\* deleted it before: the user gave it up, and if a migration brings it back
\* before a repair that found it earlier, it goes without a copy
\* (archive_private_database, remove_malformed_graph).
ArchivedBeforeRemoved == removed \subseteq Archived \union deleted

=============================================================================
