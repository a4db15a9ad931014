# TLA+ specifications of RTRT

RTRT (Retort) is a Rust toolkit that keeps a coding agent's context small: it
stores and recalls memories per project, forwards captured events from guests
(containers, virtual machines) to a host, routes chat calls to several model
providers, keeps a ledger of what they cost, and compresses what agents read
and write. This directory holds TLA+ models of the parts of it that several
processes change at once or that must survive a crash, TLC configurations that
check them on small instances, and TLAPS proofs for every instance.

- `tlc -workers 2 -config X.cfg MCModule` checks a run, `tlapm ModuleProofs.tla`
  the proofs.
- `PROJECT.json` lists the components, the runs, which lines of the code each
  definition models (`map`), the hazards behind the properties, and for every
  property a *mutant*: a variant of one definition, such as a plausible mistake
  in the code would make it, under which the property is violated. The variants
  stand in the modules just before the definitions they replace.

## 1. Inventory

### What the system is made of

| part | source (`crates/…`) | state | operations | who else touches the state |
|---|---|---|---|---|
| guest spool and delivery | `rtrt-cli/src/forward.rs`, `forward/spool.rs` | SQLite table `forward_spool` (event, attempts, next attempt) | `enqueue`, `flush`, `flush_pair`, `delivered`, `retry` | every `rtrt forward` command of the user, at the same time |
| host collector | `rtrt-cli/src/collector.rs` | credentials (read once), requests in progress | authorize, ingest, 10 s limit | guests over HTTP; the store below |
| ingest of forwarded events | `rtrt-memory/src/lib.rs` (`ingest_forwarded`) | `forwarded_event_receipts`, `memories` | look up the receipt, insert in a transaction | all other writers of the store |
| memory rows and full-text index | `rtrt-memory/src/lib.rs` | `memories`, external-content index `memories_fts` | `save`, `set_block`, `delete`, `delete_row(s)`, `compress_in_place`, `archive_overflow_no_llm`, `compress_project` | command line, MCP server, dashboard, four daemons, each with its own connection |
| embedding vectors | same file | `embeddings`, `embedding_models` | `store_embedding`, `store_embedding_replace`, sweeps | savers, auto-embed daemon, `rtrt memory reembed` |
| opening a store, schema migrations | same file | `user_version`, tables and columns, `store_identity` | `open`, `open_project`, `migrate`, `bind_store_identity` | every command, hook and daemon that opens the same file |
| re-attribution, pruning | same file | `project` of rows | project moves, pruning | other writers |
| recall, graph, ranking | same file, `hnsw_index.rs`, `payload.rs`, `role.rs` | none (reads) | queries | – |
| provider gateway | `rtrt-providers/src/gateway.rs` | response cache, metrics window and totals, id counter, each under its own lock | `chat`, `chat_with_parent` | concurrent tasks |
| usage ledger, rate-limit log | `rtrt-providers/src/usage_ledger.rs` | TSV file, lock file | `record_invocation`, `record_rate_limit_at`; readers | every rtrt process |
| failover walk and router | `invoke.rs`, `router.rs`, `usage.rs` | one walk per command; the ledger's rows | ranking of lanes, ordered attempts over them, classification of failures | other walks through the ledger; whoever installs or disables a target |
| gateway server, provider adapters | `gateway_server.rs`, `anthropic.rs`, `openai*.rs`, `stream.rs` | none of their own | HTTP and SSE translation | – |
| OpenCode session migration | `rtrt-cli/src/opencode_sessions.rs`, `main.rs` | private session stores, manifest, operation lock | read the global graph, route, merge per destination, publish | OpenCode itself, its children in private stores |
| OpenCode runtime repair | the same | runtime checkpoint, archives, project id of sessions | scan, archive, remove malformed sessions, re-attribute, checkpoint | other launches of the checkout, their children, migrations |
| setup, service, sandbox, doctor | `rtrt-cli/src/setup.rs`, `service.rs`, `sandbox.rs`, `doctor.rs` | configuration files of other programs | rewrite with backup; drive service managers | the user's editors |
| dashboard and daemons | `rtrt-dashboard/src/*` | one store behind a mutex, event broadcast, caches of transcripts | HTTP handlers, hourly consolidation, auto-compress, auto-embed | other processes on the same store |
| MCP server, command line | `rtrt-mcp`, `rtrt-cli/src/main.rs` | none of their own | dispatch to the parts above | – |
| core: configuration, project identity, detection, model cache, bootstrap credentials | `rtrt-core/src/*` | files | load, resolve, refresh | other processes |
| compression, output proxy, security scanner, templates, evaluation | `rtrt-compress`, `rtrt-proxy`, `rtrt-security`, `rtrt-templates`, `rtrt-eval` | none, or files written once | pure text transformation | – |
| agent plugins, installers, packaging, release scripts | `plugins`, `scripts`, `packaging`, `fuzz` | – | call the command line | – |

### How the parts interact

Almost everything goes through three shared files: the project's SQLite store,
the guest's SQLite spool and the usage ledger. There is no server that owns
them. A command opens the file, does its work and exits; the dashboard keeps
one connection behind a mutex, but its auto-embed daemon, the MCP server and
every hook of an agent open their own. The collector and the gateway are the
two long-running services with concurrent requests inside one process.

### What is hard

- *Interleaving.* Outside `ingest_forwarded` the store opens no transaction:
  every SQL statement commits by itself, and an operation of several
  statements meets the others between any two of them.
- *Partial failure.* A statement, a system call or the process can fail between
  two steps; what was committed stays.
- *Unreliable delivery.* The guest sees a lost or late answer; the collector's
  time limit answers 504 while its blocking task can still commit.
- *Stale reads.* Lists, budgets, lock ages and batches are read before an
  `await`, a language model or another system call and used after it.
- *Locks that expire.* The ledger's lock file may be stolen once it is old.
- *Growth.* Spool, ledger, store and metrics are all bounded by clean-ups that
  themselves race with the writers.

### What makes each part correct

Forwarding: an accepted event is queued until stored, stored once, in the store
of its own pair, and eventually. Ledger: bounded, no recent row lost while the
lock protects it, nobody blocked. Gateway: the budget is overshot by a bounded
amount, explicit routes are honoured even by the cache, every provider call is
accounted for, calls end. Store: nothing vanishes without a request, index and
table agree, originals survive compression. Embeddings: one length per model.
Failover: lanes are charged in ranked order and only as often as failures
justify, spent buckets last, the reported trail is what happened, a walk ends.
Session migration: private rows are never replaced, what the manifest calls up
to date was copied, a merge can be repeated. Runtime repair: a checkpoint hides
nothing its launch could have seen, nothing is removed without a copy. Opening
a store: who gets it open finds the whole schema and its own project, and the
file stays one that can be opened.

## 2. Modules

| module | models | state | actions |
|---|---|---|---|
| `ForwardingContract` | the promise: accept, store once, forget what is stored, purge | `accepted`, `queued`, `stored`, `copies` | `Accept`, `Ingest`, `Forget`, `Purge` |
| `Forwarding` | spool, delivery, collector, ingest | spool rows, one program counter and batch per command, one record per HTTP request, memories and receipts per host | one per SQL statement, request, answer, timeout or crash |
| `UsageLedger` | writers of the ledger and of the rate-limit log | lines of the file, lock file, one program counter per call | one per system call |
| `Gateway` | `chat_inner`, `dispatch_once`, cache, metrics, budget | cache, metrics, totals, id counter, one program counter per client | what a call does between two awaits or lock scopes |
| `MemoryStore` | rows, index, consolidation, compression, deletion | rows, index entries counted per text, one record per connection | one per SQL statement |
| `Embeddings` | vectors and the registry of dimensions | rows, vectors, registry, one record per connection | one per SQL statement |
| `SchemaMigration` | opening a store: file, schema batches, identity | schema as a set, version, identity row, one record per connection | one per SQL statement or system call |
| `SessionMigration` | `sessions apply` and the catch-up of a launch | source, private stores (rows and event histories), manifest, lock, one record per command | one per read, merge, rename or write |
| `RuntimeRepair` | what a launch does to its store before and after the child | sessions and their project ids, generation, checkpoint, archives, one record per launch | one per query, transaction or file write |
| `Failover` | the walk over ranked lanes, one call at a time | targets, ledger rows per walk, one record per walk | what a walk does between two waits |
| `Routing` | the ranking that starts a walk; composes with `Failover` | none of its own (reads the ledger) | `Route`, and those of `Failover` |

`MC*` modules give the constants values. `*Proofs` modules hold the theorems:
`FailoverProofs` those of `Failover` and `Routing`, `StoreFileProofs` those of
`Embeddings` and `SchemaMigration`, every other one those of its namesake.
`Forwarding` composes three components (spool, collector, ingest) because their
protocol is one; `ForwardingContract` is the abstract specification it
implements under the mapping `queued <- Queued`,
`copies <- [k \in Keys |-> Copies(k)]`. `Gateway` counts the rows it hands to
the ledger; `UsageLedger` is how such a row gets into the file. `MemoryStore`
and `Embeddings` are two views of one SQLite file that share only the rows'
existence, and `SchemaMigration` is how a connection of either gets it open.
`Routing` EXTENDS `Failover`: a walk's rows in the ledger change the ranking of
the next. `SessionMigration` and `RuntimeRepair` meet in a private store, where
the first appears in the second as `Merge`.

### How state and actions correspond to the code

*Forwarding.* A command is `StartEnqueue`, `StartFlush` or `StartFlushPair`.
`EnqueueInsert`/`EnqueueConflict` are the INSERT after the lookup (the loser
of a race fails on the primary key). `SelectBatch`/`SelectNothing` read the
batch in the order and with the limit of the SELECT, refusing a mixed spool.
`Send` posts one item; the collector answers in `Reject` (token not bound to
the pair), `Gate` (receipt lookup, which begins the transaction), `Commit` or
`StaleSnapshot` (SQLite refuses an upgrade of a snapshot that was overtaken;
the code falls back to the stored receipt) and `Reply`. `UpdateSpool` is
`delivered` (DELETE by event id) or `retry` (attempts + 1, doubled delay).
`ClientTimeout`, `Lose`, `HandlerTimeout`, `StoreError`, `ProcCrash`,
`CollectorCrash`, `HostWrite` and `DeleteMemory` are the environment;
`HostWrite` stands for every other statement that commits to the host's store. `Tick`
lets delays pass; a delay is `2^n` up to a cap, as in the code.

*UsageLedger.* `Create`, `Stat`, `Remove` are the loop of `try_acquire`;
`NextAttempt` counts. `AppendBody`/`AppendNewline` are the two writes of
`writeln!`, `TrimRead`/`TrimTruncate`/`TrimWrite` the read and the two halves
of `fs::write`, `Drop` the removal of the lock file, whoever's it is by then.
A line is the sequence of rows written on it, since an unserialized append can
continue another's line; a reader sees the first row only. `LockAges` makes
the lock file older than `LOCK_STALE_SECS`; only the members of `SlowCalls`
can live that long.

*Gateway.* `CacheLookup`, `Admit` (budget and `resolve_model`), `Dispatch`,
`Answer`, `AllocateId`, `PushMetric`, `Store`, and `AfterFailure` for
attempts, fallback and error. `Cancel` drops the task at an `await`.

*MemoryStore.* See the comments at the actions. A text is `Original` or a
member of `Rewrites`. The `facts` of a row are the saved rows it speaks for; a
digest speaks for what was rolled into it. The index counts insertions minus
deletions per row and text, as an external-content FTS5 table believes what it
is told. Age, length and batch limits of the compression sweep are covered by
`CompressSkip` with `tag = FALSE`.

*Embeddings.* `Lookup`, `Scan`, `Register`, `ReadBack` are
`ensure_embedding_model_dimension` statement by statement, `Write` the INSERT
with the foreign key. The embedder may answer any length, and a different one
each time. `Init` is any file of a version without the registry, mixed
lengths included.

*SchemaMigration.* `OpenStore` is `open_project` (with an identity) or `open` (by
path). `Batches` lists the statements of `migrate`; `CreateIfMissing`,
`AddColumn` and `StampVersion` run them one at a time, since `execute_batch`
opens no transaction, and `ReadVersion` decides once which batches run
(`FirstFor`); `Following` is what comes after a statement.
`BindIdentity`/`CheckIdentity` are the INSERT OR IGNORE and the read-back.
`Die` is a failed statement or a death; `cut` and `lowered` are histories the
properties speak of.

*SessionMigration.* `AcquireLock`, `CheckManifest`, `StampBefore`, `ReadSource`,
`StampAfter` bracket the reading of the global store; `MergeExisting` is the
transaction on a store that is there, `MergeStaged` and `Publish` the staging
file and its rename where it was not; `WriteManifest` comes last. `MergeInto`
and the operators it uses are `merge_destination` row by row: insert what is
missing, compare what is there, keep the private one and file the other as a
fork; histories are extended only where one is a prefix of the other.
`InheritedRoutes` repeats `InheritOnce` as often as there are sessions, as the
loop of the code does until nothing changes; there are finitely many sessions.
`Source*` is OpenCode started without rtrt, `Child*` the child of a launch.

*RuntimeRepair.* `Stamp`, `CheckpointHit`/`CheckpointMiss`, `Probe`, `Scan`,
`NameArchive`, `VacuumInto`, `Repair` are the launch's preparation,
`RefreshStamp`, `RefreshRead`, `RefreshAfter`, `WriteCheckpoint` the checkpoint
after a repair and after a child that ended well. The generation is a counter
of commits that change sessions; section 6 says what that leaves out. `Merge` is
a migration that runs meanwhile, one session at a time and of any project, which
is more than `merge_destination` can do.

*Failover and Routing.* A lane is a target with the model it is called with.
`Route` computes `RankedTargets` (candidates, comparison by headroom, cost and
capability, alternatives of a pinned lane) and starts the walk; the sort is an
insertion sort, stable like the `sort_by` of the code, over the candidates in the
order of detection (`DetectOrder`), with ties broken by name (`ToolOrder`);
`Invoke` or `Refused` is one call, `Exit`, `TimeOut`, `ReadOutput` and `Answer` how it ends,
`Retry` the end of a back-off, `Reconfigure` a target that comes or goes. What
a failure is made of is `Advance`. The tokens of a row are abstracted to a
fixed cost, and all walks lie in one 24 h window.

## 3. Runs

All passing runs explore their whole state space; no state constraint is used.

| run | instance | shows |
|---|---|---|
| `forwarding_safety` | 2 commands, 2 requests, 2 pairs in 2 host stores, one id re-queued with another payload, flushes with the token of one pair, 1 host-side deletion, 1 fault; 2.1 M states | no accepted event is lost, stored twice or stored in a foreign project; receipts and memories correspond; `Forwarding` implements `ForwardingContract` |
| `forwarding_liveness` | batch limit 1, rows of two pairs, delays up to 2, 1 fault; 73 k | every row leaves the spool, which by `NoAcceptedEventLost` means that its event is stored |
| `ledger` | 3 calls on a ledger at its cap, 2 attempts, 1 slow call, 1 fault; 0.35 M | serialization until a lock ages, newest rows kept, bounded file, every call returns |
| `gateway` | 2 clients, prefix and explicit routes, 2 attempts, fallback, cache of 1, limit 1; 0.7 M | cache, routing, overshoot, accounting, termination |
| `store_consolidation` | 2 connections; save, set_block, delete_row, archive, compress_project; 1 interruption; 3.5 M | nothing vanishes |
| `store_serial` | 1 connection, every operation but set_block, 2 rewrites, 1 interruption; 0.5 M | index matches table, originals kept, a sweep settles |
| `embeddings_safety` | 2 connections, 3 rows, 2 models, 2 lengths, any legacy file; 4.2 M | one length per registered model, no step mixes lengths, no vector without its row |
| `migrations` | 2 connections, files of every release or none, 2 projects, 1 fault; 0.4 M | an open that succeeds has the whole schema and its own project; a file is refused for ever in two ways only and is otherwise brought up to date |
| `migrations_overlap` | 2 connections, no fault | **violated**: two overlapping opens leave a store that no open accepts |
| `sessions` | 1 `apply`, 1 launch with a child, 3 sessions (one inherits its project, one is malformed), 4 writes, 1 death | private rows kept, up to date means copied, event ids unique, merges repeatable |
| `repair` | 2 launches of one checkout, 4 sessions (a root, a malformed one, its child and its grandchild), 1 merge, 1 write, 1 death | checkpoints vouch for what they claim, root counts are current, removal only after an archive |
| `failover` | 4 targets, 2 pools, 2 walks, 2 tries, 3 failures, 1 reconfiguration, 6 kinds of request; 0.67 M | charges in order, trail faithful, spent buckets last, quota left alone, walks end |

### Why the bounds are enough to be interesting

Two commands and two requests give every pairwise race of the protocol,
including a late commit that meets a retry; the third copy of an event needs a
fault, which the instances allow. Three ledger calls are needed for the steal
(a crashed owner and two thieves); a cap of 2 with a full ledger makes every
call trim. In the gateway, `MaxDispatches = 7` lets a second pair of calls
start after the first has spent the limit, which is where an off-by-one in the
budget check shows. In the store, `KeepRecent = 1` and three saves leave two
rows to consolidate and `MaxId = 5` room for two digests, so that each of two
consolidators can delete the other's. For embeddings, two rows of one model
are enough to mix lengths and a third is free to be deleted and saved. What
the bounds leave out, the theorems of section 5 cover for all instances. Two
opens are enough for every race of `migrate`, since what one does to the other
goes through the file only. The migration instance has one launched project
whose store is there and one destination that is not, so that both ways of
merging happen; the repair instance lets a second launch find what the first is
removing. In the failover instance one bucket is spent by one call and another
by two, so that rankings change between and during the two walks, three
failures allow a lane to be retried, given up and its sibling to fail too, and
`opencode` is the target that may go away while it is ranked.

CHECK_DEADLOCK is off where the system may come to rest: all calls of the
ledger returned, the bound on gateway calls reached, nothing to do in a store,
every walk answered, every launch ended.
Symmetry is used only without liveness properties.

### Fairness

- *Forwarding*: weak fairness of the steps of a running command and of a
  collector that is up (ordinary code), and of time. Strong fairness of
  starting a pair's flush: the code has no daemon for it, so that someone (the
  next enqueue, a cron job) keeps flushing is an assumption, and
  without it an event can stay in the spool for ever. Nothing is assumed of
  faults, which are bounded in number.
- *UsageLedger*: weak fairness of the steps of a started call. A call never
  waits for another, so it needs nothing else.
- *Gateway*: weak fairness of a call's own code. That providers answer is the
  premise of the property, not an assumption of the specification.
- *Routing*: weak fairness of a walk's own steps and of the time limit. The
  code also waits, without a limit, for the end of a command's output
  (`join_reader`) and for the answer of an API; `WalkEnds` therefore assumes
  that `ReadOutput` and `Answer` happen, and a process that keeps the pipe
  open, or a silent server, does hang a walk.
- *SchemaMigration*: weak fairness of the statements of an open, of closing,
  and of opening: commands and hooks keep coming. Without the last a store
  that nobody opens is never upgraded, which is as it should be.

## 4. What the models found

Kept as a run, with the line and the text it contradicts in `PROJECT.json`:
`migrate` reads the version once and every batch stamps its own number. If two
opens of a version 4 store overlap, the slower one stamps 5 over the 9 of the
faster one (`lib.rs:2043`), fails to add `body_full`, and so does every later
open. `DESIGN.md:129` promises that every store opens in every future version.
A death between a column and its stamp does the same; by `RefusedOnlyIfHurt`
there is no third way.

Behaviours that the models also have and that contradict a comment or a
document, not kept as runs of their own. In forwarding and the ledger:
`delivered` deletes a spool row by event id alone (`spool.rs:287`), so that with
ids chosen by the caller the late acknowledgement of one pair's event removes
another pair's; with generated ids it cannot happen (theorem `NothingLost`). The
ledger's steal removes whatever lock file is at the path
(`usage_ledger.rs:1098`): a second thief removes the first one's, and both hold
the lock.

In the store: `set_block` leaves the replaced version in the full-text index
(`lib.rs:4014`, against the comment at 4007); `delete_rows` binds one value per
row *found* to one placeholder per id *asked for* (`lib.rs:3736`), so that with a
repeated id it is refused after the index entries are gone; two concurrent `set_block` leave two rows of a "singleton"
block (`lib.rs:4005`); two concurrent sweeps can keep a rewrite as the original
(`lib.rs:2845`); a `delete_row` cut short leaves a row without an index entry
(`lib.rs:3666`); a ledger row appended without the lock can be overwritten by a
trim although the call reported success (`usage_ledger.rs:1063`); metrics can
be pushed out of the order of their ids (`gateway.rs:29`), and
`budget_spent_usd` is cumulative only over the metric window
(`gateway.rs:502`), while the limit itself is enforced on the true total.

In session migration: whether a destination exists is asked before the staging
file is built (`opencode_sessions.rs:2476`), and the operation lock does not keep
out the first launch of that project, which creates the database meanwhile; the
rename then replaces rows its child has committed, although `main.rs:3292` says
that catch-up never replaces private rows (`PrivateRowsKept` is proved for
projects that have their store). `docs/USAGE.md` calls an explicit `apply`
strict, with conflicts rolling back; `merge_destination` always keeps the
private row and files the other. A launch creates an empty database first, so
that the merge finds a destination and never seeds the tables of a new one. The
catch-up looks for malformed sessions among directly routed ones only.

In runtime repair: `ArchivedBeforeRemoved` is about sessions. Rows added to a
malformed session after `VACUUM INTO` are removed without a copy. So can a whole
session be: a launch finds a malformed session, a child deletes one of its
descendants before the archive is made, a migration brings it back before the
removal. The proof attempt showed this and TLC confirmed it on four sessions;
the history `deleted` is there to except it from the property.
`CheckpointVouches` says exactly what an accepted checkpoint can hide.

In routing and failover: a blank success is recorded as ok and a target that is
not installed leaves no row, although `invoke.rs:815` relies on every failure
being recorded; `claude` without a model fails unrecorded and ends the walk.
The router ranks with the project's configuration and `invoke_agent` looks the
target up in the global one, so that a target only the project enables is ranked
and then refused, which ends the walk too. Alternatives of a pinned lane put its
exhausted siblings before healthy other targets, against the comment that
exhausted ones are a last resort, so `SpentIsLastResort` is about walks that are
not pinned. The comparison of observed room is not transitive when pools with
and without observations are mixed: the order of the healthy lanes then depends
on the order they are compared in. That spent lanes come last does not depend
on it, as whether a lane is spent is compared first; the proof uses no more.

## 5. What is proved

All theorems hold for every value of the constants that satisfies the named
assumptions of the modules.

| theorem | statement | rests on |
|---|---|---|
| `ForwardingProofs!TypeCorrect` | `Spec => []TypeOK` | `ShiftAssumption` (powers of two are naturals, which the provers cannot find) |
| `ForwardingProofs!OnceStored` | one live memory per event, receipts correspond, own store only | `StoreInv`: a transaction whose snapshot is current inserts a key without receipt |
| `ForwardingProofs!ReceiptsRight`, `OwnStore` | its two other parts by themselves | the same |
| `ForwardingProofs!NothingLost` | accepted events are queued or stored | `UniqueIds`, and `AckInv`: whoever holds an acknowledgement knows the event stored |
| `ForwardingProofs!Refinement` | `Forwarding` implements `ForwardingContract` | `UniqueIds`, the same invariant |
| `UsageLedgerProofs!TypeCorrect` | `Spec => []TypeOK` | – |
| `UsageLedgerProofs!Bounded` | at most `Cap` lines plus one for each call that wrote and did not trim | `CallInv`: what a trim holds is at most `Cap` lines; counts of finite sets |
| `UsageLedgerProofs!Serialized` | until a lock ages, who holds the lock made the lock file | `FreshInv` |
| `UsageLedgerProofs!NewestSurvive` | while no lock aged, nothing failed and everybody got the lock, the newest rows can be read | `TextInv`, below |
| `GatewayProofs!TypeCorrect` | shared state and calls keep their types, attempts stay within the policy | `TypeInv`: what each program counter implies of a call |
| `GatewayProofs!CacheInOrder` | the cache holds what its order lists, once each, within its cap | `CacheInv` |
| `GatewayProofs!RouteHonoured` | an explicit route is answered by its provider, also from the cache | `RouteInv`: the same of the cached answers and of the calls under way |
| `GatewayProofs!DispatchLedgered` | every dispatch is in the ledger, awaited or was abandoned, and the metrics lag by the calls about to be pushed | inductive by itself; how a step changes the number of calls at a place (`Moves`) |
| `GatewayProofs!Overshoot` | the limit is passed by less than one answer per client | `SpendInv`: spending plus what the admitted can still spend |
| `MemoryStoreProofs!NoVanishing` | what was saved is there, in a digest that is, or was removed on request | `ConsolidationInv`, below |
| `MemoryStoreProofs!TypeCorrect` | tables and calls keep their types, no row without text | `PhaseInv` |
| `MemoryStoreProofs!OriginalSurvives` | `body_full` is the text a row was saved with | no two compression sweeps overlap (`OneSweep`, a hypothesis); `OriginalInv` |
| `MemoryStoreProofs!IndexFollows` | at rest, full-text index and table agree | one operation at a time (`OneAtATime`), no `set_block`, no repeated id, all hypotheses; `IndexInv` |
| `MemoryStoreProofs!SweepLeaves` | a sweep leaves at most `KeepRecent` rows to consolidate | `OneAtATime`, `SettleInv` |
| `StoreFileProofs!TypeCorrect` | tables and calls keep their types, no vector outlives its row | `StoreInv`, below |
| `StoreFileProofs!RegistryCorrect` | vectors of a registered model have its length | `StoreInv`, below |
| `StoreFileProofs!NoMixing` | `NeverMixed`: no step mixes lengths in a model that has one | the same |
| `StoreFileProofs!StoreTypeCorrect` | schema, version and opens in progress keep their types | `ShapeInv`, and what the nine batches look like (`Shape`) |
| `StoreFileProofs!OpenedComplete` | who has the store open finds the whole schema | `RunInv`, below |
| `StoreFileProofs!OwnProject` | a project's connection is on its own project's file | inductive by itself: the first identity stays |
| `StoreFileProofs!RefusedOnlyHurt` | a file is refused for ever in two ways only | `GapInv`, below |
| `SessionMigrationProofs!TypeCorrect` | types, and the source is read at most `ReadTries` times | `TriesLeft` |
| `SessionMigrationProofs!MergeTwice`, `Repeatable` | merging a selection twice is merging it once and files no further fork | what each operator of the merge does to rows and histories |
| `SessionMigrationProofs!IdsUnique` | no event id comes into a store twice | the same of the source and of every snapshot |
| `SessionMigrationProofs!PrivateKept` | no private row, history or file is replaced | `ProjectsExist`, and `StoresStay`, below |
| `SessionMigrationProofs!UpToDateCopied` | what the manifest calls up to date is in its store, or was changed there | `CopyInv`, below |
| `RuntimeRepairProofs!TypeCorrect` | types, and a refresh is attempted at most `RefreshTries` times | `TriesLeft` |
| `RuntimeRepairProofs!RootsRight` | the root count of an accepted checkpoint is current | `RootsInv`, below |
| `RuntimeRepairProofs!ArchivedFirst` | what repairs removed is in an archive, unless a child had deleted it | `ArchiveInv`, below |
| `RuntimeRepairProofs!VouchesRight` | an accepted checkpoint hides nothing its launch could have seen | `VouchInv`, below |
| `FailoverProofs!TypeCorrect` | types, and no lane is tried more often than the policy says | `WalkInv`, below |
| `FailoverProofs!OrderedCharges` | lanes are charged in ranked order, again only after a transient failure, never after an answer or a fatal one | the same |
| `FailoverProofs!FaithfulTrail` | the trail is the lanes given up, in order, and a halt is at its end | the same |
| `FailoverProofs!SpentLastResort` | lanes that were spent when ranked are charged only after all others were given up | `RankInv`, below |
| `FailoverProofs!QuotaAlone` | a bucket that answered "quota" is not charged again by the same walk | the same: no two ranked lanes share a bucket |

The inductive invariants themselves are theorems too (`Invariance`,
`SpendInvariance`); TLC had checked them on the instances of section 3 first.

*Why they are needed.* `NoAcceptedEventLost` alone is not inductive: a step
may drop a spool row because of an acknowledgement, so the invariant must say
that every acknowledgement anywhere (in a receipt, an answer under way, the
hands of a command) is of a stored event, and that the answer a command waits
for is about the item it is sending. `NothingVanishes` is not inductive
because a consolidator deletes from a list read long before: `ConsolidationInv`
says that its list speaks for everything it is about to delete, that all of it
is older than its digest, and that every fact of the list is carried by a row
*at least as new as the digest*. The last clause is what stops two
consolidators from deleting what the other relies on: if one deletes a row that
carries a fact, its own digest carries it and is newer. `RegistryHolds` is not
inductive because of the gap between the scan of the stored vectors and the
registration; `StoreInv` says that in that gap the model is registered by
someone else or still has no vector of another length, and that whoever is
about to write has seen the registered length to be its own. `PrivateRowsKept`
needs `StoresStay`: a store that exists keeps its file, so that the connection of
a child and the path mean the same one, and only missing destinations are
published by a rename. `RootsCurrent` needs that no step changes a session
without moving the generation, and that a count taken under a stamp is right
while the generation is still the stamped one. `ChargesInOrder` needs to know
where a walk stands: `WalkInv` says that the rows a walk has left are failures of
lanes up to its present one, none of that one being a quota failure, and that its
trail names the lanes before it.

`NewestRowsKept` needs that the text a trim carries between reading and writing
is the newest rows too, which holds because only the holder of the lock touches
the file. `IndexExact` speaks of the
store at rest; `IndexInv` says for every statement of every operation which row
the index shows with which text meanwhile. `UpToDateMeansCopied` is about a
manifest written last: `CopyInv` follows a session from the snapshot through the
stores already merged to the manifest: the copy that was read is the source as
long as the source has the stamped generation, and each of its sessions is in the
store it routes to unless that one is still to be merged; what a merge put there
leaves only if the user deletes it. `ArchivedBeforeRemoved` needs that what a
launch found malformed is still there or already archived until it has its own
archive, and that an archive named for the current generation holds the whole
store, so that one may be used again. `CheckpointVouches` follows each launch:
what it has found is all that is malformed but for what others wrote since its
scan, and after its repair the store is clean but for that.

`SpentIsLastResort` is about the order of a sorted list and about a walk that
follows it. The sort is a recursive function; since the induction theorems of the
library cannot be used (they take an operator), the lemmas look at the least
length for which they would fail, which exists because the naturals are
well-founded: an insertion neither drops nor adds a lane, keeps buckets apart and
keeps spent lanes behind the others, so that no length is the least. `Ranked` and `Placed` say that of
the list of each walk and of the rows it has left.

`OpenedIsComplete` needs to know what an open has behind it: `RunInv` says that
the objects of the batches and statements an open passed, and of the batches up
to the stamped version, are in the schema. Nothing drops them, so that a version
that others move up and down does no harm to completeness.
`RefusedOnlyIfHurt` needs that columns above the version belong to an open that
is within that very batch (`HurtInv`). An open that fails on a column that is
there would refute it, if it had itself added a column of the batch before: only
the fourth batch adds two, and `PairInv` says that the second one is not there
while an open is between them, and that no two opens are.

*Proof layout.* One lemma per effect (what an action changes), one step per
action, one conjunct of the invariant at a time; the temporal step is last.

*Only model-checked.* Liveness (`SpoolDrains`, `EveryCallReturns`, `WalkEnds`,
`Upgraded`), which needs fairness and ENABLED and is out of the prover's reach.
Every invariant and every action property of the runs is stated by a theorem,
some under hypotheses the table names: `IndexExact` and `SweepSettles` are proved
for operations that do not overlap, which is how `store_serial` checks them, and
`OriginalKept` for sweeps that do not. `StoreOpens` is false.

## 6. What is not modelled, and why

- Files' ownership, permissions and paths; these are preconditions of opening
  spool, ledger and store.
- Clocks going backwards; corruption of stored rows; hash collisions; poisoned
  locks (the code recovers the guard).
- Generations that fail to tell two states of an OpenCode database apart. The code
  hashes device, inode, length and modification time of the database and its WAL
  and the WAL's first and last headers (`source_generation`); in the models every
  commit has a generation of its own. Commits that leave all of these alike within
  the granularity of the file system's clock are not modelled.
- The force flag of `flush`, which only the tests set.
- Contents and lengths of texts, vectors' values, prices: abstracted to what
  the properties tell apart. Other projects and block names of a store are
  disjoint from the modelled one.
- The limits of 10 000 and 100 000 rows of a consolidation list.
- The backup command of `opencode_sessions.rs`, the quarantine of prompt histories
  in `main.rs`, token counts per ledger row, windows other than the current one,
  more than one way of calling a target.
- The read-only inspection of a project store; checks of owner and mode.
- Fair sweeps of the auto-embed daemon: rows are taken one at a time in
  `Embeddings`, so that a batch full of rows the embedder always refuses, which
  starves the older ones (`daemons.rs:327`), does not arise.
- Stateless text processing (compression, output proxy, secrets, templates,
  scanner), cryptography, operating-system enforcement, packaging.

## 7. Plan

The order is by how much concurrent or failure-prone state a part has.

1. **Done**: `Forwarding` with its contract, `UsageLedger`, `Gateway`,
   `MemoryStore`, `Embeddings`, `SchemaMigration`, `SessionMigration`,
   `RuntimeRepair`, `Failover` with `Routing`, each with runs and theorems.
2. **More proofs**: an abstract specification of the budget and of the ledger
   (what `NewestRowsKept` and `LedgerBounded` say together) and its refinement;
   the steps towards liveness that are safety, such as measures that decrease.
3. **Re-attribution and pruning** on top of `MemoryStore`; liveness of the
   embedding sweeps.
4. **Backup of session stores** and the quarantine of prompt histories.
5. **Model list cache**, transcript cache, setup with rollback, proxy
   statistics, prompt registry.

The run that ends in a violation is to be dropped once the code changes;
`StoreOpens` then belongs in `migrations`.
