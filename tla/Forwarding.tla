------------------------------ MODULE Forwarding ------------------------------
(***************************************************************************)
(* Guest-to-host forwarding of memory events.                              *)
(*                                                                         *)
(* A guest command (`rtrt forward enqueue` or `rtrt forward flush`) keeps  *)
(* every event in a private SQLite spool, posts it to the host's collector *)
(* and drops the spool row when the collector acknowledges it.  The        *)
(* collector checks the bearer token and files the event with              *)
(* MemoryStore::ingest_forwarded, whose receipt table makes redelivery     *)
(* harmless.  Any number of guest commands run at once over one spool; any *)
(* of them, or the collector, may die between two steps; requests and      *)
(* replies get lost; a timed-out request may still commit later.           *)
(***************************************************************************)
EXTENDS Integers, FiniteSets

CONSTANTS
    Events,       \* the WireEvents guests send: records [id, pair, body]
    Ids,          \* event ids
    Pairs,        \* (guest, project) pairs
    Bodies,       \* everything of an event but its id and its pair
    Tokens,       \* bearer tokens
    Unbound,      \* Binding of a token no credential record holds
    Binding,      \* token -> the pair it is configured for, or Unbound
    Credentials,  \* the (pair, token) combinations guests are started with
    FlushTokens,  \* the tokens flushes without a pair are started with
    Hosts,        \* host project stores
    HostOf,       \* pair -> the host store its mapping names
    Procs,        \* guest commands that may run at the same time
    NoProc,       \* client of a request nobody waits for any more
    Requests,     \* HTTP requests that may be in progress at the same time
    BatchLimit,   \* rows one flush takes (100 in the code)
    CapAttempts,  \* attempts from which the delay no longer grows (9)
    CapDelay,     \* the longest retry delay (300 s)
    MaxFaults,    \* bound: faults in one behaviour
    MaxDeletes    \* bound: host-side deletions in one behaviour

ASSUME EventsAssumption ==
    /\ Events \subseteq [id : Ids, pair : Pairs, body : Bodies]
    /\ Events # {}
    /\ Tokens # {}
    /\ NoProc \notin Procs

ASSUME CollectorAssumption ==
    /\ Unbound \notin Pairs
    /\ Binding \in [Tokens -> Pairs \union {Unbound}]
    /\ HostOf \in [Pairs -> Hosts]
    /\ Credentials \subseteq Pairs \X Tokens
    /\ FlushTokens \subseteq Tokens

ASSUME BoundsAssumption ==
    /\ BatchLimit \in Nat \ {0}
    /\ CapAttempts \in Nat \ {0}
    /\ CapDelay \in Nat \ {0}
    /\ MaxFaults \in Nat
    /\ MaxDeletes \in Nat

\* A fact of arithmetic that the provers, which have no theory of
\* exponentiation, cannot find by themselves; TLC evaluates it.
ASSUME ShiftAssumption == \A n \in 0..CapAttempts : 2^n \in Nat

\* An event id names one pair: what generated ids (UUIDs) ensure and ids
\* chosen by the caller (--event-id) do not.
UniqueIds == \A e, f \in Events : e.id = f.id => e.pair = f.pair

VARIABLES
    \* guest
    spool,      \* rows of forward_spool
    pc,         \* where each command is
    selection,  \* what the command selects: "EventId", "Due" or "DuePair"
    event,      \* the event an enqueue carries
    filter,     \* the pair of a DuePair selection
    token,      \* the bearer token of the command
    batch,      \* Pending items the command still has to send
    current,    \* the Pending item being sent
    ok,         \* outcome of the last send_one
    \* host
    req,        \* requests on the wire or inside the collector
    memories,   \* rows of `memories` that ingest_forwarded wrote
    receipts,   \* rows of `forwarded_event_receipts`
    lastId,     \* AUTOINCREMENT sequence of each host store
    \* environment and history
    faults,     \* faults so far
    deletes,    \* host-side deletions so far
    accepted,   \* keys the spool has ever accepted
    stored      \* keys ingest_forwarded has ever committed

commandVars == <<selection, event, filter, token>>
guestVars == <<spool, pc, commandVars, batch, current, ok>>
storeVars == <<memories, receipts, lastId, stored>>
budgetVars == <<faults, deletes>>
vars == <<guestVars, req, storeVars, budgetVars, accepted>>

-----------------------------------------------------------------------------
(* Data.  `wait` is next_attempt_ms - now, floored at 0: a row is due when  *)
(* it is 0.  `attempts` stops at CapAttempts, beyond which the code's       *)
(* counter grows but no longer changes the delay, its only use.  `after`    *)
(* holds the ids of the rows with a smaller rowid, so that the rows are     *)
(* ordered as the code orders them without numbering them.                  *)

Key(e) == <<e.id, e.pair>>
Keys == Ids \X Pairs

Row == [ev : Events, after : SUBSET Ids, attempts : Nat, wait : Nat]
Pending == [ev : Events, after : SUBSET Ids, attempts : Nat]
Memory == [host : Hosts, id : Nat, ev : Events]
Receipt == [host : Hosts, key : Keys, memory_id : Nat]
Request == [st : {"free", "sent", "gated", "acked", "failed"},
            ev : Events, token : Tokens, client : Procs \union {NoProc},
            stale : BOOLEAN]

TypeOK ==
    /\ spool \subseteq Row
    /\ pc \in [Procs -> {"idle", "insert", "select", "send", "wait", "update"}]
    /\ selection \in [Procs -> {"EventId", "Due", "DuePair"}]
    /\ event \in [Procs -> Events]
    /\ filter \in [Procs -> Pairs]
    /\ token \in [Procs -> Tokens]
    /\ batch \in [Procs -> SUBSET Pending]
    /\ current \in [Procs -> Pending]
    /\ ok \in [Procs -> BOOLEAN]
    /\ req \in [Requests -> Request]
    /\ memories \subseteq Memory
    /\ receipts \subseteq Receipt
    /\ lastId \in [Hosts -> Nat]
    /\ faults \in 0..MaxFaults
    /\ deletes \in 0..MaxDeletes
    /\ accepted \subseteq Keys
    /\ stored \subseteq Keys

-----------------------------------------------------------------------------
(* Values of a command's locals while it does not run, and of a free slot. *)

AnyEvent == CHOOSE e \in Events : TRUE
AnyToken == CHOOSE t \in Tokens : TRUE
NoPending == [ev |-> AnyEvent, after |-> {}, attempts |-> 0]
FreeSlot == [st |-> "free", ev |-> AnyEvent, token |-> AnyToken,
             client |-> NoProc, stale |-> FALSE]

Init ==
    /\ spool = {}
    /\ pc = [p \in Procs |-> "idle"]
    /\ selection = [p \in Procs |-> "Due"]
    /\ event = [p \in Procs |-> AnyEvent]
    /\ filter = [p \in Procs |-> AnyEvent.pair]
    /\ token = [p \in Procs |-> AnyToken]
    /\ batch = [p \in Procs |-> {}]
    /\ current = [p \in Procs |-> NoPending]
    /\ ok = [p \in Procs |-> FALSE]
    /\ req = [r \in Requests |-> FreeSlot]
    /\ memories = {}
    /\ receipts = {}
    /\ lastId = [h \in Hosts |-> 0]
    /\ faults = 0
    /\ deletes = 0
    /\ accepted = {}
    /\ stored = {}

\* A fault: a crash, a lost message, a timeout, an I/O error.
Fault == faults < MaxFaults /\ faults' = faults + 1

-----------------------------------------------------------------------------
(* The spool.                                                              *)

\* The command starts with its arguments.
Start(p, at, sel, e, q, t) ==
    /\ pc[p] = "idle"
    /\ pc' = [pc EXCEPT ![p] = at]
    /\ selection' = [selection EXCEPT ![p] = sel]
    /\ event' = [event EXCEPT ![p] = e]
    /\ filter' = [filter EXCEPT ![p] = q]
    /\ token' = [token EXCEPT ![p] = t]
    /\ UNCHANGED <<spool, batch, current, ok, req, storeVars, budgetVars, accepted>>

\* The command returns: its locals are gone.
Exit(p) ==
    /\ pc' = [pc EXCEPT ![p] = "idle"]
    /\ selection' = [selection EXCEPT ![p] = "Due"]
    /\ event' = [event EXCEPT ![p] = AnyEvent]
    /\ filter' = [filter EXCEPT ![p] = AnyEvent.pair]
    /\ token' = [token EXCEPT ![p] = AnyToken]
    /\ batch' = [batch EXCEPT ![p] = {}]
    /\ current' = [current EXCEPT ![p] = NoPending]
    /\ ok' = [ok EXCEPT ![p] = FALSE]

\* enqueue_and_deliver up to the SELECT of spool.rs enqueue: an id is queued
\* with one payload only (the command fails on another), and queueing the same
\* payload again goes straight on to the delivery.
StartEnqueue(p, e, t) ==
    /\ \A r \in spool : r.ev.id = e.id => r.ev = e
    /\ Start(p, IF \E r \in spool : r.ev.id = e.id THEN "select" ELSE "insert",
             "EventId", e, e.pair, t)

\* The INSERT of spool.rs enqueue is a statement of its own: it fails on the
\* primary key when another command has queued the id since the SELECT.
EnqueueInsert(p) ==
    /\ pc[p] = "insert"
    /\ \A r \in spool : r.ev.id # event[p].id
    /\ spool' = spool \union
         {[ev |-> event[p], after |-> {r.ev.id : r \in spool}, attempts |-> 0, wait |-> 0]}
    /\ accepted' = accepted \union {Key(event[p])}
    /\ pc' = [pc EXCEPT ![p] = "select"]
    /\ UNCHANGED <<commandVars, batch, current, ok, req, storeVars, budgetVars>>

EnqueueConflict(p) ==
    /\ pc[p] = "insert"
    /\ \E r \in spool : r.ev.id = event[p].id
    /\ Exit(p)
    /\ UNCHANGED <<spool, req, storeVars, budgetVars, accepted>>

\* forward.rs flush and flush_pair.
StartFlush(p, t) == Start(p, "select", "Due", AnyEvent, AnyEvent.pair, t)
StartFlushPair(p, q, t) == Start(p, "select", "DuePair", AnyEvent, q, t)

\* The rows a selection may take, whatever the batch limit.
Selectable(p) ==
    CASE selection[p] = "EventId" -> {r \in spool : r.ev.id = event[p].id}
      [] selection[p] = "Due"     -> {r \in spool : r.wait = 0}
      [] selection[p] = "DuePair" -> {r \in spool : r.wait = 0 /\ r.ev.pair = filter[p]}

\* An unfiltered flush refuses a spool that holds more than one pair, due or not.
MixedSpool(p) ==
    selection[p] = "Due" /\ \E r, s \in spool : r.ev.pair # s.ev.pair

\* spool.rs select: the first BatchLimit rows by rowid.
Selected(p) ==
    IF MixedSpool(p) THEN {}
    ELSE {r \in Selectable(p) :
            Cardinality({s \in Selectable(p) : s.ev.id \in r.after}) < BatchLimit}

\* flush_to_url reads its batch once; the rows may change under it.
SelectBatch(p) ==
    /\ pc[p] = "select"
    /\ Selected(p) # {}
    /\ batch' = [batch EXCEPT ![p] =
                   {[ev |-> r.ev, after |-> r.after, attempts |-> r.attempts] : r \in Selected(p)}]
    /\ pc' = [pc EXCEPT ![p] = "send"]
    /\ UNCHANGED <<spool, commandVars, current, ok, req, storeVars, budgetVars, accepted>>

SelectNothing(p) ==
    /\ pc[p] = "select"
    /\ Selected(p) = {}
    /\ Exit(p)
    /\ UNCHANGED <<spool, req, storeVars, budgetVars, accepted>>

-----------------------------------------------------------------------------
(* Delivery, guest side.                                                   *)

\* send_one posts the first item left of the batch.
Send(p, r) ==
    /\ pc[p] = "send"
    /\ req[r].st = "free"
    /\ \E item \in batch[p] :
         /\ \A other \in batch[p] : other.ev.id \notin item.after
         /\ current' = [current EXCEPT ![p] = item]
         /\ req' = [req EXCEPT ![r] = [st |-> "sent", ev |-> item.ev, token |-> token[p],
                                       client |-> p, stale |-> FALSE]]
    /\ pc' = [pc EXCEPT ![p] = "wait"]
    /\ UNCHANGED <<spool, commandVars, batch, ok, storeVars, budgetVars, accepted>>

\* The client of request r learns the outcome of send_one.
Outcome(r, success) ==
    LET p == req[r].client IN
    IF p = NoProc
    THEN UNCHANGED <<pc, ok>>
    ELSE /\ pc' = [pc EXCEPT ![p] = "update"]
         /\ ok' = [ok EXCEPT ![p] = success]

\* The 8 s client timeout, or a broken connection: the client gives up, the
\* request itself may still be read, or already be at work in the collector.
ClientTimeout(r) ==
    /\ req[r].client # NoProc
    /\ Fault
    /\ Outcome(r, FALSE)
    /\ req' = [req EXCEPT ![r].client = NoProc]
    /\ UNCHANGED <<spool, commandVars, batch, current, storeVars, deletes, accepted>>

\* The request never reaches the collector: refused connection, lost bytes.
Lose(r) ==
    /\ req[r].st = "sent"
    /\ Fault
    /\ Outcome(r, FALSE)
    /\ req' = [req EXCEPT ![r] = FreeSlot]
    /\ UNCHANGED <<spool, commandVars, batch, current, storeVars, deletes, accepted>>

\* forward.rs retry_delay, in seconds.
retry_delay(attempts) == IF attempts >= CapAttempts THEN CapDelay ELSE 2^attempts

\* spool.rs delivered: by event id, whatever the row holds now.
Delivered(id) ==
    {[r EXCEPT !.after = @ \ {id}] : r \in {s \in spool : s.ev.id # id}}

\* spool.rs retry: attempts is the count of the batch item plus one, not of the row.
Retried(id, attempts) ==
    {IF r.ev.id = id
     THEN [r EXCEPT !.attempts = attempts, !.wait = retry_delay(attempts)]
     ELSE r : r \in spool}

\* The attempts counter of an item after one more failure.
OneMore(item) == IF item.attempts < CapAttempts THEN item.attempts + 1 ELSE CapAttempts

\* flush_to_url after send_one: update the spool, go on with the batch.
UpdateSpool(p) ==
    LET item == current[p] IN
    /\ pc[p] = "update"
    /\ spool' = IF ok[p] THEN Delivered(item.ev.id) ELSE Retried(item.ev.id, OneMore(item))
    /\ IF batch[p] \subseteq {item}
       THEN Exit(p)
       ELSE /\ pc' = [pc EXCEPT ![p] = "send"]
            /\ batch' = [batch EXCEPT ![p] = @ \ {item}]
            /\ current' = [current EXCEPT ![p] = NoPending]
            /\ ok' = [ok EXCEPT ![p] = FALSE]
            /\ UNCHANGED commandVars
    /\ UNCHANGED <<req, storeVars, budgetVars, accepted>>

\* A guest command dies, or gives up because the spool stays locked: what it
\* had sent is no longer awaited.
ProcCrash(p) ==
    /\ pc[p] # "idle"
    /\ Fault
    /\ Exit(p)
    /\ req' = [r \in Requests |->
                 IF req[r].client = p THEN [req[r] EXCEPT !.client = NoProc] ELSE req[r]]
    /\ UNCHANGED <<spool, storeVars, deletes, accepted>>

\* Time passes: every delay is one unit shorter.
Tick ==
    /\ \E r \in spool : r.wait > 0
    /\ spool' = {[r EXCEPT !.wait = IF @ > 0 THEN @ - 1 ELSE 0] : r \in spool}
    /\ UNCHANGED <<pc, commandVars, batch, current, ok, req, storeVars, budgetVars, accepted>>

-----------------------------------------------------------------------------
(* The collector and the host stores.                                      *)

\* Mutant: any configured token is good for any pair.
AuthorizedAnyPair(r) == Binding[req[r].token] # Unbound

\* collector.rs authorize and the pair check of ingest.
Authorized(r) == Binding[req[r].token] = req[r].ev.pair

\* The store the token's binding opens, and the receipts of the event in it.
Store(r) == HostOf[Binding[req[r].token]]
ReceiptsOf(r) == {c \in receipts : c.host = Store(r) /\ c.key = Key(req[r].ev)}

\* 401 or 403, before anything is read or written.
Reject(r) ==
    /\ req[r].st = "sent"
    /\ ~Authorized(r)
    /\ req' = [req EXCEPT ![r].st = "failed"]
    /\ UNCHANGED <<guestVars, storeVars, budgetVars, accepted>>

\* Mutant: no idempotency gate.
GateAlwaysOpen(r) ==
    /\ req[r].st = "sent"
    /\ Authorized(r)
    /\ req' = [req EXCEPT ![r].st = "gated"]
    /\ UNCHANGED <<guestVars, storeVars, budgetVars, accepted>>

\* Mutant: a redelivery is refused instead of acknowledged.
GateRefusesDuplicate(r) ==
    /\ req[r].st = "sent"
    /\ Authorized(r)
    /\ req' = [req EXCEPT ![r].st = IF ReceiptsOf(r) # {} THEN "failed" ELSE "gated"]
    /\ UNCHANGED <<guestVars, storeVars, budgetVars, accepted>>

\* ingest_forwarded, the idempotency gate: the deferred transaction takes its
\* read snapshot here.
Gate(r) ==
    /\ req[r].st = "sent"
    /\ Authorized(r)
    /\ req' = [req EXCEPT ![r].st = IF ReceiptsOf(r) # {} THEN "acked" ELSE "gated"]
    /\ UNCHANGED <<guestVars, storeVars, budgetVars, accepted>>

\* A committed write to store h makes every other open snapshot of h stale.
Overtaken(h) ==
    {r \in Requests : req[r].st = "gated" /\ Store(r) = h}

\* Mutant: the gate is read outside the transaction, no key rejects the insert.
CommitUnchecked(r) ==
    LET h == Store(r)
        id == lastId[h] + 1
    IN
    /\ req[r].st = "gated"
    /\ memories' = memories \union {[host |-> h, id |-> id, ev |-> req[r].ev]}
    /\ receipts' = receipts \union
         {[host |-> h, key |-> Key(req[r].ev), memory_id |-> id]}
    /\ lastId' = [lastId EXCEPT ![h] = id]
    /\ stored' = stored \union {Key(req[r].ev)}
    /\ req' = [req EXCEPT ![r].st = "acked"]
    /\ UNCHANGED <<guestVars, budgetVars, accepted>>

\* insert_forwarded_rows and commit: memory, full-text mirror and receipt in
\* one transaction, which SQLite refuses to a stale snapshot.
Commit(r) ==
    LET h == Store(r)
        id == lastId[h] + 1
    IN
    /\ req[r].st = "gated"
    /\ ~req[r].stale
    /\ memories' = memories \union {[host |-> h, id |-> id, ev |-> req[r].ev]}
    /\ receipts' = receipts \union
         {[host |-> h, key |-> Key(req[r].ev), memory_id |-> id]}
    /\ lastId' = [lastId EXCEPT ![h] = id]
    /\ stored' = stored \union {Key(req[r].ev)}
    /\ req' = [s \in Requests |->
                 IF s = r THEN [req[s] EXCEPT !.st = "acked"]
                 ELSE IF s \in Overtaken(h) THEN [req[s] EXCEPT !.stale = TRUE]
                 ELSE req[s]]
    /\ UNCHANGED <<guestVars, budgetVars, accepted>>

\* The error path of ingest_forwarded: the transaction rolled back, the
\* receipt is looked up again outside it.
Fallback(r) ==
    /\ req' = [req EXCEPT ![r].st = IF ReceiptsOf(r) # {} THEN "acked" ELSE "failed",
                          ![r].stale = FALSE]
    /\ UNCHANGED <<guestVars, storeVars, deletes, accepted>>

StaleSnapshot(r) ==
    /\ req[r].st = "gated"
    /\ req[r].stale
    /\ Fallback(r)
    /\ UNCHANGED faults

\* Disk full, lock timeout: the write fails on a fresh snapshot too.
StoreError(r) ==
    /\ req[r].st = "gated"
    /\ Fault
    /\ Fallback(r)

\* The 10 s limit of the ingest handler: 504, while the blocking task goes on.
HandlerTimeout(r) ==
    /\ req[r].st \in {"sent", "gated"}
    /\ Authorized(r)
    /\ req[r].client # NoProc
    /\ Fault
    /\ Outcome(r, FALSE)
    /\ req' = [req EXCEPT ![r].client = NoProc]
    /\ UNCHANGED <<spool, commandVars, batch, current, storeVars, deletes, accepted>>

\* Mutant: any response counts as an acknowledgement.
ReplyAnyStatus(r) ==
    /\ req[r].st \in {"acked", "failed"}
    /\ Outcome(r, TRUE)
    /\ req' = [req EXCEPT ![r] = FreeSlot]
    /\ UNCHANGED <<spool, commandVars, batch, current, storeVars, budgetVars, accepted>>

\* The response: send_one succeeds on a 2xx with a positive memory_id, and
\* fails on everything else.
Reply(r) ==
    /\ req[r].st \in {"acked", "failed"}
    /\ Outcome(r, req[r].st = "acked")
    /\ req' = [req EXCEPT ![r] = FreeSlot]
    /\ UNCHANGED <<spool, commandVars, batch, current, storeVars, budgetVars, accepted>>

\* The collector dies: open transactions roll back, every client sees an error.
CollectorCrash ==
    /\ \E r \in Requests : req[r].st # "free"
    /\ Fault
    /\ LET cut == {req[r].client : r \in Requests} \ {NoProc} IN
         /\ pc' = [p \in Procs |-> IF p \in cut THEN "update" ELSE pc[p]]
         /\ ok' = [p \in Procs |-> IF p \in cut THEN FALSE ELSE ok[p]]
    /\ req' = [r \in Requests |-> FreeSlot]
    /\ UNCHANGED <<spool, commandVars, batch, current, storeVars, deletes, accepted>>

\* Mutant: the receipt outlives its memory.
DeleteMemoryOnly(m) ==
    /\ deletes < MaxDeletes
    /\ deletes' = deletes + 1
    /\ memories' = memories \ {m}
    /\ req' = [r \in Requests |->
                 IF r \in Overtaken(m.host) THEN [req[r] EXCEPT !.stale = TRUE] ELSE req[r]]
    /\ UNCHANGED <<guestVars, receipts, lastId, stored, faults, accepted>>

\* MemoryStore::delete and delete_row: the receipt goes with its memory.
DeleteMemory(m) ==
    /\ deletes < MaxDeletes
    /\ deletes' = deletes + 1
    /\ memories' = memories \ {m}
    /\ receipts' = {c \in receipts : ~(c.host = m.host /\ c.memory_id = m.id)}
    /\ req' = [r \in Requests |->
                 IF r \in Overtaken(m.host) THEN [req[r] EXCEPT !.stale = TRUE] ELSE req[r]]
    /\ UNCHANGED <<guestVars, lastId, stored, faults, accepted>>

\* Any other write to the store: a capture, a save, an embedding sweep.
HostWrite(h) ==
    /\ Overtaken(h) # {}
    /\ Fault
    /\ req' = [r \in Requests |->
                 IF r \in Overtaken(h) THEN [req[r] EXCEPT !.stale = TRUE] ELSE req[r]]
    /\ UNCHANGED <<guestVars, storeVars, deletes, accepted>>

-----------------------------------------------------------------------------
GuestStep(p) ==
    \/ EnqueueInsert(p) \/ EnqueueConflict(p)
    \/ SelectBatch(p) \/ SelectNothing(p)
    \/ UpdateSpool(p)
    \/ \E r \in Requests : Send(p, r)

CollectorStep(r) ==
    Reject(r) \/ Gate(r) \/ Commit(r) \/ StaleSnapshot(r) \/ Reply(r)

Command(p) ==
    \/ \E e \in Events, t \in Tokens :
         <<e.pair, t>> \in Credentials /\ StartEnqueue(p, e, t)
    \/ \E t \in FlushTokens : StartFlush(p, t)
    \/ \E c \in Credentials : StartFlushPair(p, c[1], c[2])

Environment ==
    \/ \E p \in Procs : ProcCrash(p)
    \/ \E r \in Requests :
         ClientTimeout(r) \/ Lose(r) \/ StoreError(r) \/ HandlerTimeout(r)
    \/ CollectorCrash
    \/ \E h \in Hosts : HostWrite(h)
    \/ \E m \in memories : DeleteMemory(m)

Next ==
    \/ \E p \in Procs : Command(p) \/ GuestStep(p)
    \/ \E r \in Requests : CollectorStep(r)
    \/ Tick
    \/ Environment

Spec == Init /\ [][Next]_vars

(* Commands that run go on running, a collector that is up answers, time    *)
(* passes, and whoever queued events of a pair keeps starting that pair's   *)
(* flush (a cron job or the next enqueue): the code has no daemon for it.   *)
Fairness ==
    /\ \A p \in Procs : WF_vars(GuestStep(p))
    /\ \A r \in Requests : WF_vars(CollectorStep(r))
    /\ WF_vars(Tick)
    /\ \A c \in Credentials : SF_vars(\E p \in Procs : StartFlushPair(p, c[1], c[2]))

FairSpec == Spec /\ Fairness

-----------------------------------------------------------------------------
(* Properties.                                                             *)

Queued == {Key(r.ev) : r \in spool}

\* What the spool accepted (enqueue returned, or died after its INSERT) is
\* still queued, unless the host has stored it: no interleaving of flushes,
\* crash, lost reply or late commit makes `delivered` drop an event the
\* collector never stored.
NoAcceptedEventLost == accepted \subseteq Queued \union stored

\* However often an event is delivered, concurrently, late or again after a
\* lost acknowledgement, at most one live memory on any host comes from it.
ExactlyOnce == \A m, n \in memories : Key(m.ev) = Key(n.ev) => m = n

\* Memories and receipts come and go together, so that a redelivery always
\* resolves to a row that exists (ingest_forwarded, ON DELETE CASCADE).
ReceiptsMatchMemories ==
    /\ \A m \in memories :
         [host |-> m.host, key |-> Key(m.ev), memory_id |-> m.id] \in receipts
    /\ \A c \in receipts :
         \E m \in memories : m.host = c.host /\ m.id = c.memory_id /\ Key(m.ev) = c.key

\* An event lands in the store its own pair is mapped to, whichever token the
\* command that found it in the spool was given.
OwnStoreOnly == \A m \in memories : m.host = HostOf[m.ev.pair]

\* With finitely many faults, and flushes started again and again, every row
\* leaves the spool, which it does only once its event is stored: backoff never
\* parks it for good, rows of another pair do not keep it from the batch,
\* retries get through, and an acknowledged event is not sent for ever.
SpoolDrains == \A k \in Keys : k \in Queued ~> k \notin Queued

-----------------------------------------------------------------------------
(* The inductive invariant behind NoAcceptedEventLost and ExactlyOnce.      *)

\* Who waits for what: a request that has a client is about the item that
\* client is sending, and a client has one request.
AwaitInv ==
    /\ \A r \in Requests : req[r].client # NoProc =>
         /\ pc[req[r].client] = "wait"
         /\ req[r].st # "free"
         /\ req[r].ev = current[req[r].client].ev
    /\ \A r, s \in Requests :
         req[r].client # NoProc /\ req[r].client = req[s].client => r = s

\* An acknowledgement, in the collector or in the client's hands, means that
\* the event was stored.
AckInv ==
    /\ \A c \in receipts : c.key \in stored
    /\ \A r \in Requests : req[r].st = "acked" => Key(req[r].ev) \in stored
    /\ \A p \in Procs : pc[p] = "update" /\ ok[p] => Key(current[p].ev) \in stored

\* Everything under way was accepted by the spool.
OriginInv ==
    /\ Queued \subseteq accepted
    /\ \A p \in Procs : \A x \in batch[p] : Key(x.ev) \in accepted
    /\ \A r \in Requests : req[r].st # "free" => Key(req[r].ev) \in accepted

\* Only an authorized request gets as far as the store.
GateInv == \A r \in Requests : req[r].st = "gated" => Authorized(r)

\* Row ids are fresh, memories and receipts correspond, and a transaction
\* whose snapshot is still current inserts a key that has no receipt.
StoreInv ==
    /\ \A m \in memories : m.id <= lastId[m.host] /\ m.host = HostOf[m.ev.pair]
    /\ \A m, n \in memories : m.host = n.host /\ m.id = n.id => m = n
    /\ ReceiptsMatchMemories
    /\ \A c, d \in receipts :
         c.host = d.host /\ (c.key = d.key \/ c.memory_id = d.memory_id) => c = d
    /\ \A r \in Requests : req[r].st = "gated" /\ ~req[r].stale => ReceiptsOf(r) = {}

\* The invariant that every step preserves, when event ids name one pair.
IndInv ==
    /\ TypeOK
    /\ GateInv
    /\ AwaitInv
    /\ AckInv
    /\ OriginInv
    /\ StoreInv
    /\ NoAcceptedEventLost

-----------------------------------------------------------------------------
(* Refinement of the contract.                                             *)

Copies(k) == {<<m.host, m.id>> : m \in {n \in memories : Key(n.ev) = k}}

Contract == INSTANCE ForwardingContract WITH
    queued <- Queued, copies <- [k \in Keys |-> Copies(k)]

\* Seen from outside, forwarding is the contract: accept, store once, forget
\* only what is stored, and nothing else.
ImplementsContract == Contract!Spec
=============================================================================
