------------------------------- MODULE Gateway -------------------------------
(***************************************************************************)
(* The provider gateway (crates/rtrt-providers/src/gateway.rs): concurrent *)
(* chat calls that share a FIFO response cache, a spending limit, the      *)
(* metrics buffer and the metric id counter, each under a lock of its own. *)
(* An action is what a call does between two awaits or two lock scopes.    *)
(*                                                                         *)
(* A model id is a provider hint (NoHint when the id has no '/') and an    *)
(* upstream family; "starts with one of the prefixes" is membership of the *)
(* family in the provider's prefixes.  A cost is a whole number of units.  *)
(***************************************************************************)
EXTENDS Integers, Sequences, FiniteSets

CONSTANTS Clients,          \* callers of Gateway::chat, each one call at a time
          Providers,        \* registrations in order: [name, prefixes]
          Default,          \* index of the default provider, 0 for none
          Requests,         \* [model : [hint, upstream], body]
          NoHint, None,     \* no provider hint; no value
          MaxAttempts,      \* retry.max_attempts.max(1)
          FallbackToDefault,
          BudgetCap,        \* budget.cap_usd
          MaxCost,          \* the most one answer costs
          CacheCap,         \* 0 for no cache
          MetricWindow,     \* metric_window
          MaxDispatches     \* bound: provider calls in a behaviour

ASSUME GatewayAssumption ==
  /\ IsFiniteSet(Clients)
  /\ Len(Providers) \in Nat
  /\ Default \in 0..Len(Providers)
  /\ MaxAttempts \in Nat \ {0}
  /\ FallbackToDefault \in BOOLEAN
  /\ BudgetCap \in Nat \ {0}
  /\ MaxCost \in Nat
  /\ CacheCap \in Nat
  /\ MetricWindow \in Nat
  /\ MaxDispatches \in Nat

VARIABLES order, entries,   \* ResponseCache
          inner, summary, by_provider,   \* MetricsBuffer
          next_metric_id,
          ledger,           \* rows this gateway appended to the usage ledger
          pc, req, idx, routed, attempt, fellback, outcome, metric,
          result,           \* what the client's last call returned
          dispatched,       \* history: provider calls started
          cancelled         \* history: provider calls abandoned

cache == <<order, entries>>
metrics == <<inner, summary, by_provider>>
locals == <<req, idx, routed, attempt, fellback, outcome, metric>>
history == <<dispatched, cancelled>>
vars == <<cache, metrics, next_metric_id, ledger, pc, locals, result, history>>

Index == 1..Len(Providers)
Outcome == [ok : BOOLEAN, from : Index, cost : 0..MaxCost]
Metric == [id : Nat, provider : Index, cost : 0..MaxCost, ok : BOOLEAN]
Summary == [calls : Nat, failures : Nat, cost : Nat]
Steps == {"idle", "cache", "budget", "attempt", "await", "id", "push", "store"}

Init ==
  /\ order = <<>>
  /\ entries = [k \in {} |-> None]
  /\ inner = <<>>
  /\ summary = [calls |-> 0, failures |-> 0, cost |-> 0]
  /\ by_provider = [i \in Index |-> [calls |-> 0, failures |-> 0, cost |-> 0]]
  /\ next_metric_id = 1
  /\ ledger = 0
  /\ pc = [c \in Clients |-> "idle"]
  /\ req = [c \in Clients |-> None]
  /\ idx = [c \in Clients |-> 0]
  /\ routed = [c \in Clients |-> FALSE]
  /\ attempt = [c \in Clients |-> 0]
  /\ fellback = [c \in Clients |-> FALSE]
  /\ outcome = [c \in Clients |-> None]
  /\ metric = [c \in Clients |-> 0]
  /\ result = [c \in Clients |-> None]
  /\ dispatched = 0
  /\ cancelled = 0

Goto(c, step) == pc' = [pc EXCEPT ![c] = step]

Return(c, res) == Goto(c, "idle") /\ result' = [result EXCEPT ![c] = res]

Error == [ok |-> FALSE, from |-> 0]

------------------------------------------------------------------------------
(* Routing. *)

\* The first of some registrations, 0 when there is none.
First(hits) == IF hits = {} THEN 0 ELSE CHOOSE i \in hits : \A j \in hits : i <= j

lookup_index(model) ==
  LET i == First({j \in Index : model.upstream \in Providers[j].prefixes})
  IN IF i = 0 THEN Default ELSE i

\* The provider index, 0 for an error.
resolve_model(model) ==
  IF model.hint = NoHint
  THEN lookup_index(model)
  ELSE LET i == First({j \in Index : Providers[j].name = model.hint})
       IN IF i # 0 /\ (Providers[i].prefixes = {} \/ model.upstream \in Providers[i].prefixes)
          THEN i
          ELSE 0

------------------------------------------------------------------------------
(* chat_inner up to the first provider call. *)

\* Mutant: the key is taken from the request as it is sent upstream.
cache_keyUpstream(r) == [model |-> [hint |-> NoHint, upstream |-> r.model.upstream], body |-> r.body]

cache_key(r) == r

Busy == {c \in Clients : pc[c] # "idle"}

\* Bound: a call starts only if MaxDispatches leaves every call in progress
\* all of its attempts, so that the bound never stops a call halfway.
RoomForCall == dispatched + (MaxAttempts + 1) * (Cardinality(Busy) + 1) <= MaxDispatches

Call(c, r) ==
  /\ pc[c] = "idle"
  /\ RoomForCall
  /\ req' = [req EXCEPT ![c] = r]
  /\ result' = [result EXCEPT ![c] = None]
  /\ Goto(c, "cache")
  /\ UNCHANGED <<cache, metrics, next_metric_id, ledger, idx, routed, attempt,
                 fellback, outcome, metric, history>>

CacheLookup(c) ==
  /\ pc[c] = "cache"
  /\ LET key == cache_key(req[c])
     IN IF key \in DOMAIN entries
        THEN Return(c, [ok |-> TRUE, from |-> entries[key]])
        ELSE Goto(c, "budget") /\ UNCHANGED result
  /\ UNCHANGED <<cache, metrics, next_metric_id, ledger, locals, history>>

\* Mutant: the limit itself may still be spent from.
OverBudgetStrict == summary.cost > BudgetCap

OverBudget == summary.cost >= BudgetCap

\* The budget check and the routing decision; both may end the call.
Admit(c) ==
  /\ pc[c] = "budget"
  /\ LET i == resolve_model(req[c].model)
     IN IF OverBudget \/ i = 0
        THEN Return(c, Error) /\ UNCHANGED <<idx, routed, attempt, fellback>>
        ELSE /\ Goto(c, "attempt")
             /\ idx' = [idx EXCEPT ![c] = i]
             /\ routed' = [routed EXCEPT ![c] = req[c].model.hint # NoHint]
             /\ attempt' = [attempt EXCEPT ![c] = 0]
             /\ fellback' = [fellback EXCEPT ![c] = FALSE]
             /\ UNCHANGED result
  /\ UNCHANGED <<cache, metrics, next_metric_id, ledger, req, outcome, metric, history>>

------------------------------------------------------------------------------
(* dispatch_once. *)

Dispatch(c) ==
  /\ pc[c] = "attempt"
  /\ dispatched < MaxDispatches
  /\ dispatched' = dispatched + 1
  /\ Goto(c, "await")
  /\ UNCHANGED <<cache, metrics, next_metric_id, ledger, locals, result, cancelled>>

\* Mutant: only successful calls are written to the ledger.
LedgerRowsOnSuccess(res) == IF res.ok THEN 1 ELSE 0

\* record_dispatch_to_ledger writes one row, exact, estimated or failed.
LedgerRows(res) == 1

\* The provider answers; the ledger row is written before the task yields.
Answer(c, res) ==
  /\ pc[c] = "await"
  /\ res.from = idx[c]
  /\ ~res.ok => res.cost = 0
  /\ outcome' = [outcome EXCEPT ![c] = res]
  /\ ledger' = ledger + LedgerRows(res)
  /\ Goto(c, "id")
  /\ UNCHANGED <<cache, metrics, next_metric_id, req, idx, routed, attempt,
                 fellback, metric, result, history>>

AllocateId(c) ==
  /\ pc[c] = "id"
  /\ metric' = [metric EXCEPT ![c] = next_metric_id]
  /\ next_metric_id' = next_metric_id + 1
  /\ Goto(c, "push")
  /\ UNCHANGED <<cache, metrics, ledger, req, idx, routed, attempt, fellback,
                 outcome, result, history>>

record(s, m) ==
  [calls |-> s.calls + 1,
   failures |-> IF m.ok THEN s.failures ELSE s.failures + 1,
   cost |-> s.cost + m.cost]

\* Mutant: the window is trimmed before the new metric is pushed.
WindowedBefore(s, m) ==
  Append(SubSeq(s, IF Len(s) > MetricWindow THEN Len(s) - MetricWindow + 1 ELSE 1, Len(s)), m)

\* push_back, then pop_front while longer than metric_window.
Windowed(s, m) ==
  LET t == Append(s, m)
  IN SubSeq(t, IF Len(t) > MetricWindow THEN Len(t) - MetricWindow + 1 ELSE 1, Len(t))

push_metric(m) ==
  /\ summary' = record(summary, m)
  /\ by_provider' = [by_provider EXCEPT ![m.provider] = record(@, m)]
  /\ inner' = Windowed(inner, m)

CanFallBack(c) ==
  ~routed[c] /\ FallbackToDefault /\ Default # 0 /\ Default # idx[c] /\ ~fellback[c]

\* Mutant: a failed attempt does not count.
AfterFailureForever(c) ==
  /\ Goto(c, "attempt")
  /\ UNCHANGED <<attempt, idx, fellback, result>>

\* The loop of chat_inner after a failed attempt: another attempt on the
\* primary, one attempt on the default provider, or the error.
AfterFailure(c) ==
  IF attempt[c] + 1 < MaxAttempts /\ ~fellback[c]
  THEN /\ attempt' = [attempt EXCEPT ![c] = @ + 1]
       /\ Goto(c, "attempt")
       /\ UNCHANGED <<idx, fellback, result>>
  ELSE IF CanFallBack(c)
  THEN /\ fellback' = [fellback EXCEPT ![c] = TRUE]
       /\ idx' = [idx EXCEPT ![c] = Default]
       /\ Goto(c, "attempt")
       /\ UNCHANGED <<attempt, result>>
  ELSE Return(c, Error) /\ UNCHANGED <<attempt, idx, fellback>>

PushMetric(c) ==
  /\ pc[c] = "push"
  /\ push_metric([id |-> metric[c], provider |-> idx[c],
                  cost |-> outcome[c].cost, ok |-> outcome[c].ok])
  /\ IF outcome[c].ok
     THEN Goto(c, "store") /\ UNCHANGED <<attempt, idx, fellback, result>>
     ELSE AfterFailure(c)
  /\ UNCHANGED <<cache, next_metric_id, ledger, req, routed, outcome, metric, history>>

------------------------------------------------------------------------------
(* ResponseCache::insert and the return of a successful call. *)

\* Mutant: a key that is there replaces its entry and is queued again.
InsertBlindly(key, resp) ==
  LET full == key \notin DOMAIN entries /\ Cardinality(DOMAIN entries) >= CacheCap
      left == IF full THEN DOMAIN entries \ {Head(order)} ELSE DOMAIN entries
  IN /\ order' = Append(IF full THEN Tail(order) ELSE order, key)
     /\ entries' = [k \in left \cup {key} |-> IF k = key THEN resp ELSE entries[k]]

\* Entries never outnumber the cap, so the eviction loop runs at most once.
Insert(key, resp) ==
  IF key \in DOMAIN entries
  THEN UNCHANGED cache
  ELSE LET full == Cardinality(DOMAIN entries) >= CacheCap /\ order # <<>>
           left == IF full THEN DOMAIN entries \ {Head(order)} ELSE DOMAIN entries
       IN /\ order' = Append(IF full THEN Tail(order) ELSE order, key)
          /\ entries' = [k \in left \cup {key} |-> IF k = key THEN resp ELSE entries[k]]

Store(c) ==
  /\ pc[c] = "store"
  /\ IF CacheCap = 0
     THEN UNCHANGED cache
     ELSE Insert(cache_key(req[c]), outcome[c].from)
  /\ Return(c, [ok |-> TRUE, from |-> outcome[c].from])
  /\ UNCHANGED <<metrics, next_metric_id, ledger, locals, history>>

\* The caller drops the future while it awaits: a backoff sleep or the
\* provider.  Nothing after the await runs.
Cancel(c) ==
  /\ pc[c] = "await" \/ (pc[c] = "attempt" /\ attempt[c] > 0 /\ ~fellback[c])
  /\ cancelled' = IF pc[c] = "await" THEN cancelled + 1 ELSE cancelled
  /\ Goto(c, "idle")
  /\ UNCHANGED <<cache, metrics, next_metric_id, ledger, locals, result, dispatched>>

------------------------------------------------------------------------------
Own(c) ==
  \/ CacheLookup(c) \/ Admit(c) \/ Dispatch(c)
  \/ AllocateId(c) \/ PushMetric(c) \/ Store(c)

Next ==
  \E c \in Clients :
    \/ \E r \in Requests : Call(c, r)
    \/ Own(c)
    \/ \E res \in Outcome : Answer(c, res)
    \/ Cancel(c)

Spec == Init /\ [][Next]_vars

(* A call's own code runs on; nothing is assumed of providers and clients. *)
FairSpec == Spec /\ \A c \in Clients : WF_vars(Own(c))

------------------------------------------------------------------------------
(* Properties. *)

TypeOK ==
  /\ order \in Seq(Requests)
  /\ DOMAIN entries \subseteq Requests
  /\ \A k \in DOMAIN entries : entries[k] \in Index
  /\ inner \in Seq(Metric) /\ Len(inner) <= MetricWindow
  /\ summary \in Summary
  /\ by_provider \in [Index -> Summary]
  /\ next_metric_id \in Nat /\ ledger \in Nat
  /\ pc \in [Clients -> Steps]
  /\ idx \in [Clients -> 0..Len(Providers)]
  /\ routed \in [Clients -> BOOLEAN]
  /\ attempt \in [Clients -> 0..(MaxAttempts - 1)]
  /\ fellback \in [Clients -> BOOLEAN]
  /\ metric \in [Clients -> Nat]
  /\ dispatched \in Nat /\ cancelled \in Nat
  /\ \A c \in Clients :
       /\ pc[c] # "idle" => req[c] \in Requests
       /\ pc[c] \in {"attempt", "await", "id", "push", "store"} => idx[c] \in Index
       /\ pc[c] \in {"id", "push", "store"} => outcome[c] \in Outcome

\* Concurrent misses of one request insert once: the FIFO order lists every
\* entry exactly once and the cache stays within its cap.
CacheConsistent ==
  /\ \A i, j \in DOMAIN order : order[i] = order[j] => i = j
  /\ {order[i] : i \in DOMAIN order} = DOMAIN entries
  /\ Len(order) <= CacheCap

\* An answer to a provider-qualified model comes from that provider, whether
\* it was fetched, retried or found in the cache.
ExplicitRouteHonoured ==
  \A c \in Clients :
    result[c] # None /\ result[c].ok /\ req[c].model.hint # NoHint
      => Providers[result[c].from].name = req[c].model.hint

Admitted == {c \in Clients : pc[c] \in {"attempt", "await", "id", "push"}}

\* The check of the limit and the charge are apart, so calls admitted before
\* the limit was reached still spend; the total passes it by less than the
\* cost of one answer per concurrent client, however often they call.
BudgetOvershootBounded ==
  summary.cost + MaxCost * Cardinality(Admitted) <= BudgetCap - 1 + MaxCost * Cardinality(Clients)

\* The inductive invariant of the overshoot: an answer that is not yet
\* charged costs at most MaxCost, and a failed one nothing.
SpendInv ==
  /\ summary \in Summary
  /\ pc \in [Clients -> Steps]
  /\ outcome \in [Clients -> Outcome \cup {None}]
  /\ \A c \in Clients : pc[c] \in {"id", "push"}
       => outcome[c] \in Outcome /\ (~outcome[c].ok => outcome[c].cost = 0)
  /\ BudgetOvershootBounded

\* Every provider call is in the usage ledger, awaited, or was abandoned by
\* its caller; and it is in the metrics too once its task has run on.
EveryDispatchLedgered ==
  /\ dispatched = ledger + cancelled + Cardinality({c \in Clients : pc[c] = "await"})
  /\ ledger = summary.calls + Cardinality({c \in Clients : pc[c] \in {"id", "push"}})

\* If providers answer, every call returns: retries and the fallback are
\* bounded.
EveryCallReturns ==
  (\A c \in Clients : []<>(pc[c] # "await"))
    => \A c \in Clients : pc[c] = "cache" ~> pc[c] = "idle"

==============================================================================
