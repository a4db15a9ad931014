------------------------------- MODULE Routing -------------------------------
(***************************************************************************)
(* How the lanes of a failover walk are chosen and ranked: one lane per    *)
(* quota bucket a target reaches, compared by what the usage ledger leaves *)
(* of the configured caps, by cost and by capability.  The ranking is made *)
(* once, from the ledger and the project's configuration as they are then; *)
(* the walk it starts runs on while others charge the same buckets.  All   *)
(* walks lie within one 24 hour window, and a target has one way of being  *)
(* called.                                                                 *)
(***************************************************************************)
EXTENDS Failover, Integers, FiniteSets, SequencesExt

CONSTANTS
    ToolOrder,    \* the targets in order of their names
    DetectOrder,  \* and in the order detection lists them: the registry's, then MCP servers
    Cost, Fit,    \* target -> cost_rank, and the breadth of its capabilities
    NeedsModel,   \* local runtimes whose command needs a model
    PoolOf,       \* model, or NoModel -> its upstream pool, or NoPool
    PoolOrder,    \* the pools in order of their names, NoPool first
    NoPool, NoCap, NoTool,
    PoolCaps,     \* <<target, pool, axis>> -> cap
    TargetCaps,   \* <<target, axis>> -> cap
    ForcedOn, ForcedOff,   \* targets the project's configuration enables, disables
    Requests

Axes == {"tokens", "requests"}
Pools == Range(PoolOrder)

ASSUME RoutingAssumption ==
    /\ ToolOrder \in Seq(Tools) /\ Range(ToolOrder) = Tools /\ IsInjective(ToolOrder)
    /\ DetectOrder \in Seq(Tools) /\ Range(DetectOrder) = Tools /\ IsInjective(DetectOrder)
    /\ IsInjective(PoolOrder)
    /\ PoolOf \in [Models \union {NoModel} -> Pools]
    /\ NoPool \in Pools /\ PoolOf[NoModel] = NoPool
    /\ Cost \in [Tools -> Nat] /\ Fit \in [Tools -> Nat]
    /\ PoolCaps \in [Tools \X Pools \X Axes -> Nat \union {NoCap}]
    /\ TargetCaps \in [Tools \X Axes -> Nat \union {NoCap}]
    \* `able`: the targets with the capability and the mode asked for.
    /\ Requests \subseteq [target : Tools \union {NoTool}, model : Models \union {NoModel}, able : SUBSET Tools,
                           prefer : {"cost", "quality"}, failover : BOOLEAN, call : BOOLEAN]
    /\ \A q \in Requests : q.call => q.target # NoTool

-----------------------------------------------------------------------------
(* Headroom: what the ledger leaves of the caps. *)

\* The quota bucket a lane draws from.
Key(lane) == [tool |-> lane.tool, pool |-> PoolOf[lane.model]]

RowIds == UNION {{w} \X DOMAIN ledger[w] : w \in Walks}
RowAt(id) == ledger[id[1]][id[2]]

\* A row is one request; an answer costs a token more than a failure.
Sum(ids, axis) ==
    Cardinality(ids) + IF axis = "requests" THEN 0 ELSE Cardinality({id \in ids : RowAt(id).answer = "text"})

PoolUsed(key, axis) == Sum({id \in RowIds : Key(RowAt(id).lane) = key}, axis)
TargetUsed(t, axis) == Sum({id \in RowIds : RowAt(id).lane.tool = t}, axis)

\* The cap of one axis: the pool's own, else the target's, which its pools
\* share.  At most one of them, with what is left of it.
AxisCap(key, axis) ==
    LET capped(limit, used) == {[limit |-> limit, remaining |-> IF used > limit THEN 0 ELSE limit - used]}
        own == PoolCaps[key.tool, key.pool, axis]
        shared == TargetCaps[key.tool, axis]
    IN  IF key.pool # NoPool /\ own # NoCap THEN capped(own, PoolUsed(key, axis))
        ELSE IF shared # NoCap THEN capped(shared, TargetUsed(key.tool, axis)) ELSE {}

Dimensions(key) == AxisCap(key, "tokens") \union AxisCap(key, "requests")

Exhausted(key) == \E d \in Dimensions(key) : d.remaining = 0

\* Less than 15% of a cap left.
Near(key) == ~Exhausted(key) /\ \E d \in Dimensions(key) : d.remaining * 100 < 15 * d.limit

Sign(n) == IF n < 0 THEN -1 ELSE IF n > 0 THEN 1 ELSE 0
RankOf(flag) == IF flag THEN 1 ELSE 0

FractionCmp(a, b) ==
    IF a.limit = 0 \/ b.limit = 0 THEN Sign(RankOf(b.limit = 0) - RankOf(a.limit = 0))
    ELSE Sign(a.remaining * b.limit - b.remaining * a.limit)

\* The scarcer axis; the requests when they tie.
Limiting(key) ==
    LET tokens == AxisCap(key, "tokens")
        requests == AxisCap(key, "requests")
    IN  IF tokens = {} THEN requests
        ELSE IF requests = {} THEN tokens
        ELSE IF \E t \in tokens, r \in requests : FractionCmp(t, r) < 0 THEN tokens ELSE requests

\* Over what limits each side; a side without a cap has room.
HeadroomDesc(left, right) ==
    LET spent(d) == \E x \in d : x.remaining = 0
    IN  IF left = {} /\ right = {} THEN 0
        ELSE IF right = {} THEN IF spent(left) THEN 1 ELSE -1
        ELSE IF left = {} THEN IF spent(right) THEN -1 ELSE 1
        ELSE LET l == CHOOSE x \in left : TRUE
                 r == CHOOSE x \in right : TRUE
             IN  IF FractionCmp(r, l) # 0 THEN FractionCmp(r, l) ELSE Sign(r.remaining - l.remaining)

\* Pools without any cap: least used first.
ObservedRoom(a, b) ==
    IF ~(a.observed /\ b.observed) THEN 0
    ELSE IF a.used.tokens # b.used.tokens THEN Sign(a.used.tokens - b.used.tokens)
    ELSE Sign(a.used.requests - b.used.requests)

\* A lane with the headroom it is ranked by.
BuildCandidate(lane) ==
    LET key == Key(lane)
    IN  [lane |-> lane, pool |-> key.pool, exhausted |-> Exhausted(key), near |-> Near(key),
         limiting |-> Limiting(key),
         observed |-> key.pool # NoPool /\ Dimensions(key) = {},
         used |-> [tokens |-> PoolUsed(key, "tokens"), requests |-> PoolUsed(key, "requests")]]

-----------------------------------------------------------------------------
(* The order of lanes. *)

Place(s, e) == CHOOSE i \in DOMAIN s : s[i] = e
FirstNonZero(s) ==
    LET places == {i \in DOMAIN s : s[i] # 0} IN IF places = {} THEN 0 ELSE s[Min(places)]

\* Mutant of Compare: a lane's cost outweighs that it is exhausted.
CompareCostFirst(prefer, a, b) ==
    FirstNonZero(<<Cost[a.lane.tool] - Cost[b.lane.tool], RankOf(a.exhausted) - RankOf(b.exhausted),
                   Place(ToolOrder, a.lane.tool) - Place(ToolOrder, b.lane.tool),
                   Place(PoolOrder, a.pool) - Place(PoolOrder, b.pool)>>)

Compare(prefer, a, b) ==
    LET exhausted == RankOf(a.exhausted) - RankOf(b.exhausted)
        near == RankOf(a.near) - RankOf(b.near)
        cost == Cost[a.lane.tool] - Cost[b.lane.tool]
        fit == Fit[b.lane.tool] - Fit[a.lane.tool]
        names == <<Place(ToolOrder, a.lane.tool) - Place(ToolOrder, b.lane.tool),
                   Place(PoolOrder, a.pool) - Place(PoolOrder, b.pool)>>
        room == <<HeadroomDesc(a.limiting, b.limiting), ObservedRoom(a, b)>>
    IN  FirstNonZero(IF prefer = "quality" THEN <<exhausted, fit, near>> \o room \o <<cost>> \o names
                     ELSE <<exhausted, cost, near, fit>> \o room \o names)

\* A candidate moves left as long as those before it compare greater.
InsertSorted(q, sorted, c) ==
    LET places == {k \in 0..Len(sorted) :
                     \A j \in (k + 1)..Len(sorted) : Compare(q.prefer, c, sorted[j]) < 0}
    IN  InsertAt(sorted, Min(places) + 1, c)

\* sort_by, which inserts one after the other where there are so few of them.
\* The comparison is not transitive where a lane with observed usage meets one
\* without any headroom, so that this is more than some order that fits it.
Sorted(q, candidates) ==
    LET After[n \in 0..Len(candidates)] ==
            IF n = 0 THEN <<>> ELSE InsertSorted(q, After[n-1], candidates[n])
    IN  After[Len(candidates)]

\* What of s is in S, in the order of s.
AppendIfIn(S, s, x) == IF x \in S THEN Append(s, x) ELSE s
Only(s, S) ==
    LET Among[n \in 0..Len(s)] == IF n = 0 THEN <<>> ELSE AppendIfIn(S, Among[n-1], s[n])
    IN  Among[Len(s)]

-----------------------------------------------------------------------------
(* The lanes of a request. *)

Effective == (enabled \union ForcedOn) \ ForcedOff
Open == installed \intersect Effective

\* One model per pool, for a target that reaches at least two named pools.
PoolLanes(q, t) ==
    LET models == ModelsOf[t]
        pool(i) == PoolOf[models[i]]
        firsts == Only([i \in DOMAIN models |-> i],
                       {i \in DOMAIN models : \A j \in 1..(i - 1) : pool(j) # pool(i)})
    IN  IF q.model # NoModel \/ Cardinality({pool(i) : i \in DOMAIN models} \ {NoPool}) < 2 THEN <<>>
        ELSE [n \in DOMAIN firsts |-> models[firsts[n]]]

Usable(q, t) ==
    t \in q.able /\ ~(t \in NeedsModel /\ ModelsOf[t] = <<>> /\ q.model = NoModel)

CandidateFor(q, t) == [tool |-> t, model |-> IF q.model # NoModel THEN q.model ELSE FirstModel(t)]

CandidatesFor(q, t) ==
    LET models == PoolLanes(q, t)
        lanes == IF models = <<>> THEN <<CandidateFor(q, t)>>
                 ELSE [i \in DOMAIN models |-> [tool |-> t, model |-> models[i]]]
    IN  IF Usable(q, t) THEN [i \in DOMAIN lanes |-> BuildCandidate(lanes[i])] ELSE <<>>

\* In the order of detection.
ViableCandidates(q) ==
    FlattenSeq([i \in DOMAIN DetectOrder |->
        IF DetectOrder[i] \in Open THEN CandidatesFor(q, DetectOrder[i]) ELSE <<>>])

OpenRequest(q) == [q EXCEPT !.target = NoTool, !.model = NoModel]

\* Mutant of AlternativesAmong: another model of the same bucket is another lane.
AlternativesByModel(q, chosen, viable) ==
    LET others == {c \in Range(viable) : c.lane # chosen}
        siblings == {c \in others : c.lane.tool = chosen.tool}
    IN  Sorted(q, Only(viable, siblings)) \o Sorted(q, Only(viable, others \ siblings))

\* The sibling pools of the chosen lane, then the other targets.
AlternativesAmong(q, chosen, viable) ==
    LET others == {c \in Range(viable) : Key(c.lane) # Key(chosen)}
        siblings == {c \in others : c.lane.tool = chosen.tool}
    IN  Sorted(q, Only(viable, siblings)) \o Sorted(q, Only(viable, others \ siblings))

FailoverAlternatives(q, chosen) == AlternativesAmong(q, chosen, ViableCandidates(OpenRequest(q)))

\* An explicit target pins the target, not its bucket.
ExplicitRoute(q) ==
    IF q.target \notin Open \/ ~Usable(q, q.target) THEN <<>>
    ELSE LET chosen == Sorted(q, CandidatesFor(q, q.target))[1]
         IN  <<chosen>> \o IF q.failover THEN FailoverAlternatives(q, chosen.lane) ELSE <<>>

\* The ranked targets of the decision; none when the router finds none.
SelectRoute(q) ==
    LET route == IF q.target # NoTool THEN ExplicitRoute(q) ELSE Sorted(q, ViableCandidates(q))
    IN  [i \in DOMAIN route |-> route[i].lane]

\* The fallbacks of a target the router cannot rank: every lane of another tool.
OtherTargets(lanes, t) == Only(lanes, {l \in Range(lanes) : l.tool # t})

\* `rtrt call` calls its target unranked without --failover, and with it
\* when the router cannot rank the target.
RankedTargets(q) ==
    LET named == <<[tool |-> q.target, model |-> q.model]>>
        ranked == SelectRoute(q)
    IN  IF q.call /\ ~q.failover THEN named
        ELSE IF ranked # <<>> \/ ~q.call THEN ranked
        ELSE named \o OtherTargets(SelectRoute(OpenRequest(q)), q.target)

-----------------------------------------------------------------------------
\* The route is found, and its walk begins; without failover the first of the
\* ranked lanes is called, once.
Route(w, q) ==
    /\ walk[w].pc = "idle"
    /\ q.call => q.target \in Effective
    /\ \E ranked \in {RankedTargets(q)} :
          LET lanes == IF q.failover \/ ranked = <<>> THEN ranked ELSE <<ranked[1]>>
          IN  Begin(w, lanes, q.failover, q.target # NoTool,
                    {i \in DOMAIN lanes : Exhausted(Key(lanes[i]))})

RoutedNext ==
    \/ \E w \in Walks, q \in Requests : Route(w, q)
    \/ \E w \in Walks : Call(w)
    \/ \E t \in Volatile : Reconfigure(t)

\* A command ends or is killed at its timeout.  Nothing bounds the wait for
\* its output, nor that for an API: that these come is an assumption.
Fairness ==
    \A w \in Walks :
        /\ WF_vars(Refused(w)) /\ WF_vars(Invoke(w)) /\ WF_vars(Retry(w))
        /\ WF_vars(TimeOut(w) \/ \E answer \in Answers : Exit(w, answer))
        /\ WF_vars(ReadOutput(w)) /\ WF_vars(\E answer \in Answers : Answer(w, answer))

RoutedSpec == Init /\ [][RoutedNext]_vars /\ Fairness

-----------------------------------------------------------------------------
(* Properties. *)

\* A walk that is free to choose charges a bucket whose cap was spent when it
\* was ranked only after every lane with room has failed, whatever concurrent
\* walks charge meanwhile (exhausted_rank comes before every other key).
SpentIsLastResort ==
    \A w \in Walks : ~walk[w].pinned =>
        \A i \in DOMAIN ledger[w] : ledger[w][i].at \in walk[w].spent =>
            \A p \in DOMAIN walk[w].ranked \ walk[w].spent :
                p <= Len(walk[w].trail) /\ walk[w].trail[p].class # "fatal"

\* A bucket that has answered that its quota is used up is not charged again
\* by that walk: a pinned lane does not come back among its alternatives under
\* another model of the same pool (failover_alternatives, ranked_targets_for_call).
QuotaLeftAlone ==
    \A w \in Walks : \A i, j \in DOMAIN ledger[w] :
        i < j /\ ledger[w][i].answer = "quota" => Key(ledger[w][j].lane) # Key(ledger[w][i].lane)

\* Every walk ends, however its lanes fail and its targets come and go.
WalkEnds == \A w \in Walks : walk[w].pc # "idle" ~> walk[w].pc = "done"

=============================================================================
