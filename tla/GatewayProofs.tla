---------------------------- MODULE GatewayProofs ----------------------------
(***************************************************************************)
(* Proofs about the gateway, for any number of clients, any registrations, *)
(* limits and sizes: the overshoot of the spending limit, the types, the   *)
(* FIFO cache, explicit routes and the accounting of provider calls.       *)
(***************************************************************************)
EXTENDS Gateway, SequenceTheorems, FiniteSetTheorems, WellFoundedInduction, TLAPS

\* Sets of clients are finite, and smaller when included.
LEMMA ClientSets ==
  ASSUME NEW S \in SUBSET Clients
  PROVE  /\ IsFiniteSet(S) /\ Cardinality(S) \in Nat
         /\ Cardinality(Clients) \in Nat /\ Cardinality(S) <= Cardinality(Clients)
BY GatewayAssumption, FS_Subset, FS_CardinalityType

\* More admitted clients may cost more.
LEMMA CostGrows ==
  ASSUME NEW m \in Nat, NEW n \in Nat, m <= n
  PROVE  MaxCost * m \in Nat /\ MaxCost * n \in Nat /\ MaxCost * m <= MaxCost * n
<1>1. MaxCost \in Nat
  BY GatewayAssumption
<1>2. MaxCost * (n - m) \in Nat /\ MaxCost * m \in Nat
  BY <1>1
<1>3. MaxCost * n = MaxCost * m + MaxCost * (n - m)
  BY <1>1
<1> QED BY <1>1, <1>2, <1>3

\* A step that charges nothing and admits nobody keeps the bound.
LEMMA BoundKept ==
  ASSUME summary \in Summary, BudgetOvershootBounded,
         summary' = summary, Admitted' \subseteq Admitted
  PROVE  BudgetOvershootBounded'
<1>1. /\ Cardinality(Admitted) \in Nat /\ Cardinality(Admitted') \in Nat
      /\ Cardinality(Admitted') <= Cardinality(Admitted)
      /\ Cardinality(Clients) \in Nat
  <2>1. Admitted \subseteq Clients
    BY DEF Admitted
  <2>2. IsFiniteSet(Admitted) /\ Cardinality(Admitted) \in Nat /\ Cardinality(Clients) \in Nat
    BY <2>1, ClientSets
  <2> QED BY <2>2, FS_Subset, FS_CardinalityType
<1>2. MaxCost * Cardinality(Admitted') \in Nat /\ MaxCost * Cardinality(Admitted) \in Nat
      /\ MaxCost * Cardinality(Admitted') <= MaxCost * Cardinality(Admitted)
  BY <1>1, CostGrows
<1>3. MaxCost * Cardinality(Clients) \in Nat /\ BudgetCap \in Nat /\ summary.cost \in Nat
  BY <1>1, CostGrows, GatewayAssumption DEF Summary
<1> QED BY <1>2, <1>3 DEF BudgetOvershootBounded

\* Admission happens below the limit, whoever else is admitted.
LEMMA BoundAdmit ==
  ASSUME summary \in Summary, ~OverBudget, summary' = summary
  PROVE  BudgetOvershootBounded'
<1>1. /\ Cardinality(Admitted') \in Nat /\ Cardinality(Clients) \in Nat
      /\ Cardinality(Admitted') <= Cardinality(Clients)
  <2>1. Admitted' \subseteq Clients
    BY DEF Admitted
  <2> QED BY <2>1, ClientSets
<1>2. MaxCost * Cardinality(Admitted') \in Nat /\ MaxCost * Cardinality(Clients) \in Nat
      /\ MaxCost * Cardinality(Admitted') <= MaxCost * Cardinality(Clients)
  BY <1>1, CostGrows
<1>3. BudgetCap \in Nat /\ summary.cost \in Nat /\ summary.cost <= BudgetCap - 1
  BY GatewayAssumption DEF Summary, OverBudget
<1> QED BY <1>2, <1>3 DEF BudgetOvershootBounded

\* Charging an answer takes its client out of the admitted ones.
LEMMA BoundCharge ==
  ASSUME summary \in Summary, BudgetOvershootBounded, NEW c \in Admitted,
         NEW cost \in 0..MaxCost, summary'.cost = summary.cost + cost,
         Admitted' \subseteq Admitted \ {c}
  PROVE  BudgetOvershootBounded'
<1>0. Admitted \subseteq Clients /\ MaxCost \in Nat /\ BudgetCap \in Nat /\ summary.cost \in Nat
  BY GatewayAssumption DEF Admitted, Summary
<1>1. IsFiniteSet(Admitted) /\ Cardinality(Admitted) \in Nat /\ Cardinality(Clients) \in Nat
  BY <1>0, ClientSets
<1>2. IsFiniteSet(Admitted \ {c}) /\ Cardinality(Admitted \ {c}) = Cardinality(Admitted) - 1
  BY <1>1, FS_RemoveElement
<1>3. Cardinality(Admitted \ {c}) \in Nat
  BY <1>2, FS_CardinalityType
<1>4. Cardinality(Admitted') \in Nat /\ Cardinality(Admitted') <= Cardinality(Admitted \ {c})
  BY <1>2, FS_Subset, FS_CardinalityType
<1>5. /\ MaxCost * Cardinality(Admitted') <= MaxCost * Cardinality(Admitted \ {c})
      /\ MaxCost * Cardinality(Admitted') \in Nat
      /\ MaxCost * Cardinality(Admitted) \in Nat
      /\ MaxCost * Cardinality(Clients) \in Nat
  BY <1>1, <1>3, <1>4, CostGrows
<1>6. MaxCost * Cardinality(Admitted \ {c}) = MaxCost * Cardinality(Admitted) - MaxCost
  BY <1>0, <1>1, <1>2
<1> QED BY <1>0, <1>5, <1>6 DEF BudgetOvershootBounded

\* The initial state has spent nothing.
LEMMA InitSpend == Init => SpendInv
<1> SUFFICES ASSUME Init PROVE SpendInv
  OBVIOUS
<1>1. summary \in Summary /\ pc \in [Clients -> Steps] /\ outcome \in [Clients -> Outcome \cup {None}]
  BY DEF Init, Summary, Steps
<1>2. \A c \in Clients : pc[c] = "idle"
  BY DEF Init
<1>3. BudgetOvershootBounded
  <2>1. Admitted = {}
    BY <1>2 DEF Admitted
  <2>2. Cardinality(Admitted) = 0 /\ Cardinality(Clients) \in Nat
    BY <2>1, FS_EmptySet, GatewayAssumption, FS_CardinalityType
  <2>3. MaxCost * Cardinality(Admitted) = 0 /\ MaxCost * Cardinality(Clients) \in Nat
    BY <2>2, GatewayAssumption, CostGrows
  <2> QED BY <2>3, GatewayAssumption DEF Init, BudgetOvershootBounded
<1> QED BY <1>1, <1>2, <1>3 DEF SpendInv

\* Every step of every client keeps SpendInv.
LEMMA StepSpend == SpendInv /\ Next => SpendInv'
<1> SUFFICES ASSUME SpendInv, NEW c \in Clients,
                    (\E r \in Requests : Call(c, r)) \/ Own(c)
                      \/ (\E res \in Outcome : Answer(c, res)) \/ Cancel(c)
             PROVE  SpendInv'
  BY DEF Next
<1>t. /\ summary \in Summary /\ pc \in [Clients -> Steps]
      /\ outcome \in [Clients -> Outcome \cup {None}]
      /\ BudgetOvershootBounded
      /\ \A d \in Clients : pc[d] \in {"id", "push"}
           => outcome[d] \in Outcome /\ (~outcome[d].ok => outcome[d].cost = 0)
  BY DEF SpendInv
<1> DEFINE Quiet(step) == Goto(c, step) /\ summary' = summary /\ outcome' = outcome
<1>q. ASSUME NEW step \in {"idle", "cache", "budget", "store"}, Quiet(step) PROVE SpendInv'
  <2>1. pc' \in [Clients -> Steps] /\ Admitted' \subseteq Admitted
    BY <1>t, <1>q DEF Goto, Steps, Admitted
  <2>2. BudgetOvershootBounded'
    BY <1>t, <1>q, <2>1, BoundKept
  <2>3. \A d \in Clients : pc'[d] \in {"id", "push"} => pc[d] \in {"id", "push"}
    BY <1>t, <1>q DEF Goto
  <2> QED BY <1>t, <1>q, <2>1, <2>2, <2>3 DEF SpendInv
<1>1. ASSUME NEW r \in Requests, Call(c, r) PROVE SpendInv'
  BY <1>1, <1>q DEF Call, metrics, locals
<1>2. CASE CacheLookup(c)
  BY <1>2, <1>q DEF CacheLookup, Return, metrics, locals
<1>3. CASE Admit(c)
  <2>1. summary' = summary /\ outcome' = outcome
    BY <1>3 DEF Admit, metrics
  <2>2. CASE Goto(c, "idle")
    BY <1>q, <2>1, <2>2
  <2>3. CASE ~Goto(c, "idle")
    <3>1. ~OverBudget /\ Goto(c, "attempt")
      BY <1>3, <2>3 DEF Admit, Return
    <3>2. BudgetOvershootBounded'
      BY <1>t, <2>1, <3>1, BoundAdmit
    <3>3. pc' \in [Clients -> Steps]
      BY <1>t, <3>1 DEF Goto, Steps
    <3>4. \A d \in Clients : pc'[d] \in {"id", "push"} => pc[d] \in {"id", "push"}
      BY <1>t, <3>1 DEF Goto
    <3> QED BY <1>t, <2>1, <3>2, <3>3, <3>4 DEF SpendInv
  <2> QED BY <2>2, <2>3
<1>4. CASE Dispatch(c) \/ AllocateId(c)
  <2>1. summary' = summary /\ outcome' = outcome
    BY <1>4 DEF Dispatch, AllocateId, metrics, locals
  <2>2. pc' \in [Clients -> Steps] /\ Admitted' \subseteq Admitted
    BY <1>t, <1>4 DEF Dispatch, AllocateId, Goto, Steps, Admitted
  <2>3. BudgetOvershootBounded'
    BY <1>t, <2>1, <2>2, BoundKept
  <2>4. \A d \in Clients : pc'[d] \in {"id", "push"} => pc[d] \in {"id", "push"}
    BY <1>t, <1>4 DEF Dispatch, AllocateId, Goto
  <2> QED BY <1>t, <2>1, <2>2, <2>3, <2>4 DEF SpendInv
<1>5. ASSUME NEW res \in Outcome, Answer(c, res) PROVE SpendInv'
  <2>1. summary' = summary /\ outcome' = [outcome EXCEPT ![c] = res] /\ (~res.ok => res.cost = 0)
    BY <1>5 DEF Answer, metrics
  <2>2. pc' \in [Clients -> Steps] /\ Admitted' \subseteq Admitted
    BY <1>t, <1>5 DEF Answer, Goto, Steps, Admitted
  <2>3. BudgetOvershootBounded'
    BY <1>t, <2>1, <2>2, BoundKept
  <2>4. \A d \in Clients : pc'[d] \in {"id", "push"} => d = c \/ pc[d] \in {"id", "push"}
    BY <1>t, <1>5 DEF Answer, Goto
  <2>5. outcome' \in [Clients -> Outcome \cup {None}]
    BY <1>t, <2>1
  <2>6. ASSUME NEW d \in Clients, pc'[d] \in {"id", "push"}
        PROVE  outcome'[d] \in Outcome /\ (~outcome'[d].ok => outcome'[d].cost = 0)
    <3>1. CASE d = c
      BY <1>t, <1>5, <2>1, <3>1
    <3>2. CASE d # c
      <4>1. outcome'[d] = outcome[d] /\ pc[d] \in {"id", "push"}
        BY <1>t, <2>1, <2>4, <2>6, <3>2
      <4> QED BY <1>t, <4>1
    <3> QED BY <3>1, <3>2
  <2> QED BY <1>t, <2>1, <2>2, <2>3, <2>5, <2>6 DEF SpendInv
<1>6. CASE PushMetric(c)
  <2>0. pc[c] = "push" /\ c \in Admitted /\ outcome[c] \in Outcome
        /\ (~outcome[c].ok => outcome[c].cost = 0) /\ outcome' = outcome
    BY <1>t, <1>6 DEF PushMetric, Admitted
  <2>1. outcome[c].cost \in 0..MaxCost /\ MaxCost \in Nat
    BY <2>0, GatewayAssumption DEF Outcome
  <2>2. PICK m : m.cost = outcome[c].cost /\ summary' = record(summary, m)
    BY <1>6 DEF PushMetric, push_metric
  <2>3. summary' \in Summary /\ summary'.cost = summary.cost + outcome[c].cost
    BY <1>t, <2>1, <2>2 DEF record, Summary
  <2>4. PICK step \in {"store", "attempt", "idle"} :
          Goto(c, step) /\ (outcome[c].ok => step = "store")
    BY <1>6 DEF PushMetric, AfterFailure, Return
  <2>5. pc' \in [Clients -> Steps]
    BY <1>t, <2>4 DEF Goto, Steps
  <2>6. \A d \in Clients : pc'[d] \in {"id", "push"} => pc[d] \in {"id", "push"}
    BY <1>t, <2>4 DEF Goto
  <2>7. BudgetOvershootBounded'
    <3>1. CASE step = "attempt"
      <4>1. outcome[c].cost = 0
        BY <2>0, <2>4, <3>1
      <4>2. Admitted' \subseteq Admitted
        BY <1>t, <2>0, <2>4 DEF Goto, Admitted
      <4>3. summary'.cost = summary.cost
        BY <1>t, <2>3, <4>1 DEF Summary
      <4>4. IsFiniteSet(Admitted)
        <5>1. Admitted \subseteq Clients
          BY DEF Admitted
        <5> QED BY <5>1, ClientSets
      <4>5. Admitted \subseteq Admitted'
        BY <1>t, <2>0, <2>4, <3>1 DEF Goto, Admitted
      <4>6. Admitted' = Admitted
        BY <4>2, <4>5
      <4> QED BY <1>t, <4>3, <4>6 DEF BudgetOvershootBounded
    <3>2. CASE step # "attempt"
      <4>1. Admitted' \subseteq Admitted \ {c}
        BY <1>t, <2>4, <3>2 DEF Goto, Admitted
      <4> QED BY <1>t, <2>0, <2>1, <2>3, <4>1, BoundCharge
    <3> QED BY <3>1, <3>2
  <2> QED BY <1>t, <2>0, <2>3, <2>5, <2>6, <2>7 DEF SpendInv
<1>7. CASE Store(c)
  BY <1>7, <1>q DEF Store, Return, metrics, locals
<1>8. CASE Cancel(c)
  BY <1>8, <1>q DEF Cancel, metrics, locals
<1> QED BY <1>1, <1>2, <1>3, <1>4, <1>5, <1>6, <1>7, <1>8 DEF Own

\* What the admitted calls can still spend is accounted for in every
\* reachable state.
THEOREM SpendInvariance == Spec => []SpendInv
<1>1. Init => SpendInv
  BY InitSpend
<1>2. SpendInv /\ [Next]_vars => SpendInv'
  <2>1. CASE UNCHANGED vars
    BY <2>1 DEF vars, metrics, locals, SpendInv, BudgetOvershootBounded, Admitted
  <2> QED BY <2>1, StepSpend
<1> QED BY <1>1, <1>2, PTL DEF Spec

\* However many calls are made, retried, cancelled or answered at once, the
\* recorded spending plus the most the admitted calls can still spend exceeds
\* the limit by less than one answer for each concurrent client.
THEOREM Overshoot == Spec => []BudgetOvershootBounded
<1>1. SpendInv => BudgetOvershootBounded
  BY DEF SpendInv
<1> QED BY <1>1, SpendInvariance, PTL

------------------------------------------------------------------------------
(* Routing. *)

\* A set of registrations has a first one: the naturals are well-founded.
LEMMA Least ==
  ASSUME NEW S \in SUBSET Nat, S # {}
  PROVE  \E x \in S : \A y \in S : x <= y
<1>1. PICK R : R = OpToRel(<, Nat)
  OBVIOUS
<1>2. PICK x \in S : \A y \in S : ~(<<y, x>> \in R)
  BY <1>1, NatLessThanWellFounded, WFMin
<1>3. \A y \in S : ~(y < x)
  BY <1>1, <1>2 DEF OpToRel
<1> QED BY <1>2, <1>3

\* First finds one if there is one, and indexes are not 0.
LEMMA FirstIn ==
  ASSUME NEW hits \in SUBSET Index
  PROVE  First(hits) \in 0..Len(Providers) /\ (First(hits) # 0 => First(hits) \in hits)
<1>0. Len(Providers) \in Nat
  BY GatewayAssumption
<1>1. CASE hits = {}
  BY <1>0, <1>1 DEF First
<1>2. CASE hits # {}
  <2>1. hits \in SUBSET Nat
    BY <1>0 DEF Index
  <2>2. \E i \in hits : \A j \in hits : i <= j
    BY <1>2, <2>1, Least
  <2>3. First(hits) \in hits
    BY <1>2, <2>2 DEF First
  <2>4. First(hits) \in Index
    BY <2>3
  <2>5. First(hits) \in 0..Len(Providers)
    BY <1>0, <2>4 DEF Index
  <2> QED BY <2>3, <2>5
<1> QED BY <1>1, <1>2

\* A request is routed to a registered provider or to none, and to the one it
\* names if it names one (resolve_model).
LEMMA ResolveRight ==
  ASSUME NEW model
  PROVE  /\ resolve_model(model) \in 0..Len(Providers)
         /\ model.hint # NoHint /\ resolve_model(model) # 0
              => Providers[resolve_model(model)].name = model.hint
<1> DEFINE named == {j \in Index : Providers[j].name = model.hint}
           owners == {j \in Index : model.upstream \in Providers[j].prefixes}
<1>1. First(named) \in 0..Len(Providers) /\ (First(named) # 0 => First(named) \in named)
  BY FirstIn
<1>2. First(owners) \in 0..Len(Providers)
  BY FirstIn
<1>3. Default \in 0..Len(Providers) /\ Len(Providers) \in Nat
  BY GatewayAssumption
<1>4. CASE model.hint = NoHint
  BY <1>2, <1>3, <1>4 DEF resolve_model, lookup_index
<1>5. CASE model.hint # NoHint
  BY <1>1, <1>3, <1>5 DEF resolve_model
<1> QED BY <1>4, <1>5

------------------------------------------------------------------------------
(* Types. *)

\* A client's move keeps the program counters typed.
LEMMA GotoTyped ==
  ASSUME pc \in [Clients -> Steps], NEW c \in Clients, NEW step \in Steps, Goto(c, step)
  PROVE  pc' \in [Clients -> Steps] /\ pc'[c] = step /\ \A d \in Clients \ {c} : pc'[d] = pc[d]
BY DEF Goto

\* What TypeOK says of one client in the middle of a call.
Typed(c) ==
  /\ pc[c] # "idle" => req[c] \in Requests
  /\ pc[c] \in {"attempt", "await", "id", "push", "store"} => idx[c] \in Index
  /\ pc[c] \in {"id", "push", "store"} => outcome[c] \in Outcome

\* The shape of what the calls share.
SharedTyped ==
  /\ order \in Seq(Requests)
  /\ DOMAIN entries \subseteq Requests
  /\ \A k \in DOMAIN entries : entries[k] \in Index
  /\ inner \in Seq(Metric) /\ Len(inner) <= MetricWindow
  /\ summary \in Summary
  /\ by_provider \in [Index -> Summary]
  /\ next_metric_id \in Nat /\ ledger \in Nat
  /\ dispatched \in Nat /\ cancelled \in Nat

\* The locals of the calls are functions on the clients; those that TypeOK
\* leaves untyped while a client is idle are too.
LocalsTyped ==
  /\ pc \in [Clients -> Steps]
  /\ idx \in [Clients -> 0..Len(Providers)]
  /\ routed \in [Clients -> BOOLEAN]
  /\ attempt \in [Clients -> 0..(MaxAttempts - 1)]
  /\ fellback \in [Clients -> BOOLEAN]
  /\ metric \in [Clients -> Nat]
  /\ DOMAIN req = Clients /\ DOMAIN outcome = Clients /\ DOMAIN result = Clients
  /\ req = [c \in Clients |-> req[c]]
  /\ outcome = [c \in Clients |-> outcome[c]]
  /\ result = [c \in Clients |-> result[c]]

TypeInv == SharedTyped /\ LocalsTyped /\ \A c \in Clients : Typed(c)

LEMMA TypeInvTypes == TypeInv => TypeOK
BY DEF TypeInv, SharedTyped, LocalsTyped, Typed, TypeOK

LEMMA InitTypes == Init => TypeInv
<1> SUFFICES ASSUME Init PROVE TypeInv
  OBVIOUS
<1>0. Len(Providers) \in Nat /\ MaxAttempts \in Nat \ {0} /\ MetricWindow \in Nat
  BY GatewayAssumption
<1>1. SharedTyped
  <2>1. order \in Seq(Requests) /\ inner \in Seq(Metric) /\ Len(inner) = 0
    BY DEF Init
  <2>2. DOMAIN entries = {}
    BY DEF Init
  <2>3. summary \in Summary /\ by_provider \in [Index -> Summary]
    BY DEF Init, Summary
  <2> QED BY <1>0, <2>1, <2>2, <2>3 DEF Init, SharedTyped
<1>2. LocalsTyped
  BY <1>0 DEF Init, LocalsTyped, Steps
<1>3. \A c \in Clients : Typed(c)
  BY DEF Init, Typed
<1> QED BY <1>1, <1>2, <1>3 DEF TypeInv

\* The window keeps the newest metrics, at most MetricWindow of them.
LEMMA WindowedTyped ==
  ASSUME NEW s \in Seq(Metric), NEW m \in Metric
  PROVE  Windowed(s, m) \in Seq(Metric) /\ Len(Windowed(s, m)) <= MetricWindow
<1> DEFINE t == Append(s, m)
           n == IF Len(t) > MetricWindow THEN Len(t) - MetricWindow + 1 ELSE 1
<1>1. t \in Seq(Metric) /\ Len(t) \in Nat /\ MetricWindow \in Nat
  BY GatewayAssumption
<1> HIDE DEF t
<1>2. n \in Nat /\ n >= 1
  BY <1>1
<1>3. \A i \in n..Len(t) : t[i] \in Metric
  BY <1>1, <1>2
<1>4. SubSeq(t, n, Len(t)) \in Seq(Metric) /\ Len(SubSeq(t, n, Len(t))) = IF n <= Len(t) THEN Len(t) - n + 1 ELSE 0
  BY <1>1, <1>2, <1>3, SubSeqProperties
<1>5. Windowed(s, m) = SubSeq(t, n, Len(t))
  BY DEF Windowed, t
<1> QED BY <1>1, <1>4, <1>5

LEMMA StepTypes ==
  ASSUME TypeInv, Next
  PROVE  TypeInv'
<1>t. SharedTyped /\ LocalsTyped /\ \A d \in Clients : Typed(d)
  BY DEF TypeInv
<1>p. pc \in [Clients -> Steps]
  BY <1>t DEF LocalsTyped
<1>0. PICK c \in Clients : (\E r \in Requests : Call(c, r)) \/ Own(c)
                             \/ (\E res \in Outcome : Answer(c, res)) \/ Cancel(c)
  BY DEF Next
<1>1. ASSUME NEW r \in Requests, Call(c, r) PROVE TypeInv'
  <2>1. pc' \in [Clients -> Steps] /\ pc'[c] = "cache" /\ \A d \in Clients \ {c} : pc'[d] = pc[d]
    BY <1>1, <1>p, GotoTyped DEF Call, Steps
  <2>2. LocalsTyped'
    BY <1>t, <1>1, <2>1 DEF LocalsTyped, Call
  <2>3. SharedTyped'
    BY <1>t, <1>1 DEF SharedTyped, Call, cache, metrics, history
  <2>4. req'[c] = r /\ \A d \in Clients \ {c} : req'[d] = req[d]
    BY <1>t, <1>1 DEF LocalsTyped, Call
  <2>5. \A d \in Clients : Typed(d)'
    BY <1>t, <1>1, <2>1, <2>4 DEF Typed, Call
  <2> QED BY <2>2, <2>3, <2>5 DEF TypeInv
<1>2. CASE CacheLookup(c)
  <2>1. PICK step \in {"idle", "budget"} : Goto(c, step)
    BY <1>2 DEF CacheLookup, Return
  <2>2. pc' \in [Clients -> Steps] /\ pc'[c] = step /\ \A d \in Clients \ {c} : pc'[d] = pc[d]
    BY <1>p, <2>1, GotoTyped DEF Steps
  <2>3. DOMAIN result' = Clients /\ result' = [d \in Clients |-> result'[d]]
    BY <1>t, <1>2 DEF LocalsTyped, CacheLookup, Return
  <2>4. LocalsTyped'
    BY <1>t, <1>2, <2>2, <2>3 DEF LocalsTyped, CacheLookup, locals
  <2>5. SharedTyped'
    BY <1>t, <1>2 DEF SharedTyped, CacheLookup, cache, metrics, history
  <2>6. \A d \in Clients : Typed(d)'
    BY <1>t, <1>2, <2>1, <2>2 DEF Typed, CacheLookup, locals
  <2> QED BY <2>4, <2>5, <2>6 DEF TypeInv
<1>3. CASE Admit(c)
  <2> DEFINE i == resolve_model(req[c].model)
  <2>0. i \in 0..Len(Providers) /\ Len(Providers) \in Nat /\ MaxAttempts \in Nat \ {0}
    BY ResolveRight, GatewayAssumption
  <2>s. SharedTyped'
    BY <1>t, <1>3 DEF SharedTyped, Admit, cache, metrics, history
  <2>u. req' = req /\ outcome' = outcome /\ metric' = metric
    BY <1>3 DEF Admit
  <2>r. DOMAIN result' = Clients /\ result' = [d \in Clients |-> result'[d]]
    BY <1>t, <1>3 DEF LocalsTyped, Admit, Return
  <2>1. CASE OverBudget \/ i = 0
    <3>1. Goto(c, "idle") /\ UNCHANGED <<idx, routed, attempt, fellback>>
      BY <1>3, <2>1 DEF Admit, Return
    <3>2. pc' \in [Clients -> Steps] /\ pc'[c] = "idle" /\ \A d \in Clients \ {c} : pc'[d] = pc[d]
      BY <1>p, <3>1, GotoTyped DEF Steps
    <3>3. LocalsTyped'
      BY <1>t, <2>u, <2>r, <3>1, <3>2 DEF LocalsTyped
    <3>4. \A d \in Clients : Typed(d)'
      BY <1>t, <2>u, <3>1, <3>2 DEF Typed
    <3> QED BY <2>s, <3>3, <3>4 DEF TypeInv
  <2>2. CASE ~OverBudget /\ i # 0
    <3>0. i \in Index
      BY <2>0, <2>2 DEF Index
    <3>1. /\ Goto(c, "attempt") /\ idx' = [idx EXCEPT ![c] = i]
          /\ routed' = [routed EXCEPT ![c] = req[c].model.hint # NoHint]
          /\ attempt' = [attempt EXCEPT ![c] = 0] /\ fellback' = [fellback EXCEPT ![c] = FALSE]
      BY <1>3, <2>2 DEF Admit
    <3>2. pc' \in [Clients -> Steps] /\ pc'[c] = "attempt" /\ \A d \in Clients \ {c} : pc'[d] = pc[d]
      BY <1>p, <3>1, GotoTyped DEF Steps
    <3>3. idx' \in [Clients -> 0..Len(Providers)] /\ idx'[c] = i /\ \A d \in Clients \ {c} : idx'[d] = idx[d]
      BY <1>t, <2>0, <3>1 DEF LocalsTyped
    <3>4. routed' \in [Clients -> BOOLEAN] /\ fellback' \in [Clients -> BOOLEAN]
      BY <1>t, <3>1 DEF LocalsTyped
    <3>5. attempt' \in [Clients -> 0..(MaxAttempts - 1)]
      BY <1>t, <2>0, <3>1 DEF LocalsTyped
    <3>6. LocalsTyped'
      BY <1>t, <2>u, <2>r, <3>2, <3>3, <3>4, <3>5 DEF LocalsTyped
    <3>7. \A d \in Clients : Typed(d)'
      BY <1>t, <1>3, <2>u, <3>0, <3>2, <3>3 DEF Typed, Admit
    <3> QED BY <2>s, <3>6, <3>7 DEF TypeInv
  <2> QED BY <2>1, <2>2
<1>4. CASE Dispatch(c)
  <2>1. pc' \in [Clients -> Steps] /\ pc'[c] = "await" /\ \A d \in Clients \ {c} : pc'[d] = pc[d]
    BY <1>4, <1>p, GotoTyped DEF Dispatch, Steps
  <2>2. LocalsTyped'
    BY <1>t, <1>4, <2>1 DEF LocalsTyped, Dispatch, locals
  <2>3. SharedTyped'
    BY <1>t, <1>4 DEF SharedTyped, Dispatch, cache, metrics
  <2>4. \A d \in Clients : Typed(d)'
    BY <1>t, <1>4, <2>1 DEF Typed, Dispatch, locals
  <2> QED BY <2>2, <2>3, <2>4 DEF TypeInv
<1>5. ASSUME NEW res \in Outcome, Answer(c, res) PROVE TypeInv'
  <2>1. pc' \in [Clients -> Steps] /\ pc'[c] = "id" /\ \A d \in Clients \ {c} : pc'[d] = pc[d]
    BY <1>5, <1>p, GotoTyped DEF Answer, Steps
  <2>2. LocalsTyped'
    BY <1>t, <1>5, <2>1 DEF LocalsTyped, Answer
  <2>3. SharedTyped'
    BY <1>t, <1>5 DEF SharedTyped, Answer, LedgerRows, cache, metrics, history
  <2>4. outcome'[c] = res /\ \A d \in Clients \ {c} : outcome'[d] = outcome[d]
    BY <1>t, <1>5 DEF LocalsTyped, Answer
  <2>5. \A d \in Clients : Typed(d)'
    BY <1>t, <1>5, <2>1, <2>4 DEF Typed, Answer
  <2> QED BY <2>2, <2>3, <2>5 DEF TypeInv
<1>6. CASE AllocateId(c)
  <2>1. pc' \in [Clients -> Steps] /\ pc'[c] = "push" /\ \A d \in Clients \ {c} : pc'[d] = pc[d]
    BY <1>6, <1>p, GotoTyped DEF AllocateId, Steps
  <2>2. LocalsTyped'
    BY <1>t, <1>6, <2>1 DEF LocalsTyped, AllocateId, SharedTyped
  <2>3. SharedTyped'
    BY <1>t, <1>6 DEF SharedTyped, AllocateId, cache, metrics, history
  <2>4. \A d \in Clients : Typed(d)'
    BY <1>t, <1>6, <2>1 DEF Typed, AllocateId
  <2> QED BY <2>2, <2>3, <2>4 DEF TypeInv
<1>8. CASE Store(c)
  <2>1. pc' \in [Clients -> Steps] /\ pc'[c] = "idle" /\ \A d \in Clients \ {c} : pc'[d] = pc[d]
    BY <1>8, <1>p, GotoTyped DEF Store, Return, Steps
  <2>2. DOMAIN result' = Clients /\ result' = [d \in Clients |-> result'[d]]
    BY <1>t, <1>8 DEF LocalsTyped, Store, Return
  <2>3. LocalsTyped'
    BY <1>t, <1>8, <2>1, <2>2 DEF LocalsTyped, Store, locals
  <2>4. \A d \in Clients : Typed(d)'
    BY <1>t, <1>8, <2>1 DEF Typed, Store, locals
  <2>5. req[c] \in Requests /\ outcome[c].from \in Index
    BY <1>t, <1>8 DEF Typed, Store, Outcome
  <2>6. order' \in Seq(Requests) /\ DOMAIN entries' \subseteq Requests /\ \A k \in DOMAIN entries' : entries'[k] \in Index
    <3>1. CASE UNCHANGED cache
      BY <1>t, <3>1 DEF SharedTyped, cache
    <3>2. CASE ~UNCHANGED cache
      <4> DEFINE key == req[c]
                 resp == outcome[c].from
                 full == Cardinality(DOMAIN entries) >= CacheCap /\ order # <<>>
                 left == IF full THEN DOMAIN entries \ {Head(order)} ELSE DOMAIN entries
      <4>1. /\ order' = Append(IF full THEN Tail(order) ELSE order, key)
            /\ entries' = [k \in left \cup {key} |-> IF k = key THEN resp ELSE entries[k]]
        BY <1>8, <3>2 DEF Store, Insert, cache_key
      <4>2. (IF full THEN Tail(order) ELSE order) \in Seq(Requests)
        BY <1>t DEF SharedTyped
      <4>3. order' \in Seq(Requests)
        BY <2>5, <4>1, <4>2
      <4>4. left \subseteq DOMAIN entries
        OBVIOUS
      <4> HIDE DEF left
      <4> QED BY <1>t, <2>5, <4>1, <4>3, <4>4 DEF SharedTyped
    <3> QED BY <3>1, <3>2
  <2>7. SharedTyped'
    BY <1>t, <1>8, <2>6 DEF SharedTyped, Store, metrics, history
  <2> QED BY <2>3, <2>4, <2>7 DEF TypeInv
<1>9. CASE Cancel(c)
  <2>1. pc' \in [Clients -> Steps] /\ pc'[c] = "idle" /\ \A d \in Clients \ {c} : pc'[d] = pc[d]
    BY <1>9, <1>p, GotoTyped DEF Cancel, Steps
  <2>2. LocalsTyped'
    BY <1>t, <1>9, <2>1 DEF LocalsTyped, Cancel, locals
  <2>3. SharedTyped'
    BY <1>t, <1>9 DEF SharedTyped, Cancel, cache, metrics
  <2>4. \A d \in Clients : Typed(d)'
    BY <1>t, <1>9, <2>1 DEF Typed, Cancel, locals
  <2> QED BY <2>2, <2>3, <2>4 DEF TypeInv
<1>7. CASE PushMetric(c)
  <2> DEFINE m == [id |-> metric[c], provider |-> idx[c], cost |-> outcome[c].cost, ok |-> outcome[c].ok]
  <2>1. idx[c] \in Index /\ outcome[c] \in Outcome /\ pc[c] = "push" /\ req[c] \in Requests
    BY <1>t, <1>7 DEF Typed, PushMetric
  <2>2. m \in Metric
    BY <1>t, <2>1 DEF LocalsTyped, Metric, Outcome
  <2>3. push_metric(m)
    BY <1>7 DEF PushMetric
  <2> HIDE DEF m
  <2>4. inner' \in Seq(Metric) /\ Len(inner') <= MetricWindow
    BY <1>t, <2>2, <2>3, WindowedTyped DEF push_metric, SharedTyped
  <2>5. ASSUME NEW s \in Summary PROVE record(s, m) \in Summary
    <3>1. m.cost \in 0..MaxCost /\ MaxCost \in Nat /\ m.ok \in BOOLEAN
      BY <2>2, GatewayAssumption DEF Metric
    <3>2. s.calls \in Nat /\ s.failures \in Nat /\ s.cost \in Nat
      BY DEF Summary
    <3>3. (IF m.ok THEN s.failures ELSE s.failures + 1) \in Nat
      BY <3>2
    <3> QED BY <3>1, <3>2, <3>3 DEF record, Summary
  <2>6. summary' \in Summary
    BY <1>t, <2>3, <2>5 DEF push_metric, SharedTyped
  <2>7. by_provider' \in [Index -> Summary]
    <3>1. m.provider \in Index /\ by_provider \in [Index -> Summary]
      BY <1>t, <2>1 DEF m, SharedTyped
    <3>2. record(by_provider[m.provider], m) \in Summary
      BY <2>5, <3>1
    <3> QED BY <2>3, <3>1, <3>2 DEF push_metric
  <2>8. SharedTyped'
    BY <1>t, <1>7, <2>4, <2>6, <2>7 DEF SharedTyped, PushMetric, cache, history
  <2>9. PICK step \in {"store", "attempt", "idle"} : Goto(c, step)
    BY <1>7 DEF PushMetric, AfterFailure, Return
  <2>10. pc' \in [Clients -> Steps] /\ pc'[c] = step /\ \A d \in Clients \ {c} : pc'[d] = pc[d]
    BY <1>p, <2>9, GotoTyped DEF Steps
  <2>11. DOMAIN result' = Clients /\ result' = [d \in Clients |-> result'[d]]
    BY <1>t, <1>7 DEF LocalsTyped, PushMetric, AfterFailure, Return
  <2>12. idx' = idx \/ (Default \in Index /\ idx' = [idx EXCEPT ![c] = Default])
    BY <1>7, GatewayAssumption DEF PushMetric, AfterFailure, CanFallBack, Index
  <2>13. idx' \in [Clients -> 0..Len(Providers)] /\ idx'[c] \in Index /\ \A d \in Clients \ {c} : idx'[d] = idx[d]
    BY <1>t, <2>1, <2>12, GatewayAssumption DEF LocalsTyped
  <2>14. attempt' = attempt \/ (attempt[c] + 1 < MaxAttempts /\ attempt' = [attempt EXCEPT ![c] = attempt[c] + 1])
    BY <1>7 DEF PushMetric, AfterFailure
  <2>15. attempt' \in [Clients -> 0..(MaxAttempts - 1)]
    <3>1. attempt[c] \in 0..(MaxAttempts - 1) /\ MaxAttempts \in Nat
      BY <1>t, GatewayAssumption DEF LocalsTyped
    <3>2. attempt[c] + 1 < MaxAttempts => attempt[c] + 1 \in 0..(MaxAttempts - 1)
      BY <3>1
    <3> QED BY <1>t, <2>14, <3>2 DEF LocalsTyped
  <2>16. fellback' \in [Clients -> BOOLEAN]
    BY <1>t, <1>7 DEF LocalsTyped, PushMetric, AfterFailure
  <2>17. LocalsTyped'
    BY <1>t, <1>7, <2>10, <2>11, <2>13, <2>15, <2>16 DEF LocalsTyped, PushMetric
  <2>18. req' = req /\ outcome' = outcome
    BY <1>7 DEF PushMetric
  <2>19. \A d \in Clients : Typed(d)'
    BY <1>t, <2>1, <2>10, <2>13, <2>18 DEF Typed
  <2> QED BY <2>8, <2>17, <2>19 DEF TypeInv
<1> QED BY <1>0, <1>1, <1>2, <1>3, <1>4, <1>5, <1>6, <1>7, <1>8, <1>9 DEF Own

\* Types are right however calls interleave; in particular the metrics
\* window holds at most MetricWindow metrics.
THEOREM TypeInvariance == Spec => []TypeInv
<1>1. Init => TypeInv
  BY InitTypes
<1>2. TypeInv /\ [Next]_vars => TypeInv'
  <2>1. CASE UNCHANGED vars
    BY <2>1 DEF vars, cache, metrics, locals, history, TypeInv, SharedTyped, LocalsTyped, Typed
  <2> QED BY <2>1, StepTypes
<1> QED BY <1>1, <1>2, PTL DEF Spec

\* Cache, metrics and calls keep their shape for any instance: no call is
\* retried more often than configured, and an answer has a provider.
THEOREM TypeCorrect == Spec => []TypeOK
BY TypeInvariance, TypeInvTypes, PTL

------------------------------------------------------------------------------
(* The FIFO cache. *)

\* The cache as far as the cache is concerned: its shape and consistency.
CacheInv == order \in Seq(Requests) /\ CacheConsistent

\* A sequence without repetitions is as long as the set of its elements.
LEMMA LengthOfRange ==
  ASSUME NEW s \in Seq(Requests), \A i, j \in DOMAIN s : s[i] = s[j] => i = j
  PROVE  /\ IsFiniteSet({s[i] : i \in DOMAIN s})
         /\ Cardinality({s[i] : i \in DOMAIN s}) = Len(s)
<1> DEFINE R == {s[i] : i \in DOMAIN s}
<1>1. Len(s) \in Nat /\ DOMAIN s = 1..Len(s)
  OBVIOUS
<1>2. IsFiniteSet(1..Len(s)) /\ Cardinality(1..Len(s)) = Len(s)
  BY <1>1, FS_Interval
<1>3. s \in [1..Len(s) -> R]
  BY <1>1
<1>4. s \in Bijection(1..Len(s), R)
  BY <1>1, <1>3 DEF Bijection, Injection, Surjection, IsInjective
<1>5. ExistsBijection(1..Len(s), R)
  BY <1>4 DEF ExistsBijection
<1> HIDE DEF R
<1>6. IsFiniteSet(R) /\ Cardinality(R) = Cardinality(1..Len(s))
  BY <1>2, <1>5, FS_Bijection
<1> QED BY <1>2, <1>6 DEF R

\* Inserting a key that is not there keeps the order and the entries in step.
LEMMA InsertConsistent ==
  ASSUME CacheInv, CacheCap \in Nat \ {0}, NEW key \in Requests, NEW resp, Insert(key, resp)
  PROVE  CacheInv'
<1>0. /\ order \in Seq(Requests) /\ Len(order) \in Nat /\ DOMAIN order = 1..Len(order)
      /\ \A i, j \in DOMAIN order : order[i] = order[j] => i = j
      /\ {order[i] : i \in DOMAIN order} = DOMAIN entries
      /\ Len(order) <= CacheCap
  BY DEF CacheInv, CacheConsistent
<1>1. CASE key \in DOMAIN entries
  BY <1>0, <1>1 DEF Insert, cache, CacheInv, CacheConsistent
<1>2. CASE key \notin DOMAIN entries
  <2> DEFINE full == Cardinality(DOMAIN entries) >= CacheCap /\ order # <<>>
             left == IF full THEN DOMAIN entries \ {Head(order)} ELSE DOMAIN entries
             rest == IF full THEN Tail(order) ELSE order
  <2>1. order' = Append(rest, key) /\ DOMAIN entries' = left \cup {key}
    BY <1>2 DEF Insert
  <2>2. Cardinality(DOMAIN entries) = Len(order)
    <3>1. Cardinality({order[i] : i \in DOMAIN order}) = Len(order)
      BY <1>0, LengthOfRange
    <3> QED BY <1>0, <3>1
  <2>3. /\ rest \in Seq(Requests) /\ Len(rest) \in Nat /\ Len(rest) < CacheCap
        /\ \A i, j \in 1..Len(rest) : rest[i] = rest[j] => i = j
        /\ {rest[i] : i \in 1..Len(rest)} = left
    <3>1. CASE full
      <4>1. /\ rest \in Seq(Requests) /\ Len(rest) = Len(order) - 1
            /\ \A i \in 1..Len(rest) : rest[i] = order[i + 1]
            /\ Head(order) = order[1] /\ Len(order) >= 1
        BY <1>0, <3>1
      <4> HIDE DEF rest
      <4>2. \A i, j \in 1..Len(rest) : rest[i] = rest[j] => i = j
        BY <1>0, <4>1
      <4>3. {rest[i] : i \in 1..Len(rest)} \subseteq DOMAIN entries \ {order[1]}
        <5> SUFFICES ASSUME NEW i \in 1..Len(rest)
                     PROVE  rest[i] \in DOMAIN entries /\ rest[i] # order[1]
          OBVIOUS
        <5>1. i + 1 \in DOMAIN order /\ 1 \in DOMAIN order /\ i + 1 # 1 /\ rest[i] = order[i + 1]
          BY <1>0, <4>1
        <5> QED BY <1>0, <5>1
      <4>4. DOMAIN entries \ {order[1]} \subseteq {rest[i] : i \in 1..Len(rest)}
        <5> SUFFICES ASSUME NEW k \in DOMAIN entries, k # order[1]
                     PROVE  k \in {rest[i] : i \in 1..Len(rest)}
          OBVIOUS
        <5>1. PICK i \in 1..Len(order) : order[i] = k
          BY <1>0
        <5>2. i - 1 \in 1..Len(rest) /\ rest[i - 1] = k
          BY <1>0, <4>1, <5>1
        <5> QED BY <5>2
      <4>5. left = DOMAIN entries \ {order[1]}
        BY <3>1, <4>1
      <4>6. {rest[i] : i \in 1..Len(rest)} = left
        BY <4>3, <4>4, <4>5
      <4>7. Len(rest) \in Nat /\ Len(rest) < CacheCap
        BY <1>0, <4>1
      <4> QED BY <4>1, <4>2, <4>6, <4>7
    <3>2. CASE ~full
      <4>1. rest = order /\ left = DOMAIN entries
        BY <3>2
      <4>2. Len(order) < CacheCap
        <5>1. CASE order = <<>>
          BY <5>1
        <5>2. CASE order # <<>>
          BY <1>0, <2>2, <3>2, <5>2
        <5> QED BY <5>1, <5>2
      <4> HIDE DEF rest, left, full
      <4> QED BY <1>0, <4>1, <4>2
    <3> QED BY <3>1, <3>2
  <2>4. key \notin left
    BY <1>2
  <2> HIDE DEF rest, left, full
  <2>5. /\ order' \in Seq(Requests) /\ Len(order') = Len(rest) + 1
        /\ DOMAIN order' = 1..(Len(rest) + 1)
        /\ \A i \in 1..Len(rest) : order'[i] = rest[i]
        /\ order'[Len(rest) + 1] = key
    BY <2>1, <2>3
  <2>6. \A i \in 1..Len(rest) : order'[i] \in left
    BY <2>3, <2>5
  <2>7. \A i \in 1..(Len(rest) + 1) : i \in 1..Len(rest) \/ i = Len(rest) + 1
    BY <2>3
  <2>8. \A i, j \in DOMAIN order' : order'[i] = order'[j] => i = j
    BY <2>3, <2>4, <2>5, <2>6, <2>7
  <2>9. {order'[i] : i \in DOMAIN order'} = DOMAIN entries'
    <3>1. {order'[i] : i \in DOMAIN order'} \subseteq left \cup {key}
      BY <2>5, <2>6, <2>7
    <3>2. \A k \in left : \E i \in 1..Len(rest) : rest[i] = k
      BY <2>3
    <3>3. \A i \in 1..Len(rest) : i \in 1..(Len(rest) + 1)
      BY <2>3
    <3>4. left \subseteq {order'[i] : i \in DOMAIN order'}
      BY <2>5, <3>2, <3>3
    <3>5. key \in {order'[i] : i \in DOMAIN order'}
      BY <2>3, <2>5
    <3> QED BY <2>1, <3>1, <3>4, <3>5
  <2> QED BY <2>3, <2>5, <2>8, <2>9 DEF CacheInv, CacheConsistent
<1> QED BY <1>1, <1>2

\* Concurrent misses of one request insert it once, and the cache stays within
\* its cap, for any number of clients and any cap (ResponseCache::insert).
THEOREM CacheInOrder == Spec => []CacheConsistent
<1>1. Init => CacheInv
  BY GatewayAssumption DEF Init, CacheInv, CacheConsistent
<1>2. TypeInv /\ CacheInv /\ [Next]_vars => CacheInv'
  <2> SUFFICES ASSUME TypeInv, CacheInv, [Next]_vars PROVE CacheInv'
    OBVIOUS
  <2>1. ASSUME UNCHANGED cache PROVE CacheInv'
    BY <2>1 DEF cache, CacheInv, CacheConsistent
  <2>2. ASSUME NEW c \in Clients, Store(c) PROVE CacheInv'
    <3>1. CASE CacheCap = 0
      BY <2>1, <2>2, <3>1 DEF Store
    <3>2. CASE CacheCap # 0
      <4>1. req[c] \in Requests /\ CacheCap \in Nat \ {0}
        BY <2>2, <3>2, GatewayAssumption DEF TypeInv, Typed, Store
      <4>2. Insert(req[c], outcome[c].from)
        BY <2>2, <3>2 DEF Store, cache_key
      <4> QED BY <4>1, <4>2, InsertConsistent
    <3> QED BY <3>1, <3>2
  <2>3. UNCHANGED cache \/ \E c \in Clients : Store(c)
    BY DEF Next, Own, Call, CacheLookup, Admit, Dispatch, Answer, AllocateId, PushMetric,
           Cancel, vars
  <2> QED BY <2>1, <2>2, <2>3
<1>3. CacheInv => CacheConsistent
  BY DEF CacheInv
<1> QED BY <1>1, <1>2, <1>3, TypeInvariance, PTL DEF Spec

------------------------------------------------------------------------------
(* Provider-qualified models. *)

Working == {"attempt", "await", "id", "push", "store"}

\* The call of a client is on the provider its model names, and pinned to it;
\* an answer it holds is that provider's.
OnRoute(c) ==
  /\ pc[c] \in Working /\ req[c].model.hint # NoHint
       => routed[c] /\ Providers[idx[c]].name = req[c].model.hint
  /\ pc[c] \in {"id", "push", "store"} => outcome[c].from = idx[c]

\* The answer a client got is the named provider's.
Honoured(c) ==
  result[c] # None /\ result[c].ok /\ req[c].model.hint # NoHint
    => Providers[result[c].from].name = req[c].model.hint

\* The cache holds, under a provider-qualified model, that provider's answer.
CacheRouted ==
  \A k \in DOMAIN entries : k.model.hint # NoHint => Providers[entries[k]].name = k.model.hint

RouteInv == CacheRouted /\ \A c \in Clients : OnRoute(c) /\ Honoured(c)

\* A step of another client does not concern a client.
LEMMA RouteOfOthers ==
  ASSUME NEW d \in Clients, OnRoute(d), Honoured(d), pc'[d] = pc[d], req'[d] = req[d],
         idx'[d] = idx[d], routed'[d] = routed[d], outcome'[d] = outcome[d], result'[d] = result[d]
  PROVE  OnRoute(d)' /\ Honoured(d)'
BY DEF OnRoute, Honoured

LEMMA StepRoute ==
  ASSUME TypeInv, RouteInv, Next
  PROVE  RouteInv'
<1>t. LocalsTyped /\ SharedTyped /\ (\A d \in Clients : Typed(d)) /\ CacheRouted
      /\ \A d \in Clients : OnRoute(d) /\ Honoured(d)
  BY DEF TypeInv, RouteInv
<1>0. PICK c \in Clients : (\E r \in Requests : Call(c, r)) \/ Own(c)
                             \/ (\E res \in Outcome : Answer(c, res)) \/ Cancel(c)
  BY DEF Next
\* Only the acting client's locals change.
<1>o. \A d \in Clients \ {c} :
        /\ pc'[d] = pc[d] /\ req'[d] = req[d] /\ idx'[d] = idx[d]
        /\ routed'[d] = routed[d] /\ outcome'[d] = outcome[d] /\ result'[d] = result[d]
  <2> SUFFICES ASSUME NEW d \in Clients \ {c}
               PROVE  /\ pc'[d] = pc[d] /\ req'[d] = req[d] /\ idx'[d] = idx[d]
                      /\ routed'[d] = routed[d] /\ outcome'[d] = outcome[d]
                      /\ result'[d] = result[d]
    OBVIOUS
  <2>1. pc'[d] = pc[d]
    BY <1>0, <1>t DEF LocalsTyped, Own, Call, CacheLookup, Admit, Dispatch, Answer, AllocateId,
                      PushMetric, AfterFailure, Store, Cancel, Return, Goto
  <2>2. req'[d] = req[d] /\ outcome'[d] = outcome[d] /\ routed'[d] = routed[d]
    BY <1>0, <1>t DEF LocalsTyped, Own, Call, CacheLookup, Admit, Dispatch, Answer, AllocateId,
                      PushMetric, Store, Cancel, locals
  <2>3. idx'[d] = idx[d] /\ result'[d] = result[d]
    BY <1>0, <1>t DEF LocalsTyped, Own, Call, CacheLookup, Admit, Dispatch, Answer, AllocateId,
                      PushMetric, AfterFailure, Store, Cancel, Return, locals
  <2> QED BY <2>1, <2>2, <2>3
<1>r. \A d \in Clients \ {c} : OnRoute(d)' /\ Honoured(d)'
  BY <1>t, <1>o, RouteOfOthers
<1>s. ASSUME CacheRouted', OnRoute(c)', Honoured(c)' PROVE RouteInv'
  BY <1>r, <1>s DEF RouteInv
<1>k. ASSUME UNCHANGED entries PROVE CacheRouted'
  BY <1>t, <1>k DEF CacheRouted
<1>1. ASSUME NEW r \in Requests, Call(c, r) PROVE RouteInv'
  <2>1. pc'[c] = "cache" /\ result'[c] = None /\ UNCHANGED entries
    BY <1>1, <1>t DEF LocalsTyped, Call, Goto, cache
  <2> QED BY <1>s, <1>k, <2>1 DEF OnRoute, Honoured, Working
<1>2. CASE CacheLookup(c)
  <2>1. UNCHANGED entries /\ req' = req
    BY <1>2 DEF CacheLookup, cache, locals
  <2>2. pc'[c] \in {"idle", "budget"}
    BY <1>2, <1>t DEF LocalsTyped, CacheLookup, Return, Goto
  <2>3. CASE req[c] \in DOMAIN entries
    <3>1. result'[c] = [ok |-> TRUE, from |-> entries[req[c]]]
      BY <1>2, <1>t, <2>3 DEF LocalsTyped, CacheLookup, Return, cache_key
    <3>2. Honoured(c)'
      BY <1>t, <2>1, <2>3, <3>1 DEF Honoured, CacheRouted
    <3> QED BY <1>s, <1>k, <2>1, <2>2, <3>2 DEF OnRoute, Working
  <2>4. CASE req[c] \notin DOMAIN entries
    <3>1. result' = result
      BY <1>2, <2>4 DEF CacheLookup, cache_key
    <3> QED BY <1>s, <1>k, <1>t, <2>1, <2>2, <3>1 DEF OnRoute, Working, Honoured
  <2> QED BY <2>3, <2>4
<1>3. CASE Admit(c)
  <2> DEFINE i == resolve_model(req[c].model)
  <2>1. UNCHANGED entries /\ req' = req /\ pc'[c] \in {"idle", "attempt"}
    BY <1>3, <1>t DEF LocalsTyped, Admit, Return, Goto, cache
  <2>2. CASE OverBudget \/ i = 0
    <3>1. result'[c] = [ok |-> FALSE, from |-> 0] /\ pc'[c] = "idle"
      BY <1>3, <1>t, <2>2 DEF LocalsTyped, Admit, Return, Goto, Error
    <3> QED BY <1>s, <1>k, <2>1, <3>1 DEF OnRoute, Working, Honoured
  <2>3. CASE ~OverBudget /\ i # 0
    <3>1. result' = result /\ idx'[c] = i /\ routed'[c] = (req[c].model.hint # NoHint) /\ pc'[c] = "attempt"
      BY <1>3, <1>t, <2>3 DEF LocalsTyped, Admit, Goto
    <3>2. req[c].model.hint # NoHint => Providers[i].name = req[c].model.hint
      BY <2>3, ResolveRight
    <3>3. OnRoute(c)'
      BY <2>1, <3>1, <3>2 DEF OnRoute
    <3> QED BY <1>s, <1>k, <1>t, <2>1, <3>1, <3>3 DEF Honoured
  <2> QED BY <2>2, <2>3
<1>4. CASE Dispatch(c)
  <2>1. UNCHANGED entries /\ UNCHANGED <<req, idx, routed, outcome, result>> /\ pc'[c] = "await" /\ pc[c] = "attempt"
    BY <1>4, <1>t DEF LocalsTyped, Dispatch, Goto, cache, locals
  <2> QED BY <1>s, <1>k, <1>t, <2>1 DEF OnRoute, Honoured, Working
<1>5. ASSUME NEW res \in Outcome, Answer(c, res) PROVE RouteInv'
  <2>1. UNCHANGED entries /\ UNCHANGED <<req, idx, routed, result>> /\ pc'[c] = "id" /\ pc[c] = "await"
        /\ outcome'[c] = res /\ res.from = idx[c]
    BY <1>5, <1>t DEF LocalsTyped, Answer, Goto, cache
  <2> QED BY <1>s, <1>k, <1>t, <2>1 DEF OnRoute, Honoured, Working
<1>6. CASE AllocateId(c)
  <2>1. UNCHANGED entries /\ UNCHANGED <<req, idx, routed, outcome, result>> /\ pc'[c] = "push" /\ pc[c] = "id"
    BY <1>6, <1>t DEF LocalsTyped, AllocateId, Goto, cache
  <2> QED BY <1>s, <1>k, <1>t, <2>1 DEF OnRoute, Honoured, Working
<1>7. CASE PushMetric(c)
  <2>1. UNCHANGED entries /\ UNCHANGED <<req, routed, outcome>> /\ pc[c] = "push" /\ pc'[c] \in {"store", "attempt", "idle"}
    BY <1>7, <1>t DEF LocalsTyped, PushMetric, AfterFailure, Return, Goto, cache
  <2>2. pc'[c] = "store" => idx' = idx
    BY <1>7, <1>t DEF LocalsTyped, PushMetric, AfterFailure, Return, Goto
  <2>3. idx'[c] = idx[c] \/ ~routed[c]
    BY <1>7, <1>t DEF LocalsTyped, PushMetric, AfterFailure, CanFallBack
  <2>4. result'[c] = result[c] \/ result'[c] = [ok |-> FALSE, from |-> 0]
    BY <1>7, <1>t DEF LocalsTyped, PushMetric, AfterFailure, Return, Error
  <2>5. OnRoute(c)'
    BY <1>t, <2>1, <2>2, <2>3 DEF OnRoute, Working
  <2>6. Honoured(c)'
    BY <1>t, <2>1, <2>4 DEF Honoured
  <2> QED BY <1>s, <1>k, <2>1, <2>5, <2>6
<1>8. CASE Store(c)
  <2>1. UNCHANGED <<req, idx, routed, outcome>> /\ pc[c] = "store" /\ pc'[c] = "idle"
        /\ result'[c] = [ok |-> TRUE, from |-> outcome[c].from]
    BY <1>8, <1>t DEF LocalsTyped, Store, Return, Goto, locals
  <2>2. req[c].model.hint # NoHint => Providers[outcome[c].from].name = req[c].model.hint
    BY <1>t, <2>1 DEF OnRoute, Working
  <2>3. CacheRouted'
    <3>1. ASSUME NEW k \in DOMAIN entries', k.model.hint # NoHint
          PROVE  Providers[entries'[k]].name = k.model.hint
      <4>1. (k \in DOMAIN entries /\ entries'[k] = entries[k])
              \/ (k = req[c] /\ entries'[k] = outcome[c].from)
        BY <1>8 DEF Store, Insert, cache_key, cache
      <4> QED BY <1>t, <2>2, <3>1, <4>1 DEF CacheRouted
    <3> QED BY <3>1 DEF CacheRouted
  <2> QED BY <1>s, <2>1, <2>2, <2>3 DEF OnRoute, Honoured, Working
<1>9. CASE Cancel(c)
  <2>1. UNCHANGED entries /\ UNCHANGED <<req, idx, routed, outcome, result>> /\ pc'[c] = "idle"
    BY <1>9, <1>t DEF LocalsTyped, Cancel, Goto, cache, locals
  <2> QED BY <1>s, <1>k, <1>t, <2>1 DEF OnRoute, Honoured, Working
<1> QED BY <1>0, <1>1, <1>2, <1>3, <1>4, <1>5, <1>6, <1>7, <1>8, <1>9 DEF Own

\* A provider-qualified model is answered by the provider it names, whether the
\* answer was fetched, retried or found in a cache other clients filled, for
\* any registrations, retry policy and default provider.
THEOREM RouteHonoured == Spec => []ExplicitRouteHonoured
<1>1. Init => RouteInv
  BY DEF Init, RouteInv, CacheRouted, OnRoute, Honoured, Working
<1>2. TypeInv /\ RouteInv /\ [Next]_vars => RouteInv'
  <2>1. ASSUME UNCHANGED vars, RouteInv PROVE RouteInv'
    BY <2>1 DEF vars, cache, locals, RouteInv, CacheRouted, OnRoute, Honoured
  <2> QED BY <2>1, StepRoute
<1>3. RouteInv => ExplicitRouteHonoured
  BY DEF RouteInv, Honoured, ExplicitRouteHonoured
<1> QED BY <1>1, <1>2, <1>3, TypeInvariance, PTL DEF Spec

------------------------------------------------------------------------------
(* Provider calls and their records. *)

At(S) == {c \in Clients : pc[c] \in S}

\* What a client's step does to the clients at some of the places.
LEMMA Moves ==
  ASSUME pc \in [Clients -> Steps], NEW c \in Clients, NEW step \in Steps, Goto(c, step), NEW S
  PROVE  /\ IsFiniteSet(At(S)) /\ Cardinality(At(S)) \in Nat
         /\ Cardinality(At(S)') = Cardinality(At(S))
              + (IF step \in S THEN 1 ELSE 0) - (IF pc[c] \in S THEN 1 ELSE 0)
<1>1. IsFiniteSet(At(S)) /\ Cardinality(At(S)) \in Nat
  BY ClientSets DEF At
<1>2. c \in At(S) <=> pc[c] \in S
  BY DEF At
<1>3. At(S)' = IF step \in S THEN At(S) \cup {c} ELSE At(S) \ {c}
  BY DEF At, Goto
<1>4. CASE step \in S /\ pc[c] \notin S
  <2>1. Cardinality(At(S) \cup {c}) = Cardinality(At(S)) + 1
    BY <1>1, <1>2, <1>4, FS_AddElement
  <2>2. At(S)' = At(S) \cup {c}
    BY <1>3, <1>4
  <2>3. Cardinality(At(S)') = Cardinality(At(S)) + 1
    BY <2>1, <2>2
  <2> QED BY <1>1, <1>4, <2>3
<1>5. CASE step \notin S /\ pc[c] \in S
  <2>1. Cardinality(At(S) \ {c}) = Cardinality(At(S)) - 1
    BY <1>1, <1>2, <1>5, FS_RemoveElement
  <2>2. At(S)' = At(S) \ {c}
    BY <1>3, <1>5
  <2>3. Cardinality(At(S)') = Cardinality(At(S)) - 1
    BY <2>1, <2>2
  <2> QED BY <1>1, <1>5, <2>3
<1>6. CASE step \in S <=> pc[c] \in S
  <2>1. At(S)' = At(S)
    BY <1>2, <1>3, <1>6
  <2> QED BY <1>1, <1>6, <2>1
<1> QED BY <1>1, <1>4, <1>5, <1>6

\* Every call the gateway started is in the usage ledger, awaited or was
\* abandoned, and the metrics lag by the calls about to be pushed.
Accounted ==
  /\ dispatched = ledger + cancelled + Cardinality(At({"await"}))
  /\ ledger = summary.calls + Cardinality(At({"id", "push"}))

LEMMA StepAccounted ==
  ASSUME TypeInv, Accounted, Next
  PROVE  Accounted'
<1>t. /\ pc \in [Clients -> Steps] /\ ledger \in Nat /\ dispatched \in Nat /\ cancelled \in Nat
      /\ summary.calls \in Nat
  BY DEF TypeInv, LocalsTyped, SharedTyped, Summary
<1>0. PICK c \in Clients : (\E r \in Requests : Call(c, r)) \/ Own(c)
                             \/ (\E res \in Outcome : Answer(c, res)) \/ Cancel(c)
  BY DEF Next
<1> DEFINE A == Cardinality(At({"await"}))
           P == Cardinality(At({"id", "push"}))
<1>m. ASSUME NEW step \in Steps, Goto(c, step)
      PROVE  /\ A \in Nat /\ P \in Nat
             /\ A' = A + (IF step = "await" THEN 1 ELSE 0) - (IF pc[c] = "await" THEN 1 ELSE 0)
             /\ P' = P + (IF step \in {"id", "push"} THEN 1 ELSE 0)
                       - (IF pc[c] \in {"id", "push"} THEN 1 ELSE 0)
  <2>1. /\ A \in Nat
        /\ A' = A + (IF step \in {"await"} THEN 1 ELSE 0) - (IF pc[c] \in {"await"} THEN 1 ELSE 0)
    BY <1>t, <1>m, Moves
  <2>2. /\ P \in Nat
        /\ P' = P + (IF step \in {"id", "push"} THEN 1 ELSE 0)
                  - (IF pc[c] \in {"id", "push"} THEN 1 ELSE 0)
    BY <1>t, <1>m, Moves
  <2> QED BY <2>1, <2>2
<1>a. dispatched = ledger + cancelled + A /\ ledger = summary.calls + P
  BY DEF Accounted
<1>b. ASSUME dispatched' = ledger' + cancelled' + A', ledger' = summary'.calls + P'
      PROVE  Accounted'
  BY <1>b DEF Accounted
<1> HIDE DEF A, P
<1>q. ASSUME NEW step \in Steps \ {"await", "id", "push"}, Goto(c, step),
             pc[c] \notin {"await", "id", "push"},
             UNCHANGED <<summary, ledger, history>>
      PROVE  Accounted'
  BY <1>q, <1>m, <1>a, <1>b DEF history
<1>1. ASSUME NEW r \in Requests, Call(c, r) PROVE Accounted'
  BY <1>1, <1>q DEF Call, metrics, Steps
<1>2. CASE CacheLookup(c)
  BY <1>2, <1>q DEF CacheLookup, Return, metrics, Steps
<1>3. CASE Admit(c)
  BY <1>3, <1>q DEF Admit, Return, metrics, Steps
<1>4. CASE Dispatch(c)
  <2>1. /\ Goto(c, "await") /\ pc[c] = "attempt" /\ dispatched' = dispatched + 1
        /\ UNCHANGED <<summary, ledger, cancelled>>
    BY <1>4 DEF Dispatch, metrics
  <2> QED BY <1>t, <1>m, <1>a, <1>b, <2>1 DEF Steps
<1>5. ASSUME NEW res \in Outcome, Answer(c, res) PROVE Accounted'
  <2>1. /\ Goto(c, "id") /\ pc[c] = "await" /\ ledger' = ledger + 1
        /\ UNCHANGED <<summary, dispatched, cancelled>>
    BY <1>5 DEF Answer, metrics, history, LedgerRows
  <2> QED BY <1>t, <1>m, <1>a, <1>b, <2>1 DEF Steps
<1>6. CASE AllocateId(c)
  <2>1. Goto(c, "push") /\ pc[c] = "id" /\ UNCHANGED <<summary, ledger, dispatched, cancelled>>
    BY <1>6 DEF AllocateId, metrics, history
  <2> QED BY <1>t, <1>m, <1>a, <1>b, <2>1 DEF Steps
<1>7. CASE PushMetric(c)
  <2>1. PICK step \in {"store", "attempt", "idle"} : Goto(c, step)
    BY <1>7 DEF PushMetric, AfterFailure, Return
  <2>2. pc[c] = "push" /\ summary'.calls = summary.calls + 1 /\ UNCHANGED <<ledger, dispatched, cancelled>>
    BY <1>7 DEF PushMetric, push_metric, record, history
  <2>3. step \in Steps /\ step \notin {"await", "id", "push"}
    BY DEF Steps
  <2>4. A' = A /\ P' = P - 1 /\ A \in Nat /\ P \in Nat
    BY <1>m, <2>1, <2>2, <2>3
  <2> QED BY <1>t, <1>a, <1>b, <2>2, <2>4
<1>8. CASE Store(c)
  BY <1>8, <1>q DEF Store, Return, metrics, Steps
<1>9. CASE Cancel(c)
  <2>1. CASE pc[c] = "await"
    <3>1. Goto(c, "idle") /\ cancelled' = cancelled + 1 /\ UNCHANGED <<summary, ledger, dispatched>>
      BY <1>9, <2>1 DEF Cancel, metrics
    <3> QED BY <1>t, <1>m, <1>a, <1>b, <2>1, <3>1 DEF Steps
  <2>2. CASE pc[c] # "await"
    <3>1. Goto(c, "idle") /\ pc[c] = "attempt" /\ UNCHANGED <<summary, ledger, history>>
      BY <1>9, <2>2 DEF Cancel, metrics, history
    <3> QED BY <1>q, <3>1 DEF Steps
  <2> QED BY <2>1, <2>2
<1> QED BY <1>0, <1>1, <1>2, <1>3, <1>4, <1>5, <1>6, <1>7, <1>8, <1>9 DEF Own

\* No provider call escapes the accounts, whatever is cancelled when: it is in
\* the usage ledger, awaited, or abandoned by its caller, and in the metrics
\* once its task has run on.
THEOREM DispatchLedgered == Spec => []EveryDispatchLedgered
<1>1. Init => Accounted
  <2> SUFFICES ASSUME Init PROVE Accounted
    OBVIOUS
  <2>1. At({"await"}) = {} /\ At({"id", "push"}) = {}
    BY DEF Init, At
  <2>2. Cardinality(At({"await"})) = 0 /\ Cardinality(At({"id", "push"})) = 0
    BY <2>1, FS_EmptySet
  <2>3. summary.calls = 0 /\ ledger = 0 /\ dispatched = 0 /\ cancelled = 0
    BY DEF Init
  <2> QED BY <2>2, <2>3 DEF Accounted
<1>2. TypeInv /\ Accounted /\ [Next]_vars => Accounted'
  <2>1. ASSUME UNCHANGED vars, Accounted PROVE Accounted'
    BY <2>1 DEF vars, metrics, history, Accounted, At
  <2> QED BY <2>1, StepAccounted
<1>3. Accounted => EveryDispatchLedgered
  <2>1. At({"await"}) = {c \in Clients : pc[c] = "await"}
    BY DEF At
  <2>2. At({"id", "push"}) = {c \in Clients : pc[c] \in {"id", "push"}}
    BY DEF At
  <2> QED BY <2>1, <2>2 DEF Accounted, EveryDispatchLedgered
<1> QED BY <1>1, <1>2, <1>3, TypeInvariance, PTL DEF Spec

==============================================================================
