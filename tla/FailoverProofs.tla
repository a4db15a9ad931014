--------------------------- MODULE FailoverProofs ---------------------------
(***************************************************************************)
(* Proofs about the failover walk, whatever the providers answer and       *)
(* whenever targets come and go, and about the ranking it is given: what   *)
(* inserting, filtering and flattening make of sequences, that the lanes   *)
(* of a route draw from buckets of their own, and that spent ones are last.*)
(***************************************************************************)
EXTENDS Routing, WellFoundedInduction, TLAPS

Failing == {"blank", "transient", "quota"}

\* A walk that is under way is at one of its lanes and has not used up its
\* tries of it unless the last of them is being made.
Sound(r) ==
    /\ r \in Walk
    /\ r.pc \in Active => r.at \in 1..Len(r.ranked) /\ ~r.halted /\ r.served = NoLane
    /\ r.pc \in {"invoke", "backoff"} => r.tries < MaxTries
    /\ r.pc \in {"running", "exited"} => r.tries >= 1
    /\ Faithful(r)

\* The rows a walk under way has left are failures of lanes up to its own.
RowsFit(rows, r) ==
    /\ r.pc = "idle" => rows = <<>>
    /\ r.pc \in Active =>
          \A i \in DOMAIN rows : /\ rows[i].at <= r.at
                                 /\ rows[i].answer \in Failing
                                 /\ rows[i].at = r.at => rows[i].answer # "quota"

WalkInv ==
    /\ TypeOK
    /\ \A w \in Walks : Sound(walk[w]) /\ RowsFit(ledger[w], walk[w])
    /\ ChargesInOrder

\* A call in progress: its try is counted.
Called(r) == Sound(r) /\ r.pc \in Active /\ r.tries \in 1..MaxTries

-----------------------------------------------------------------------------
(* What the helpers make of a walk. *)

\* A lane that is given up joins the trail (walk_with_policy).
LEMMA GiveUpSound ==
    ASSUME NEW r, Called(r), r.policy, NEW class \in Classes
    PROVE  /\ Sound(GiveUp(r, class))
           /\ GiveUp(r, class).pc \in {"done", "invoke"}
           /\ GiveUp(r, class).pc = "invoke" => class # "fatal" /\ GiveUp(r, class).at = r.at + 1
<1> DEFINE a == [lane |-> Current(r), class |-> class, retried |-> r.tries > 1]
           t == Append(r.trail, a)
<1>1. r \in Walk /\ r.at \in 1..Len(r.ranked) /\ ~r.halted /\ r.tries \in 1..MaxTries /\ r.served = NoLane
  BY DEF Called, Sound
<1>2. r.trail \in Seq(Attempt) /\ r.ranked \in Seq(Lanes) /\ r.at \in Nat /\ Len(r.ranked) \in Nat
  BY <1>1 DEF Walk
<1>3. Len(r.trail) + 1 = r.at /\ \A i \in 1..Len(r.trail) : r.trail[i].lane = r.ranked[i] /\ r.trail[i].class # "fatal"
  BY <1>1, <1>2 DEF Called, Sound, Faithful
<1>4. a \in Attempt /\ a.lane = r.ranked[r.at] /\ a.class = class
  <2>1. Current(r) \in Lanes
    BY <1>1, <1>2 DEF Current
  <2>2. (r.tries > 1) \in BOOLEAN
    OBVIOUS
  <2> QED BY <2>1, <2>2 DEF Attempt, Current
<1>5. t \in Seq(Attempt) /\ Len(t) = r.at /\ t[r.at] = a /\ \A i \in 1..Len(r.trail) : t[i] = r.trail[i]
  <2> HIDE DEF a
  <2> QED BY <1>2, <1>3, <1>4
<1> HIDE DEF a, t
<1>6. \A i \in 1..r.at : t[i].lane = r.ranked[i] /\ (t[i].class = "fatal" <=> (class = "fatal" /\ i = r.at))
  <2>1. t[r.at].lane = r.ranked[r.at] /\ t[r.at].class = class
    BY <1>4, <1>5
  <2>2. SUFFICES ASSUME NEW i \in 1..r.at, i # r.at
                 PROVE  t[i].lane = r.ranked[i] /\ t[i].class # "fatal"
    BY <2>1
  <2>3. i \in 1..Len(r.trail)
    BY <1>2, <1>3, <2>2
  <2> QED BY <1>3, <1>5, <2>3
<1>7. CASE class = "fatal"
  <2>1. PICK b \in BOOLEAN : b = TRUE
    OBVIOUS
  <2>2. PICK x : x = [r EXCEPT !.pc = "done", !.trail = t, !.halted = b]
    OBVIOUS
  <2>3. x \in Walk
    BY <1>1, <1>5, <2>1, <2>2 DEF Walk
  <2>4. x.pc = "done" /\ x.trail = t /\ x.ranked = r.ranked /\ x.served = r.served /\ x.policy = r.policy
    BY <1>1, <2>2 DEF Walk
  <2>5. x.halted
    BY <1>1, <2>1, <2>2 DEF Walk
  <2>6. x = GiveUp(r, class)
    BY <1>7, <2>1, <2>2 DEF GiveUp, a, t
  <2>7. Faithful(x)
    BY <1>1, <1>2, <1>5, <1>6, <1>7, <2>4, <2>5 DEF Faithful, Active
  <2> QED BY <2>3, <2>4, <2>6, <2>7 DEF Sound, Active
<1>8. CASE class # "fatal" /\ r.at = Len(r.ranked)
  <2>2. PICK x : x = [r EXCEPT !.pc = "done", !.trail = t]
    OBVIOUS
  <2>3. x \in Walk
    BY <1>1, <1>5, <2>2 DEF Walk
  <2>4. x.pc = "done" /\ x.trail = t /\ x.ranked = r.ranked /\ x.served = r.served /\ x.policy = r.policy
    BY <1>1, <2>2 DEF Walk
  <2>5. x.halted = r.halted
    BY <1>1, <2>2 DEF Walk
  <2>6. x = GiveUp(r, class)
    BY <1>8, <2>2 DEF GiveUp, a, t
  <2>7. Faithful(x)
    BY <1>1, <1>2, <1>5, <1>6, <1>8, <2>4, <2>5 DEF Faithful, Active
  <2> QED BY <2>3, <2>4, <2>6, <2>7 DEF Sound, Active
<1>9. CASE class # "fatal" /\ r.at # Len(r.ranked)
  <2>1. PICK n \in Nat : n = r.at + 1
    BY <1>2
  <2>2. PICK z \in 0..MaxTries : z = 0
    BY FailoverAssumption
  <2>3. PICK x : x = [r EXCEPT !.pc = "invoke", !.trail = t, !.at = n, !.tries = z]
    OBVIOUS
  <2>4. x \in Walk
    BY <1>1, <1>5, <2>1, <2>2, <2>3 DEF Walk
  <2>5. x.pc = "invoke" /\ x.trail = t /\ x.ranked = r.ranked /\ x.served = r.served /\ x.policy = r.policy
    BY <1>1, <2>3 DEF Walk
  <2>6. x.halted = r.halted /\ x.at = n /\ x.tries = z
    BY <1>1, <2>3 DEF Walk
  <2>7. x = GiveUp(r, class)
    BY <1>9, <2>1, <2>2, <2>3 DEF GiveUp, a, t
  <2>8. Faithful(x)
    BY <1>1, <1>2, <1>5, <1>6, <1>9, <2>1, <2>5, <2>6 DEF Faithful, Active
  <2>9. x.at \in 1..Len(x.ranked) /\ x.tries < MaxTries
    BY <1>1, <1>2, <1>9, <2>1, <2>2, <2>5, <2>6, FailoverAssumption
  <2> QED BY <1>1, <1>9, <2>1, <2>4, <2>5, <2>6, <2>7, <2>8, <2>9 DEF Sound, Active
<1> QED BY <1>7, <1>8, <1>9

\* A failure of a lane leaves the walk sound, whether it is tried again,
\* given up or the end of a single call (walk_with_policy).
LEMMA AdvanceSound ==
    ASSUME NEW r, Called(r), NEW class \in Classes
    PROVE  /\ Sound(Advance(r, class))
           /\ Advance(r, class).pc \in {"done", "invoke", "backoff"}
           /\ Advance(r, class).pc = "backoff" => class = "transient" /\ Advance(r, class).at = r.at
           /\ Advance(r, class).pc = "invoke" => class # "fatal" /\ Advance(r, class).at = r.at + 1
<1>1. r \in Walk /\ r.at \in 1..Len(r.ranked) /\ ~r.halted /\ r.served = NoLane /\ r.policy \in BOOLEAN
  BY DEF Called, Sound, Walk
<1>2. CASE ~r.policy
  <2>1. PICK x : x = [r EXCEPT !.pc = "done"]
    OBVIOUS
  <2>2. x \in Walk
    BY <1>1, <2>1 DEF Walk
  <2>3. x.pc = "done" /\ x.policy = r.policy
    BY <1>1, <2>1 DEF Walk
  <2>4. x = Advance(r, class)
    BY <1>2, <2>1 DEF Advance
  <2> QED BY <1>2, <2>2, <2>3, <2>4 DEF Sound, Active, Faithful
<1>3. CASE r.policy /\ class = "transient" /\ r.tries < MaxTries
  <2>1. PICK x : x = [r EXCEPT !.pc = "backoff"]
    OBVIOUS
  <2>2. x \in Walk
    BY <1>1, <2>1 DEF Walk
  <2>3. /\ x.pc = "backoff" /\ x.policy = r.policy /\ x.at = r.at /\ x.ranked = r.ranked
        /\ x.trail = r.trail /\ x.halted = r.halted /\ x.served = r.served /\ x.tries = r.tries
    BY <1>1, <2>1 DEF Walk
  <2>4. x = Advance(r, class)
    BY <1>3, <2>1 DEF Advance
  <2>5. Faithful(x)
    BY <1>1, <2>3 DEF Called, Sound, Faithful, Active
  <2> QED BY <1>1, <1>3, <2>2, <2>3, <2>4, <2>5 DEF Sound, Active
<1>4. CASE r.policy /\ ~(class = "transient" /\ r.tries < MaxTries)
  BY <1>4, GiveUpSound DEF Advance
<1> QED BY <1>1, <1>2, <1>3, <1>4

\* An answer ends the walk or is a failure of its lane.
LEMMA ConcludeSound ==
    ASSUME NEW r, Called(r), NEW answer \in Answers
    PROVE  /\ Sound(Conclude(r, answer))
           /\ Conclude(r, answer).pc \in {"done", "invoke", "backoff"}
           /\ Conclude(r, answer).pc = "backoff" =>
                 answer \in {"blank", "transient"} /\ Conclude(r, answer).at = r.at
           /\ Conclude(r, answer).pc = "invoke" => answer \in Failing /\ Conclude(r, answer).at = r.at + 1
<1>1. r \in Walk /\ r.at \in 1..Len(r.ranked) /\ ~r.halted /\ r.served = NoLane /\ r.policy \in BOOLEAN
  BY DEF Called, Sound, Walk
<1>2. CASE answer = "text" \/ (answer = "blank" /\ ~r.policy)
  <2>1. PICK x : x = [r EXCEPT !.pc = "done", !.served = Current(r)]
    OBVIOUS
  <2>2. Current(r) \in Lanes /\ Current(r) = r.ranked[r.at]
    BY <1>1 DEF Walk, Current
  <2>3. x \in Walk
    BY <1>1, <2>1, <2>2 DEF Walk
  <2>4. /\ x.pc = "done" /\ x.policy = r.policy /\ x.ranked = r.ranked
        /\ x.trail = r.trail /\ x.halted = r.halted /\ x.served = Current(r)
    BY <1>1, <2>1 DEF Walk
  <2>5. x = Conclude(r, answer)
    BY <1>2, <2>1 DEF Conclude
  <2>6. Len(r.trail) \in Nat /\ Len(r.ranked) \in Nat
    BY <1>1 DEF Walk
  <2>7. r.policy => Len(r.trail) + 1 = r.at
    BY DEF Called, Sound, Faithful
  <2>8. Faithful(x)
    BY <1>1, <2>2, <2>4, <2>6, <2>7, NoLaneAssumption DEF Called, Sound, Faithful, Active
  <2> QED BY <2>3, <2>4, <2>5, <2>8 DEF Sound, Active
<1>3. CASE ~(answer = "text" \/ (answer = "blank" /\ ~r.policy))
  <2>1. Classify(answer) \in Classes /\ (Classify(answer) # "fatal" => answer \in Failing)
          /\ (Classify(answer) = "transient" => answer \in {"blank", "transient"})
    BY <1>3 DEF Classify, Answers, Classes, Failing
  <2>2. Conclude(r, answer) = Advance(r, Classify(answer))
    BY <1>3 DEF Conclude
  <2> QED BY <2>1, <2>2, AdvanceSound
<1> QED BY <1>2, <1>3

-----------------------------------------------------------------------------
(* The steps. *)

\* The part of the state that walks do not own.
Surroundings == installed \subseteq Tools /\ enabled \subseteq Tools /\ failures \in Nat /\ changes \in Nat

\* A step that changes one walk and leaves the ledger alone.
LEMMA QuietStep ==
    ASSUME WalkInv, NEW w \in Walks, NEW x, Sound(x), RowsFit(ledger[w], x),
           Set(w, x), ledger' = ledger, Surroundings'
    PROVE  WalkInv'
<1>1. walk' = [walk EXCEPT ![w] = x] /\ walk \in [Walks -> Walk] /\ x \in Walk
  BY DEF Set, WalkInv, TypeOK, Sound
<1>2. walk' \in [Walks -> Walk] /\ walk'[w] = x /\ \A v \in Walks \ {w} : walk'[v] = walk[v]
  BY <1>1
<1>3. TypeOK'
  BY <1>2 DEF WalkInv, TypeOK, Surroundings
<1>4. \A v \in Walks : Sound(walk'[v]) /\ RowsFit(ledger[v], walk'[v])
  BY <1>2 DEF WalkInv
<1>5. \A v \in Walks : Sound(walk[v])' /\ RowsFit(ledger[v], walk[v])'
  BY <1>4 DEF Sound, RowsFit, Faithful
<1>6. ChargesInOrder'
  BY DEF WalkInv, ChargesInOrder, InOrder
<1> QED BY <1>3, <1>5, <1>6 DEF WalkInv

\* A call that returns leaves its row (invoke_agent) and its walk goes on.
LEMMA ReturnStep ==
    ASSUME WalkInv, NEW w \in Walks, NEW answer \in Answers, Called(walk[w]),
           Return(w, answer), Surroundings'
    PROVE  WalkInv'
<1> DEFINE r == walk[w]
           x == Conclude(r, answer)
           ok == answer \in {"text", "blank"}
           row == [at |-> r.at, lane |-> Invoked(Current(r)), answer |-> answer, ok |-> ok]
           rows == ledger[w]
           more == Append(rows, row)
<1>1. walk' = [walk EXCEPT ![w] = x] /\ ledger' = [ledger EXCEPT ![w] = more]
  BY DEF Return, Set
<1>2. walk \in [Walks -> Walk] /\ ledger \in [Walks -> Seq(Row)] /\ rows \in Seq(Row)
  BY DEF WalkInv, TypeOK
<1>3. /\ Sound(x) /\ x.pc \in {"done", "invoke", "backoff"}
      /\ x.pc = "backoff" => answer \in {"blank", "transient"} /\ x.at = r.at
      /\ x.pc = "invoke" => answer \in Failing /\ x.at = r.at + 1
  BY ConcludeSound
<1>4. row \in Row /\ row.at = r.at /\ row.answer = answer
  <2>1. r \in Walk /\ r.at \in 1..Len(r.ranked) /\ r.at \in Nat
    BY DEF Called, Sound, Walk
  <2>2. Current(r) \in Lanes
    BY <2>1 DEF Walk, Current
  <2>3. \A t \in Tools : FirstModel(t) \in Models \union {NoModel}
    BY FailoverAssumption DEF FirstModel
  <2>4. Invoked(Current(r)) \in Lanes
    BY <2>2, <2>3 DEF Invoked, Lanes
  <2>5. ok \in BOOLEAN
    OBVIOUS
  <2> HIDE DEF ok
  <2> QED BY <2>1, <2>4, <2>5 DEF Row
<1> HIDE DEF row, x
<1>5. /\ more \in Seq(Row) /\ Len(more) = Len(rows) + 1 /\ more[Len(more)] = row
      /\ DOMAIN more = 1..Len(more) /\ DOMAIN rows = 1..Len(rows) /\ Len(rows) \in Nat
      /\ \A i \in 1..Len(rows) : more[i] = rows[i]
  BY <1>2, <1>4
<1>6. \A i \in 1..Len(rows) : /\ rows[i].at <= r.at /\ rows[i].answer \in Failing
                              /\ rows[i].at = r.at => rows[i].answer # "quota"
  BY <1>5 DEF WalkInv, RowsFit, Called
<1>7. InOrder(more)
  <2> SUFFICES ASSUME NEW i \in DOMAIN more, NEW j \in DOMAIN more, i < j
               PROVE  /\ more[i].at <= more[j].at
                      /\ more[i].answer \in Failing
                      /\ more[i].at = more[j].at => more[i].answer # "quota"
    BY DEF InOrder, Failing
  <2> HIDE DEF more
  <2>1. i \in 1..Len(rows) /\ more[i] = rows[i]
    BY <1>5
  <2>2. CASE j = Len(more)
    <3>1. more[j].at = r.at
      BY <1>4, <1>5, <2>2
    <3>2. /\ rows[i].at <= r.at /\ rows[i].answer \in Failing
          /\ rows[i].at = r.at => rows[i].answer # "quota"
      BY <1>6, <2>1
    <3> QED BY <2>1, <3>1, <3>2
  <2>3. CASE j # Len(more)
    <3>1. j \in 1..Len(rows) /\ more[j] = rows[j]
      BY <1>5, <2>3
    <3>2. InOrder(rows)
      BY DEF WalkInv, ChargesInOrder
    <3> QED BY <1>5, <2>1, <3>1, <3>2 DEF InOrder, Failing
  <2> QED BY <2>2, <2>3
<1>8. RowsFit(more, x)
  <2>1. ASSUME x.pc \in Active, NEW i \in DOMAIN more
        PROVE  more[i].at <= x.at /\ more[i].answer \in Failing /\ (more[i].at = x.at => more[i].answer # "quota")
    <3> HIDE DEF more
    <3>1. r.at \in Nat
      BY DEF Called, Sound, Walk
    <3>2. \A k \in 1..Len(rows) : rows[k].at \in Nat
      <4>1. \A k \in 1..Len(rows) : rows[k] \in Row
        BY <1>2
      <4> QED BY <4>1 DEF Row
    <3>3. CASE i = Len(more)
      BY <1>3, <1>4, <1>5, <2>1, <3>1, <3>3 DEF Active, Failing
    <3>4. CASE i # Len(more)
      <4>1. i \in 1..Len(rows) /\ more[i] = rows[i]
        BY <1>5, <3>4
      <4>2. /\ rows[i].at <= r.at /\ rows[i].answer \in Failing /\ rows[i].at \in Nat
            /\ rows[i].at = r.at => rows[i].answer # "quota"
        BY <1>6, <3>2, <4>1
      <4>3. x.at = r.at \/ x.at = r.at + 1
        BY <1>3, <2>1 DEF Active
      <4> QED BY <3>1, <4>1, <4>2, <4>3
    <3> QED BY <3>3, <3>4
  <2> HIDE DEF more
  <2> QED BY <1>3, <2>1 DEF RowsFit
<1> HIDE DEF more
<1>9. /\ walk' \in [Walks -> Walk] /\ walk'[w] = x /\ \A v \in Walks \ {w} : walk'[v] = walk[v]
      /\ ledger' \in [Walks -> Seq(Row)] /\ ledger'[w] = more /\ \A v \in Walks \ {w} : ledger'[v] = ledger[v]
  <2>1. x \in Walk
    BY <1>3 DEF Sound
  <2> QED BY <1>1, <1>2, <1>5, <2>1
<1>10. TypeOK'
  BY <1>9 DEF TypeOK, Surroundings
<1>11. \A v \in Walks : Sound(walk'[v]) /\ RowsFit(ledger'[v], walk'[v]) /\ InOrder(ledger'[v])
  BY <1>3, <1>7, <1>8, <1>9 DEF WalkInv, ChargesInOrder
<1>12. \A v \in Walks : Sound(walk[v])' /\ RowsFit(ledger[v], walk[v])'
  BY <1>11 DEF Sound, RowsFit, Faithful
<1>13. ChargesInOrder'
  BY <1>11 DEF ChargesInOrder, InOrder
<1> QED BY <1>10, <1>12, <1>13 DEF WalkInv

\* Walks begin at the first of their lanes, whatever ranked them.
LEMMA BeginStep ==
    ASSUME WalkInv, NEW w \in Walks, NEW ranked, NEW policy \in BOOLEAN, NEW pinned \in BOOLEAN,
           NEW spent \in SUBSET Nat, Begin(w, ranked, policy, pinned, spent)
    PROVE  WalkInv'
<1>1. PICK one \in Nat : one = 1
  OBVIOUS
<1>2. PICK x : x = [IdleWalk EXCEPT !.pc = "invoke", !.ranked = ranked, !.policy = policy,
                                    !.pinned = pinned, !.spent = spent, !.at = one]
  OBVIOUS
<1>3. IdleWalk \in Walk
  <2>1. PICK b \in BOOLEAN : b = TRUE
    OBVIOUS
  <2>2. PICK f \in BOOLEAN : f = FALSE
    OBVIOUS
  <2>3. PICK z \in 0..MaxTries : z = 0
    BY FailoverAssumption
  <2>4. PICK i : i = [pc |-> "idle", policy |-> b, pinned |-> f, ranked |-> <<>>, at |-> z, tries |-> z,
             answer |-> "text", trail |-> <<>>, served |-> NoLane, halted |-> f, spent |-> {}]
    OBVIOUS
  <2>5. i \in Walk
    BY <2>3, <2>4 DEF Walk, Answers
  <2>6. i = IdleWalk
    BY <2>1, <2>2, <2>3, <2>4 DEF IdleWalk
  <2> QED BY <2>5, <2>6
<1>4. ranked \in Seq(Lanes) /\ ranked # <<>>
  BY DEF Begin
<1>5. x \in Walk
  BY <1>1, <1>2, <1>3, <1>4 DEF Walk
<1>6. x.pc = "invoke" /\ x.ranked = ranked /\ x.at = one
  BY <1>2, <1>3 DEF Walk
<1>7. x.trail = <<>> /\ x.served = NoLane /\ x.tries = 0
  BY <1>2, <1>3 DEF Walk, IdleWalk
<1>8. ~x.halted
  BY <1>2, <1>3 DEF Walk, IdleWalk
<1>9. Len(ranked) \in Nat /\ Len(ranked) >= 1
  BY <1>4
<1>10. Faithful(x)
  BY <1>1, <1>6, <1>7, <1>8, <1>9 DEF Faithful, Active
<1>11. Sound(x)
  BY <1>1, <1>5, <1>6, <1>7, <1>8, <1>9, <1>10, FailoverAssumption DEF Sound, Active
<1>12. RowsFit(ledger[w], x)
  <2>1. ledger[w] = <<>>
    BY DEF Begin, WalkInv, RowsFit
  <2> QED BY <2>1, <1>6 DEF RowsFit
<1>13. Set(w, x) /\ ledger' = ledger /\ Surroundings'
  BY <1>1, <1>2 DEF Begin, Set, WalkInv, TypeOK, Surroundings
<1> QED BY <1>11, <1>12, <1>13, QuietStep

\* A refusal leaves no row, and counts as a try.
LEMMA RefusedStep ==
    ASSUME WalkInv, NEW w \in Walks, Refused(w)
    PROVE  WalkInv'
<1>1. PICK class \in Refusals(Current(walk[w])) :
          Set(w, Advance([walk[w] EXCEPT !.tries = walk[w].tries + 1], class))
  BY DEF Refused
<1>2. class \in Classes
  BY DEF Refusals, Classes
<1>3. Sound(walk[w]) /\ walk[w] \in Walk /\ walk[w].pc = "invoke" /\ RowsFit(ledger[w], walk[w])
  BY DEF Refused, WalkInv, Sound
<1>4. PICK n \in 1..MaxTries : n = walk[w].tries + 1
  BY <1>3, FailoverAssumption DEF Sound, Walk
<1>5. PICK r : r = [walk[w] EXCEPT !.tries = n]
  OBVIOUS
<1>6. r \in Walk
  BY <1>3, <1>4, <1>5 DEF Walk
<1>7. /\ r.pc = "invoke" /\ r.policy = walk[w].policy /\ r.at = walk[w].at /\ r.ranked = walk[w].ranked
      /\ r.trail = walk[w].trail /\ r.halted = walk[w].halted /\ r.served = walk[w].served /\ r.tries = n
  BY <1>3, <1>5 DEF Walk
<1>8. r.at \in 1..Len(r.ranked) /\ ~r.halted /\ r.served = NoLane /\ Faithful(r)
  BY <1>3, <1>7 DEF Sound, Active, Faithful
<1>9. PICK s : s = [r EXCEPT !.pc = "running"]
  OBVIOUS
<1>10. /\ s \in Walk /\ s.pc = "running" /\ s.policy = r.policy /\ s.at = r.at /\ s.ranked = r.ranked
       /\ s.trail = r.trail /\ s.halted = r.halted /\ s.served = r.served /\ s.tries = n
  BY <1>6, <1>7, <1>9 DEF Walk
<1>11. Called(s)
  BY <1>4, <1>7, <1>8, <1>10 DEF Called, Sound, Active, Faithful
<1>12. Advance(r, class) = Advance(s, class)
  <2>1. \A a, b, c : /\ [r EXCEPT !.pc = a] = [s EXCEPT !.pc = a]
                    /\ [r EXCEPT !.pc = a, !.trail = b] = [s EXCEPT !.pc = a, !.trail = b]
                    /\ [r EXCEPT !.pc = a, !.trail = b, !.halted = c] = [s EXCEPT !.pc = a, !.trail = b, !.halted = c]
    BY <1>6, <1>9 DEF Walk
  <2>2. \A a, b, c, d : [r EXCEPT !.pc = a, !.trail = b, !.at = c, !.tries = d]
                          = [s EXCEPT !.pc = a, !.trail = b, !.at = c, !.tries = d]
    BY <1>6, <1>9 DEF Walk
  <2>3. Current(r) = Current(s)
    BY <1>10 DEF Current
  <2>4. GiveUp(r, class) = GiveUp(s, class)
    BY <1>7, <1>10, <2>1, <2>2, <2>3 DEF GiveUp
  <2> QED BY <1>7, <1>10, <2>1, <2>4 DEF Advance
<1>13. PICK x : x = Advance(r, class)
  OBVIOUS
<1>14. /\ Sound(x) /\ x.pc \in {"done", "invoke", "backoff"}
       /\ x.pc = "backoff" => x.at = r.at
       /\ x.pc = "invoke" => x.at = r.at + 1
  BY <1>2, <1>10, <1>11, <1>12, <1>13, AdvanceSound
<1>15. RowsFit(ledger[w], x)
  <2>1. ASSUME x.pc \in Active, NEW i \in DOMAIN ledger[w]
        PROVE  /\ ledger[w][i].at <= x.at /\ ledger[w][i].answer \in Failing
               /\ ledger[w][i].at = x.at => ledger[w][i].answer # "quota"
    <3>1. /\ ledger[w][i].at <= r.at /\ ledger[w][i].answer \in Failing
          /\ ledger[w][i].at = r.at => ledger[w][i].answer # "quota"
      BY <1>3, <1>7 DEF RowsFit, Active
    <3>2. r.at \in Nat /\ (x.at = r.at \/ x.at = r.at + 1)
      BY <1>6, <1>14, <2>1 DEF Active, Walk
    <3>3. ledger[w][i].at \in Nat
      <4>1. ledger[w] \in Seq(Row)
        BY DEF WalkInv, TypeOK
      <4>2. ledger[w][i] \in Row
        BY <4>1
      <4> QED BY <4>2 DEF Row
    <3> QED BY <3>1, <3>2, <3>3
  <2> QED BY <1>14, <2>1 DEF RowsFit
<1>16. Set(w, x) /\ ledger' = ledger /\ Surroundings'
  BY <1>1, <1>4, <1>5, <1>13 DEF Refused, WalkInv, TypeOK, Surroundings
<1> QED BY <1>14, <1>15, <1>16, QuietStep

\* A step of a walk that stays at its lane and learns nothing yet.
LEMMA MoveStep ==
    ASSUME WalkInv, NEW w \in Walks, walk[w].pc \in Active,
           NEW pc \in Active, NEW tries \in 0..MaxTries, NEW answer \in Answers,
           pc \in {"invoke", "backoff"} => tries < MaxTries, pc \in {"running", "exited"} => tries >= 1,
           Set(w, [walk[w] EXCEPT !.pc = pc, !.tries = tries, !.answer = answer]),
           ledger' = ledger, Surroundings'
    PROVE  WalkInv'
<1>1. PICK x : x = [walk[w] EXCEPT !.pc = pc, !.tries = tries, !.answer = answer]
  OBVIOUS
<1>2. Sound(walk[w]) /\ walk[w] \in Walk /\ RowsFit(ledger[w], walk[w])
  BY DEF WalkInv, Sound
<1>3. x \in Walk
  BY <1>1, <1>2 DEF Walk, Active
<1>4. /\ x.pc = pc /\ x.policy = walk[w].policy /\ x.at = walk[w].at /\ x.ranked = walk[w].ranked
      /\ x.trail = walk[w].trail /\ x.halted = walk[w].halted /\ x.served = walk[w].served /\ x.tries = tries
  BY <1>1, <1>2 DEF Walk
<1>5. Sound(x)
  <2>1. Faithful(x)
    BY <1>2, <1>4 DEF Sound, Faithful, Active
  <2> QED BY <1>2, <1>3, <1>4, <2>1 DEF Sound, Active
<1>6. RowsFit(ledger[w], x)
  BY <1>2, <1>4 DEF RowsFit, Active
<1> QED BY <1>1, <1>5, <1>6, QuietStep

\* One step of a walk after another (invoke_agent, run_cli_argv, walk_with_policy).
LEMMA CallStep ==
    ASSUME WalkInv, NEW w \in Walks, Call(w)
    PROVE  WalkInv'
<1> DEFINE r == walk[w]
<1>1. Sound(r) /\ r \in Walk /\ r.tries \in 0..MaxTries /\ r.answer \in Answers
  BY DEF WalkInv, Sound, Walk
<1>2. \A answer : Counts(answer) => failures' \in Nat
  BY DEF Counts, WalkInv, TypeOK
<1>3. r = [r EXCEPT !.pc = r.pc, !.tries = r.tries, !.answer = r.answer]
  BY <1>1 DEF Walk
<1>4. CASE Refused(w)
  BY <1>4, RefusedStep
<1>5. CASE Invoke(w)
  <2>1. PICK n \in 0..MaxTries : n = r.tries + 1 /\ n >= 1
    BY <1>1, <1>5, FailoverAssumption DEF Invoke, Sound
  <2>2. [r EXCEPT !.pc = "running", !.tries = n] = [r EXCEPT !.pc = "running", !.tries = n, !.answer = r.answer]
    BY <1>1 DEF Walk
  <2>3. Set(w, [r EXCEPT !.pc = "running", !.tries = n, !.answer = r.answer])
    BY <1>5, <2>1, <2>2 DEF Invoke
  <2>4. ledger' = ledger /\ Surroundings' /\ r.pc = "invoke"
    BY <1>5 DEF Invoke, WalkInv, TypeOK, Surroundings
  <2> QED BY <1>1, <2>1, <2>3, <2>4, MoveStep DEF Active
<1>6. CASE Retry(w)
  <2>1. [r EXCEPT !.pc = "invoke"] = [r EXCEPT !.pc = "invoke", !.tries = r.tries, !.answer = r.answer]
    BY <1>1 DEF Walk
  <2>2. Set(w, [r EXCEPT !.pc = "invoke", !.tries = r.tries, !.answer = r.answer])
    BY <1>6, <2>1 DEF Retry
  <2>3. ledger' = ledger /\ Surroundings' /\ r.pc = "backoff" /\ r.tries < MaxTries
    BY <1>1, <1>6 DEF Retry, WalkInv, TypeOK, Surroundings, Sound
  <2> QED BY <1>1, <2>2, <2>3, MoveStep DEF Active
<1>7. ASSUME NEW answer \in Answers, Exit(w, answer)
      PROVE  WalkInv'
  <2>1. [r EXCEPT !.pc = "exited", !.answer = answer] = [r EXCEPT !.pc = "exited", !.tries = r.tries, !.answer = answer]
    BY <1>1 DEF Walk
  <2>2. Set(w, [r EXCEPT !.pc = "exited", !.tries = r.tries, !.answer = answer])
    BY <1>7, <2>1 DEF Exit
  <2>3. ledger' = ledger /\ Surroundings' /\ r.pc = "running" /\ r.tries >= 1
    BY <1>1, <1>2, <1>7 DEF Exit, WalkInv, TypeOK, Surroundings, Sound
  <2> QED BY <1>1, <2>2, <2>3, MoveStep DEF Active
<1>8. r.pc \in {"running", "exited"} => Called(r)
  BY <1>1, FailoverAssumption DEF Called, Sound, Active
<1>9. CASE ReadOutput(w)
  <2>1. r.pc = "exited" /\ Return(w, r.answer) /\ Surroundings'
    BY <1>9 DEF ReadOutput, WalkInv, TypeOK, Surroundings
  <2> QED BY <1>1, <1>8, <2>1, ReturnStep
<1>10. CASE TimeOut(w)
  <2>1. r.pc = "running" /\ Return(w, "transient") /\ Surroundings' /\ "transient" \in Answers
    BY <1>2, <1>10 DEF TimeOut, WalkInv, TypeOK, Surroundings, Answers, Classes
  <2> QED BY <1>8, <2>1, ReturnStep
<1>11. ASSUME NEW answer \in Answers, Answer(w, answer)
       PROVE  WalkInv'
  <2>1. r.pc = "running" /\ Return(w, answer) /\ Surroundings'
    BY <1>2, <1>11 DEF Answer, WalkInv, TypeOK, Surroundings
  <2> QED BY <1>8, <2>1, ReturnStep
<1> QED BY <1>4, <1>5, <1>6, <1>7, <1>9, <1>10, <1>11 DEF Call

-----------------------------------------------------------------------------
(* The theorems. *)

\* Every walk starts idle, with no rows.
LEMMA InitInv == Init => WalkInv
<1> SUFFICES ASSUME Init PROVE WalkInv
  OBVIOUS
<1>1. PICK z \in 0..MaxTries : z = 0
  BY FailoverAssumption
<1>2. PICK b \in BOOLEAN : b = TRUE
  OBVIOUS
<1>3. PICK f \in BOOLEAN : f = FALSE
  OBVIOUS
<1>4. PICK x : x = [pc |-> "idle", policy |-> b, pinned |-> f, ranked |-> <<>>, at |-> z, tries |-> z,
                    answer |-> "text", trail |-> <<>>, served |-> NoLane, halted |-> f, spent |-> {}]
  OBVIOUS
<1>5. x \in Walk
  BY <1>4 DEF Walk, Answers
<1>6. x = IdleWalk
  BY <1>1, <1>2, <1>3, <1>4 DEF IdleWalk
<1>7. x.pc = "idle" /\ x.trail = <<>> /\ x.ranked = <<>>
  BY <1>4
<1>8. Faithful(x)
  BY <1>7 DEF Faithful, Active
<1>9. Sound(x) /\ RowsFit(<<>>, x)
  BY <1>5, <1>7, <1>8 DEF Sound, RowsFit, Active
<1>10. \A w \in Walks : walk[w] = x /\ ledger[w] = <<>>
  BY <1>6 DEF Init
<1>11. TypeOK
  <2>1. walk \in [Walks -> Walk]
    BY <1>5, <1>6 DEF Init
  <2>2. ledger \in [Walks -> Seq(Row)]
    BY DEF Init
  <2> QED BY <2>1, <2>2, FailoverAssumption DEF Init, TypeOK
<1>12. ChargesInOrder
  BY <1>10 DEF ChargesInOrder, InOrder
<1> QED BY <1>9, <1>10, <1>11, <1>12 DEF WalkInv

\* The walk's invariant is preserved by every step of the routed system.
LEMMA NextInv == WalkInv /\ [RoutedNext]_vars => WalkInv'
<1> SUFFICES ASSUME WalkInv, [RoutedNext]_vars PROVE WalkInv'
  OBVIOUS
<1>1. ASSUME NEW w \in Walks, NEW q \in Requests, Route(w, q)
      PROVE  WalkInv'
  <2>1. PICK lanes \in Seq(Lanes), pinned \in BOOLEAN, spent \in SUBSET Nat : Begin(w, lanes, q.failover, pinned, spent)
    <3> DEFINE ranked == RankedTargets(q)
               lanes == IF q.failover \/ ranked = <<>> THEN ranked ELSE <<ranked[1]>>
               spent == {i \in DOMAIN lanes : Exhausted(Key(lanes[i]))}
               pinned == q.target # NoTool
    <3>1. Begin(w, lanes, q.failover, pinned, spent)
      BY <1>1 DEF Route
    <3>2. lanes \in Seq(Lanes)
      BY <3>1 DEF Begin
    <3>3. DOMAIN lanes \subseteq Nat
      <4> HIDE DEF lanes
      <4> QED BY <3>2
    <3>4. spent \in SUBSET Nat /\ pinned \in BOOLEAN
      BY <3>3
    <3> HIDE DEF lanes, spent, pinned
    <3>5. PICK l \in Seq(Lanes), p \in BOOLEAN, s \in SUBSET Nat : l = lanes /\ p = pinned /\ s = spent
      BY <3>2, <3>4
    <3>6. Begin(w, l, q.failover, p, s)
      BY <3>1, <3>5
    <3> QED BY <3>6
  <2>2. q.failover \in BOOLEAN
    BY RoutingAssumption
  <2> QED BY <2>1, <2>2, BeginStep
<1>2. ASSUME NEW w \in Walks, Call(w)
      PROVE  WalkInv'
  BY <1>2, CallStep
<1>3. ASSUME NEW t \in Volatile, Reconfigure(t)
      PROVE  WalkInv'
  <2>1. t \in Tools
    BY FailoverAssumption
  <2>2. Surroundings' /\ walk' = walk /\ ledger' = ledger
    BY <1>3, <2>1 DEF Reconfigure, WalkInv, TypeOK, Surroundings
  <2> QED BY <2>2 DEF WalkInv, TypeOK, Surroundings, ChargesInOrder, InOrder, Sound, RowsFit, Faithful
<1>4. CASE UNCHANGED vars
  BY <1>4 DEF vars, WalkInv, TypeOK, ChargesInOrder, InOrder, Sound, RowsFit, Faithful
<1> QED BY <1>1, <1>2, <1>3, <1>4 DEF RoutedNext

\* For any targets, caps and requests, any number of walks, and whatever the
\* providers answer, the state of routing and failover is well typed.
THEOREM TypeCorrect == RoutedSpec => []TypeOK
<1>1. WalkInv => TypeOK
  BY DEF WalkInv
<1> QED BY <1>1, InitInv, NextInv, PTL DEF RoutedSpec

\* A walk charges its lanes in the order they were ranked, charges one again
\* only after a transient failure, and charges none after one that answered
\* or failed fatally, for any instance (walk_with_policy).
THEOREM OrderedCharges == RoutedSpec => []ChargesInOrder
<1>1. WalkInv => ChargesInOrder
  BY DEF WalkInv
<1> QED BY <1>1, InitInv, NextInv, PTL DEF RoutedSpec

\* The trail a walk reports is exactly the lanes it gave up, in order, for any
\* instance (PolicyOutcome).
THEOREM FaithfulTrail == RoutedSpec => []TrailFaithful
<1>1. WalkInv => TrailFaithful
  BY DEF WalkInv, TrailFaithful, Sound
<1> QED BY <1>1, InitInv, NextInv, PTL DEF RoutedSpec

-----------------------------------------------------------------------------
(* Ranking: what inserting, filtering and flattening make of sequences. *)

LEMMA Least ==
    ASSUME NEW S \in SUBSET Nat, S # {}
    PROVE  \E x \in S : \A y \in S : x <= y
<1>1. PICK R : R = OpToRel(<, Nat)
  OBVIOUS
<1>2. PICK x \in S : \A y \in S : ~(<<y, x>> \in R)
  BY <1>1, NatLessThanWellFounded, WFMin
<1>3. \A y \in S : ~(y < x)
  BY <1>1, <1>2 DEF OpToRel
<1> QED BY <1>2, <1>3

LEMMA MinIs ==
    ASSUME NEW S \in SUBSET Nat, S # {}
    PROVE  Min(S) \in S /\ \A y \in S : Min(S) <= y
<1>1. \E x \in S : \A y \in S : x =< y
  BY Least
<1> QED BY <1>1 DEF Min

\* The place of one more candidate, and what the others become.
LEMMA InsertIndex ==
    ASSUME NEW X, NEW s \in Seq(X), NEW c \in X, NEW k \in 0..Len(s)
    PROVE  /\ InsertAt(s, k + 1, c) \in Seq(X)
           /\ Len(InsertAt(s, k + 1, c)) = Len(s) + 1
           /\ \A j \in 1..(Len(s) + 1) :
                 InsertAt(s, k + 1, c)[j] = IF j <= k THEN s[j] ELSE IF j = k + 1 THEN c ELSE s[j - 1]
<1>1. Len(s) \in Nat /\ k \in Nat /\ (k + 1) - 1 = k
  OBVIOUS
<1>2. PICK a : a = SubSeq(s, 1, k)
  OBVIOUS
<1>3. a \in Seq(X) /\ Len(a) = k /\ \A j \in 1..k : a[j] = s[j]
  BY <1>2
<1>4. PICK b : b = SubSeq(s, k + 1, Len(s))
  OBVIOUS
<1>5. b \in Seq(X) /\ Len(b) = Len(s) - k /\ \A j \in 1..(Len(s) - k) : b[j] = s[k + j]
  BY <1>4
<1>6. PICK m : m = a \o <<c>>
  OBVIOUS
<1>7. m \in Seq(X) /\ Len(m) = k + 1 /\ m[k + 1] = c /\ \A j \in 1..k : m[j] = s[j]
  BY <1>3, <1>6
<1>8. PICK r : r = m \o b
  OBVIOUS
<1>9. r \in Seq(X) /\ Len(r) = Len(s) + 1
  <2>1. m \in Seq(X) /\ b \in Seq(X)
    BY <1>5, <1>7
  <2>2. r \in Seq(X) /\ Len(r) = Len(m) + Len(b)
    BY <1>8, <2>1
  <2>3. Len(m) + Len(b) = Len(s) + 1
    BY <1>1, <1>5, <1>7
  <2> QED BY <2>2, <2>3
<1>10. \A j \in 1..(Len(s) + 1) : r[j] = IF j <= k + 1 THEN m[j] ELSE b[j - (k + 1)]
  <2>1. Len(m) + Len(b) = Len(s) + 1
    BY <1>1, <1>5, <1>7
  <2>2. \A j \in 1..(Len(m) + Len(b)) : r[j] = IF j <= Len(m) THEN m[j] ELSE b[j - Len(m)]
    BY <1>5, <1>7, <1>8
  <2> QED BY <1>7, <2>1, <2>2
<1>11. \A j \in 1..(Len(s) + 1) : r[j] = IF j <= k THEN s[j] ELSE IF j = k + 1 THEN c ELSE s[j - 1]
  <2> SUFFICES ASSUME NEW j \in 1..(Len(s) + 1)
               PROVE  r[j] = IF j <= k THEN s[j] ELSE IF j = k + 1 THEN c ELSE s[j - 1]
    OBVIOUS
  <2>1. CASE j <= k + 1
    BY <1>7, <1>10, <2>1
  <2>2. CASE ~(j <= k + 1)
    <3>1. r[j] = b[j - (k + 1)]
      BY <1>10, <2>2
    <3>2. j - (k + 1) \in 1..(Len(s) - k) /\ k + (j - (k + 1)) = j - 1
      BY <2>2
    <3>3. b[j - (k + 1)] = s[j - 1]
      BY <1>5, <3>2
    <3> QED BY <2>2, <3>1, <3>3
  <2> QED BY <2>1, <2>2
<1>12. r = InsertAt(s, k + 1, c)
  BY <1>1, <1>2, <1>4, <1>6, <1>8 DEF InsertAt
<1> QED BY <1>9, <1>11, <1>12

\* Among sequences over X: keys told apart, and the spent ones last.
Apart(s, key) == \A i, j \in 1..Len(s) : i # j => key[s[i]] # key[s[j]]
From(s, cs) == \A i \in 1..Len(s) : \E j \in 1..Len(cs) : s[i] = cs[j]
SpentLast(s) == \A i, j \in 1..Len(s) : i < j /\ s[i].exhausted => s[j].exhausted

\* The place a candidate is inserted at is behind every lane it is no better
\* than in being exhausted.
LEMMA InsertPlace ==
    ASSUME NEW X, NEW q, NEW s \in Seq(X), NEW c \in X
    PROVE  \E k \in 0..Len(s) :
              /\ InsertSorted(q, s, c) = InsertAt(s, k + 1, c)
              /\ \A j \in (k + 1)..Len(s) : Compare(q.prefer, c, s[j]) < 0
              /\ k # 0 => ~(Compare(q.prefer, c, s[k]) < 0)
<1> DEFINE P == {k \in 0..Len(s) : \A j \in (k + 1)..Len(s) : Compare(q.prefer, c, s[j]) < 0}
<1>1. Len(s) \in Nat
  OBVIOUS
<1>2. Len(s) \in P
  BY <1>1
<1>3. P \in SUBSET Nat
  OBVIOUS
<1>4. Min(P) \in P /\ \A y \in P : Min(P) <= y
  <2> HIDE DEF P
  <2> QED BY <1>2, <1>3, MinIs
<1>5. PICK k \in P : k = Min(P) /\ \A y \in P : k <= y
  <2> HIDE DEF P
  <2> QED BY <1>4
<1>6. InsertSorted(q, s, c) = InsertAt(s, k + 1, c)
  BY <1>5 DEF InsertSorted
<1>7. \A j \in (k + 1)..Len(s) : Compare(q.prefer, c, s[j]) < 0
  OBVIOUS
<1>8. ASSUME k # 0, Compare(q.prefer, c, s[k]) < 0 PROVE FALSE
  <2>1. k \in 0..Len(s) /\ k - 1 \in 0..Len(s) /\ ~(k <= k - 1)
    BY <1>1, <1>8
  <2>2. \A j \in ((k - 1) + 1)..Len(s) : j = k \/ j \in (k + 1)..Len(s)
    BY <1>1, <2>1
  <2>3. \A j \in ((k - 1) + 1)..Len(s) : Compare(q.prefer, c, s[j]) < 0
    BY <1>7, <1>8, <2>2
  <2>4. k - 1 \in P
    BY <2>1, <2>3
  <2> QED BY <1>5, <2>1, <2>4
<1> QED BY <1>6, <1>7, <1>8

LEMMA ExhaustedFirst ==
    ASSUME NEW prefer, NEW a, NEW b
    PROVE  /\ a.exhausted = TRUE /\ b.exhausted = FALSE => ~(Compare(prefer, a, b) < 0)
           /\ a.exhausted = FALSE /\ b.exhausted = TRUE => Compare(prefer, a, b) < 0
<1> DEFINE e == RankOf(a.exhausted) - RankOf(b.exhausted)
<1>1. /\ a.exhausted = TRUE /\ b.exhausted = FALSE => e = 1
      /\ a.exhausted = FALSE /\ b.exhausted = TRUE => e = -1
  BY DEF RankOf
<1>2. ASSUME NEW s, 1 \in DOMAIN s, DOMAIN s \subseteq Nat \ {0}, s[1] = e, e # 0
      PROVE  FirstNonZero(s) = e
  <2>1. PICK P : P = {i \in DOMAIN s : s[i] # 0}
    OBVIOUS
  <2>2. P \in SUBSET Nat /\ 1 \in P /\ \A i \in P : 1 <= i
    BY <1>2, <2>1
  <2>3. Min(P) \in P /\ Min(P) <= 1
    BY <2>2, MinIs
  <2>4. PICK m : m = Min(P)
    OBVIOUS
  <2>5. m \in Nat /\ 1 <= m /\ m <= 1
    BY <2>2, <2>3, <2>4
  <2>6. m = 1
    BY <2>5
  <2> QED BY <1>2, <2>1, <2>2, <2>4, <2>6 DEF FirstNonZero
<1> DEFINE near == RankOf(a.near) - RankOf(b.near)
           cost == Cost[a.lane.tool] - Cost[b.lane.tool]
           fit == Fit[b.lane.tool] - Fit[a.lane.tool]
           names == <<Place(ToolOrder, a.lane.tool) - Place(ToolOrder, b.lane.tool),
                      Place(PoolOrder, a.pool) - Place(PoolOrder, b.pool)>>
           room == <<HeadroomDesc(a.limiting, b.limiting), ObservedRoom(a, b)>>
           s1 == <<e, fit, near>> \o room \o <<cost>> \o names
           s2 == <<e, cost, near, fit>> \o room \o names
<1>3. Compare(prefer, a, b) = FirstNonZero(IF prefer = "quality" THEN s1 ELSE s2)
  BY DEF Compare
<1>4. 1 \in DOMAIN s1 /\ DOMAIN s1 \subseteq Nat \ {0} /\ s1[1] = e
  <2> HIDE DEF e, near, cost, fit
  <2>1. PICK x1, x2 : room = <<x1, x2>>
    OBVIOUS
  <2>2. PICK y1, y2 : names = <<y1, y2>>
    OBVIOUS
  <2> HIDE DEF room, names
  <2>3. s1 = <<e, fit, near>> \o <<x1, x2>> \o <<cost>> \o <<y1, y2>>
    BY <2>1, <2>2
  <2> QED BY <2>3
<1>5. 1 \in DOMAIN s2 /\ DOMAIN s2 \subseteq Nat \ {0} /\ s2[1] = e
  <2> HIDE DEF e, near, cost, fit
  <2>1. PICK x1, x2 : room = <<x1, x2>>
    OBVIOUS
  <2>2. PICK y1, y2 : names = <<y1, y2>>
    OBVIOUS
  <2> HIDE DEF room, names
  <2>3. s2 = <<e, cost, near, fit>> \o <<x1, x2>> \o <<y1, y2>>
    BY <2>1, <2>2
  <2> QED BY <2>3
<1> HIDE DEF e, s1, s2
<1>6. e # 0 => Compare(prefer, a, b) = e
  BY <1>2, <1>3, <1>4, <1>5
<1> QED BY <1>1, <1>6

\* One more candidate.
LEMMA InsertKeeps ==
    ASSUME NEW X, NEW q, NEW s \in Seq(X), NEW c \in X, NEW key, \A x \in X : x.exhausted \in BOOLEAN
    PROVE  LET r == InsertSorted(q, s, c)
           IN  /\ r \in Seq(X) /\ Len(r) = Len(s) + 1
               /\ \A i \in 1..Len(r) : r[i] = c \/ \E j \in 1..Len(s) : r[i] = s[j]
               /\ SpentLast(s) => SpentLast(r)
               /\ Apart(s, key) /\ (\A i \in 1..Len(s) : key[s[i]] # key[c]) => Apart(r, key)
<1>1. PICK k \in 0..Len(s) :
              /\ InsertSorted(q, s, c) = InsertAt(s, k + 1, c)
              /\ \A j \in (k + 1)..Len(s) : Compare(q.prefer, c, s[j]) < 0
              /\ k # 0 => ~(Compare(q.prefer, c, s[k]) < 0)
  BY InsertPlace
<1>2. PICK r : r = InsertSorted(q, s, c)
  OBVIOUS
<1>3. Len(s) \in Nat /\ \A i \in 1..Len(s) : s[i] \in X
  OBVIOUS
<1>4. r \in Seq(X) /\ Len(r) = Len(s) + 1
  BY <1>1, <1>2, InsertIndex
<1>5. \A j \in 1..(Len(s) + 1) : r[j] = IF j <= k THEN s[j] ELSE IF j = k + 1 THEN c ELSE s[j - 1]
  <2>1. r = InsertAt(s, k + 1, c)
    BY <1>1, <1>2
  <2>2. \A j \in 1..(Len(s) + 1) :
           InsertAt(s, k + 1, c)[j] = IF j <= k THEN s[j] ELSE IF j = k + 1 THEN c ELSE s[j - 1]
    BY InsertIndex
  <2> QED BY <2>1, <2>2
\* Where the entry j of the longer sequence comes from.
<1> DEFINE from(j) == IF j <= k THEN j ELSE j - 1
<1>6. \A j \in 1..Len(r) : j = k + 1 \/ (from(j) \in 1..Len(s) /\ r[j] = s[from(j)])
  BY <1>3, <1>4, <1>5
<1>7. r[k + 1] = c
  BY <1>3, <1>5
<1>8. \A i \in 1..Len(r) : r[i] = c \/ \E j \in 1..Len(s) : r[i] = s[j]
  BY <1>6, <1>7
<1>9. ASSUME SpentLast(s) PROVE SpentLast(r)
  <2> SUFFICES ASSUME NEW i \in 1..Len(r), NEW j \in 1..Len(r), i < j, r[i].exhausted, ~r[j].exhausted
               PROVE  FALSE
    BY <1>3, <1>4, <1>6, <1>7 DEF SpentLast
  <2>1. CASE i # k + 1 /\ j # k + 1
    <3>1. from(i) \in 1..Len(s) /\ from(j) \in 1..Len(s) /\ from(i) < from(j)
      BY <1>3, <1>4, <1>6, <2>1
    <3>2. r[i] = s[from(i)] /\ r[j] = s[from(j)]
      BY <1>6, <2>1
    <3> HIDE DEF from
    <3> QED BY <1>9, <3>1, <3>2 DEF SpentLast
  <2>2. CASE i = k + 1
    <3>1. j - 1 \in (k + 1)..Len(s) /\ j - 1 \in 1..Len(s) /\ r[j] = s[j - 1]
      BY <1>3, <1>4, <1>5, <2>2
    <3>2. Compare(q.prefer, c, s[j - 1]) < 0
      BY <1>1, <3>1
    <3>3. c.exhausted = TRUE /\ s[j - 1].exhausted = FALSE
      BY <1>3, <1>7, <2>2, <3>1
    <3>4. ~(Compare(q.prefer, c, s[j - 1]) < 0)
      BY <3>3, ExhaustedFirst
    <3> QED BY <3>2, <3>4
  <2>3. CASE j = k + 1
    <3>1. i \in 1..k /\ k # 0 /\ k \in 1..Len(s) /\ i \in 1..Len(s) /\ r[i] = s[i]
      BY <1>3, <1>4, <1>5, <2>3
    <3>2. s[k].exhausted
      BY <1>9, <3>1 DEF SpentLast
    <3>3. c.exhausted \in BOOLEAN /\ s[k].exhausted \in BOOLEAN /\ ~c.exhausted
      BY <1>3, <1>7, <2>3, <3>1
    <3>4. ~(Compare(q.prefer, c, s[k]) < 0)
      BY <1>1, <3>1
    <3>5. c.exhausted = FALSE /\ s[k].exhausted = TRUE
      BY <3>2, <3>3
    <3> QED BY <3>4, <3>5, ExhaustedFirst
  <2> QED BY <2>1, <2>2, <2>3
<1>10. ASSUME Apart(s, key), \A i \in 1..Len(s) : key[s[i]] # key[c] PROVE Apart(r, key)
  <2> SUFFICES ASSUME NEW i \in 1..Len(r), NEW j \in 1..Len(r), i # j, key[r[i]] = key[r[j]]
               PROVE  FALSE
    BY DEF Apart
  <2>1. CASE i # k + 1 /\ j # k + 1
    <3>1. from(i) \in 1..Len(s) /\ from(j) \in 1..Len(s) /\ from(i) # from(j)
      BY <1>3, <1>4, <1>6, <2>1
    <3>2. r[i] = s[from(i)] /\ r[j] = s[from(j)]
      BY <1>6, <2>1
    <3> HIDE DEF from
    <3> QED BY <1>10, <3>1, <3>2 DEF Apart
  <2>2. CASE i = k + 1
    BY <1>6, <1>7, <1>10, <2>2
  <2>3. CASE j = k + 1
    BY <1>6, <1>7, <1>10, <2>3
  <2> QED BY <2>1, <2>2, <2>3
<1> QED BY <1>2, <1>4, <1>8, <1>9, <1>10

\* The sequences after each insertion.
Insertions(q, cs, N, f) ==
    f = [n \in 0..N |-> IF n = 0 THEN <<>> ELSE InsertSorted(q, f[n-1], cs[n])]

LEMMA InsertionsExist ==
    ASSUME NEW q, NEW cs, NEW N \in Nat
    PROVE  \E f : Insertions(q, cs, N, f)
<1> DEFINE Bad == {n \in Nat : ~ \E f : Insertions(q, cs, n, f)}
<1> SUFFICES ASSUME Bad # {} PROVE FALSE
  OBVIOUS
<1>1. PICK n \in Bad : \A m \in Bad : n <= m
  <2>1. Bad \in SUBSET Nat
    OBVIOUS
  <2> HIDE DEF Bad
  <2> QED BY <2>1, Least
<1>2. n # 0
  <2>1. PICK f : f = [m \in 0..0 |-> <<>>]
    OBVIOUS
  <2>2. f = [m \in 0..0 |-> IF m = 0 THEN <<>> ELSE InsertSorted(q, f[m-1], cs[m])]
    BY <2>1
  <2>3. Insertions(q, cs, 0, f)
    BY <2>2, Zenon DEF Insertions
  <2> QED BY <2>3, Zenon
<1>3. n \in Nat /\ n - 1 \in Nat /\ ~(n <= n - 1)
  BY <1>2
<1>4. PICK f : Insertions(q, cs, n - 1, f)
  BY <1>1, <1>3
<1>5. f = [m \in 0..(n-1) |-> IF m = 0 THEN <<>> ELSE InsertSorted(q, f[m-1], cs[m])]
  BY <1>4 DEF Insertions
<1>6. PICK g : g = [m \in 0..n |-> IF m = 0 THEN <<>> ELSE InsertSorted(q, f[m-1], cs[m])]
  OBVIOUS
<1>7. \A m \in 0..(n-1) : g[m] = f[m]
  BY <1>3, <1>5, <1>6
<1>8. \A m \in 0..n : m # 0 => g[m-1] = f[m-1]
  BY <1>3, <1>7
<1>9. g = [m \in 0..n |-> IF m = 0 THEN <<>> ELSE InsertSorted(q, g[m-1], cs[m])]
  BY <1>6, <1>8
<1>10. Insertions(q, cs, n, g)
  BY <1>9 DEF Insertions
<1> QED BY <1>10

\* Sorting neither drops nor adds a candidate, keeps apart what was apart, and
\* puts the exhausted ones last, although the comparison is no total order.
LEMMA SortedKeeps ==
    ASSUME NEW X, NEW q, NEW cs \in Seq(X), NEW key, \A x \in X : x.exhausted \in BOOLEAN
    PROVE  /\ Sorted(q, cs) \in Seq(X)
           /\ Len(Sorted(q, cs)) = Len(cs)
           /\ From(Sorted(q, cs), cs)
           /\ SpentLast(Sorted(q, cs))
           /\ Apart(cs, key) => Apart(Sorted(q, cs), key)
<1>1. PICK N \in Nat : N = Len(cs)
  OBVIOUS
<1>2. PICK a : a = CHOOSE f : f = [n \in 0..N |-> IF n = 0 THEN <<>> ELSE InsertSorted(q, f[n-1], cs[n])]
  OBVIOUS
<1>3. \E f : f = [n \in 0..N |-> IF n = 0 THEN <<>> ELSE InsertSorted(q, f[n-1], cs[n])]
  <2>1. PICK f : Insertions(q, cs, N, f)
    BY InsertionsExist
  <2> QED BY <2>1, Zenon DEF Insertions
<1>4. a = [n \in 0..N |-> IF n = 0 THEN <<>> ELSE InsertSorted(q, a[n-1], cs[n])]
  BY <1>2, <1>3, Zenon
<1>5. Sorted(q, cs) = a[N]
  BY <1>1, <1>2, Zenon DEF Sorted
<1>6. a[0] = <<>> /\ \A n \in 1..N : a[n] = InsertSorted(q, a[n-1], cs[n])
  BY <1>4
<1> DEFINE Good(n) == /\ a[n] \in Seq(X) /\ Len(a[n]) = n
                      /\ \A i \in 1..Len(a[n]) : \E j \in 1..n : a[n][i] = cs[j]
                      /\ SpentLast(a[n])
                      /\ Apart(cs, key) => Apart(a[n], key)
<1>7. Good(0)
  BY <1>6 DEF SpentLast, Apart
<1>8. ASSUME NEW n \in 1..N, Good(n - 1) PROVE Good(n)
  <2>1. PICK s \in Seq(X) : s = a[n-1]
    BY <1>8
  <2>2. PICK c \in X : c = cs[n]
    BY <1>1
  <2>3. PICK r : r = InsertSorted(q, s, c)
    OBVIOUS
  <2>4. /\ r \in Seq(X) /\ Len(r) = Len(s) + 1
        /\ \A i \in 1..Len(r) : r[i] = c \/ \E j \in 1..Len(s) : r[i] = s[j]
        /\ SpentLast(s) => SpentLast(r)
        /\ Apart(s, key) /\ (\A i \in 1..Len(s) : key[s[i]] # key[c]) => Apart(r, key)
    <3>1. LET v == InsertSorted(q, s, c)
          IN  /\ v \in Seq(X) /\ Len(v) = Len(s) + 1
              /\ \A i \in 1..Len(v) : v[i] = c \/ \E j \in 1..Len(s) : v[i] = s[j]
              /\ SpentLast(s) => SpentLast(v)
              /\ Apart(s, key) /\ (\A i \in 1..Len(s) : key[s[i]] # key[c]) => Apart(v, key)
      BY InsertKeeps
    <3> QED BY <2>3, <3>1
  <2>5. a[n] = r
    BY <1>6, <2>1, <2>2, <2>3
  <2>6. Len(s) = n - 1 /\ SpentLast(s) /\ (Apart(cs, key) => Apart(s, key))
    BY <1>8, <2>1
  <2>7. \A i \in 1..Len(s) : \E j \in 1..(n-1) : s[i] = cs[j]
    BY <1>8, <2>1
  <2>8. \A i \in 1..Len(r) : \E j \in 1..n : r[i] = cs[j]
    <3> SUFFICES ASSUME NEW i \in 1..Len(r) PROVE \E j \in 1..n : r[i] = cs[j]
      OBVIOUS
    <3>1. CASE r[i] = c
      BY <2>2, <3>1
    <3>2. CASE r[i] # c
      <4>1. PICK j \in 1..Len(s) : r[i] = s[j]
        BY <2>4, <3>2
      <4>2. PICK m \in 1..(n-1) : s[j] = cs[m]
        BY <2>7
      <4> QED BY <4>1, <4>2
    <3> QED BY <3>1, <3>2
  <2>9. ASSUME Apart(cs, key) PROVE \A i \in 1..Len(s) : key[s[i]] # key[c]
    <3> SUFFICES ASSUME NEW i \in 1..Len(s) PROVE key[s[i]] # key[c]
      OBVIOUS
    <3>1. PICK j \in 1..(n-1) : s[i] = cs[j]
      BY <2>7
    <3>2. j \in 1..Len(cs) /\ n \in 1..Len(cs) /\ j # n
      BY <1>1
    <3> QED BY <2>2, <2>9, <3>1, <3>2 DEF Apart
  <2>10. Len(r) = n
    BY <2>4, <2>6
  <2> QED BY <2>4, <2>5, <2>6, <2>8, <2>9, <2>10
<1> DEFINE Bad == {n \in 0..N : ~Good(n)}
<1>9. Bad = {}
  <2> SUFFICES ASSUME Bad # {} PROVE FALSE
    OBVIOUS
  <2>1. PICK n \in Bad : \A m \in Bad : n <= m
    <3>1. Bad \in SUBSET Nat
      OBVIOUS
    <3> HIDE DEF Bad
    <3> QED BY <3>1, Least
  <2> HIDE DEF Good
  <2>2. n # 0
    BY <1>7
  <2>3. n \in 1..N /\ n - 1 \in 0..N /\ ~(n <= n - 1)
    BY <2>2
  <2>4. Good(n - 1)
    BY <2>1, <2>3
  <2> QED BY <1>8, <2>3, <2>4
<1>10. Good(N)
  <2> HIDE DEF Good
  <2> QED BY <1>9
<1> QED BY <1>1, <1>5, <1>10 DEF From

\* The sequences that filtering passes through.
Filterings(s, S, N, f) ==
    f = [n \in 0..N |-> IF n = 0 THEN <<>> ELSE AppendIfIn(S, f[n-1], s[n])]

LEMMA FilteringsExist ==
    ASSUME NEW s, NEW S, NEW N \in Nat
    PROVE  \E f : Filterings(s, S, N, f)
<1> DEFINE Bad == {n \in Nat : ~ \E f : Filterings(s, S, n, f)}
<1> SUFFICES ASSUME Bad # {} PROVE FALSE
  OBVIOUS
<1>1. PICK n \in Bad : \A m \in Bad : n <= m
  <2>1. Bad \in SUBSET Nat
    OBVIOUS
  <2> HIDE DEF Bad
  <2> QED BY <2>1, Least
<1>2. n # 0
  <2>1. PICK f : f = [m \in 0..0 |-> <<>>]
    OBVIOUS
  <2>2. f = [m \in 0..0 |-> IF m = 0 THEN <<>> ELSE AppendIfIn(S, f[m-1], s[m])]
    BY <2>1
  <2>3. Filterings(s, S, 0, f)
    BY <2>2, Zenon DEF Filterings
  <2> QED BY <2>3, Zenon
<1>3. n \in Nat /\ n - 1 \in Nat /\ ~(n <= n - 1)
  BY <1>2
<1>4. PICK f : Filterings(s, S, n - 1, f)
  BY <1>1, <1>3
<1>5. f = [m \in 0..(n-1) |-> IF m = 0 THEN <<>> ELSE AppendIfIn(S, f[m-1], s[m])]
  BY <1>4 DEF Filterings
<1>6. PICK g : g = [m \in 0..n |-> IF m = 0 THEN <<>> ELSE AppendIfIn(S, f[m-1], s[m])]
  OBVIOUS
<1>7. \A m \in 0..(n-1) : g[m] = f[m]
  BY <1>3, <1>5, <1>6
<1>8. \A m \in 0..n : m # 0 => g[m-1] = f[m-1]
  BY <1>3, <1>7
<1>9. g = [m \in 0..n |-> IF m = 0 THEN <<>> ELSE AppendIfIn(S, g[m-1], s[m])]
  BY <1>6, <1>8
<1>10. Filterings(s, S, n, g)
  BY <1>9 DEF Filterings
<1> QED BY <1>10

\* Filtering keeps entries of s that are in S, and each at most once.
LEMMA OnlyKeeps ==
    ASSUME NEW X, NEW s \in Seq(X), NEW S, NEW key,
           \A i, j \in 1..Len(s) : i # j /\ s[i] \in S /\ s[j] \in S => key[s[i]] # key[s[j]]
    PROVE  /\ Only(s, S) \in Seq(X)
           /\ From(Only(s, S), s)
           /\ \A i \in 1..Len(Only(s, S)) : Only(s, S)[i] \in S
           /\ Apart(Only(s, S), key)
<1>1. PICK N \in Nat : N = Len(s)
  OBVIOUS
<1>2. PICK a : a = CHOOSE f : f = [n \in 0..N |-> IF n = 0 THEN <<>> ELSE AppendIfIn(S, f[n-1], s[n])]
  OBVIOUS
<1>3. \E f : f = [n \in 0..N |-> IF n = 0 THEN <<>> ELSE AppendIfIn(S, f[n-1], s[n])]
  <2>1. PICK f : Filterings(s, S, N, f)
    BY FilteringsExist
  <2> QED BY <2>1, Zenon DEF Filterings
<1>4. a = [n \in 0..N |-> IF n = 0 THEN <<>> ELSE AppendIfIn(S, a[n-1], s[n])]
  BY <1>2, <1>3, Zenon
<1>5. Only(s, S) = a[N]
  BY <1>1, <1>2, Zenon DEF Only
<1>6. a[0] = <<>> /\ \A n \in 1..N : a[n] = AppendIfIn(S, a[n-1], s[n])
  BY <1>4
<1> DEFINE Good(n) == /\ a[n] \in Seq(X)
                      /\ \A i \in 1..Len(a[n]) : a[n][i] \in S /\ \E j \in 1..n : a[n][i] = s[j]
                      /\ Apart(a[n], key)
<1>7. Good(0)
  BY <1>6 DEF Apart
<1>8. ASSUME NEW n \in 1..N, Good(n - 1) PROVE Good(n)
  <2>1. PICK b \in Seq(X) : b = a[n-1]
    BY <1>8
  <2>2. PICK c \in X : c = s[n]
    BY <1>1
  <2>3. \A i \in 1..Len(b) : b[i] \in S /\ \E j \in 1..(n-1) : b[i] = s[j]
    BY <1>8, <2>1
  <2>4. Apart(b, key)
    BY <1>8, <2>1
  <2>5. CASE c \in S
    <3>1. PICK r : r = Append(b, c)
      OBVIOUS
    <3>2. r \in Seq(X) /\ Len(r) = Len(b) + 1 /\ r[Len(b) + 1] = c /\ \A i \in 1..Len(b) : r[i] = b[i]
      BY <3>1
    <3>3. \A i \in 1..Len(r) : i = Len(b) + 1 \/ i \in 1..Len(b)
      BY <3>2
    <3>4. ASSUME NEW i \in 1..Len(r) PROVE r[i] \in S /\ \E j \in 1..n : r[i] = s[j]
      <4>1. CASE i = Len(b) + 1
        BY <2>2, <2>5, <3>2, <4>1
      <4>2. CASE i \in 1..Len(b)
        <5>1. PICK j \in 1..(n-1) : b[i] = s[j]
          BY <2>3, <4>2
        <5> QED BY <2>3, <3>2, <4>2, <5>1
      <4> QED BY <3>3, <4>1, <4>2
    <3>5. ASSUME NEW i \in 1..Len(b) PROVE key[b[i]] # key[c]
      <4>1. PICK j \in 1..(n-1) : b[i] = s[j]
        BY <2>3
      <4>2. j \in 1..Len(s) /\ n \in 1..Len(s) /\ j # n /\ s[j] \in S
        BY <1>1, <2>3, <4>1
      <4> QED BY <2>2, <2>5, <4>1, <4>2
    <3>6. Apart(r, key)
      BY <2>4, <3>2, <3>3, <3>5 DEF Apart
    <3>7. a[n] = r
      BY <1>6, <2>1, <2>2, <2>5, <3>1 DEF AppendIfIn
    <3> QED BY <3>2, <3>4, <3>6, <3>7
  <2>6. CASE c \notin S
    <3>1. a[n] = b
      BY <1>6, <2>1, <2>2, <2>6 DEF AppendIfIn
    <3>2. \A i \in 1..Len(b) : b[i] \in S /\ \E j \in 1..n : b[i] = s[j]
      BY <2>3
    <3> QED BY <2>4, <3>1, <3>2
  <2> QED BY <2>5, <2>6
<1> DEFINE Bad == {n \in 0..N : ~Good(n)}
<1>9. Bad = {}
  <2> SUFFICES ASSUME Bad # {} PROVE FALSE
    OBVIOUS
  <2>1. PICK n \in Bad : \A m \in Bad : n <= m
    <3>1. Bad \in SUBSET Nat
      OBVIOUS
    <3> HIDE DEF Bad
    <3> QED BY <3>1, Least
  <2> HIDE DEF Good
  <2>2. n # 0
    BY <1>7
  <2>3. n \in 1..N /\ n - 1 \in 0..N /\ ~(n <= n - 1)
    BY <2>2
  <2>4. Good(n - 1)
    BY <2>1, <2>3
  <2> QED BY <1>8, <2>3, <2>4
<1>10. Good(N)
  <2> HIDE DEF Good
  <2> QED BY <1>9
<1> QED BY <1>1, <1>5, <1>10 DEF From

LEMMA ConcatKeeps ==
    ASSUME NEW X, NEW s \in Seq(X), NEW u \in Seq(X), NEW key, Apart(s, key), Apart(u, key),
           \A i \in 1..Len(s), j \in 1..Len(u) : key[s[i]] # key[u[j]]
    PROVE  /\ s \o u \in Seq(X)
           /\ \A i \in 1..Len(s \o u) : (\E j \in 1..Len(s) : (s \o u)[i] = s[j])
                                           \/ \E j \in 1..Len(u) : (s \o u)[i] = u[j]
           /\ Apart(s \o u, key)
<1>1. PICK r : r = s \o u
  OBVIOUS
<1>2. r \in Seq(X) /\ Len(r) = Len(s) + Len(u) /\ Len(s) \in Nat /\ Len(u) \in Nat
  BY <1>1
<1>3. \A i \in 1..(Len(s) + Len(u)) : r[i] = IF i <= Len(s) THEN s[i] ELSE u[i - Len(s)]
  BY <1>1
<1>4. \A i \in 1..Len(r) : \/ i \in 1..Len(s) /\ r[i] = s[i]
                           \/ i - Len(s) \in 1..Len(u) /\ r[i] = u[i - Len(s)] /\ i \notin 1..Len(s)
  BY <1>2, <1>3
<1>5. \A i \in 1..Len(r) : (\E j \in 1..Len(s) : r[i] = s[j]) \/ \E j \in 1..Len(u) : r[i] = u[j]
  BY <1>4
<1>6. Apart(r, key)
  <2> SUFFICES ASSUME NEW i \in 1..Len(r), NEW j \in 1..Len(r), i # j PROVE key[r[i]] # key[r[j]]
    BY DEF Apart
  <2>1. CASE i \in 1..Len(s) /\ j \in 1..Len(s)
    BY <1>4, <2>1 DEF Apart
  <2>2. CASE i \notin 1..Len(s) /\ j \notin 1..Len(s)
    <3>1. i - Len(s) \in 1..Len(u) /\ j - Len(s) \in 1..Len(u) /\ i - Len(s) # j - Len(s)
      BY <1>2, <1>4, <2>2
    <3>2. r[i] = u[i - Len(s)] /\ r[j] = u[j - Len(s)]
      BY <1>4, <2>2
    <3> QED BY <3>1, <3>2 DEF Apart
  <2>3. CASE i \in 1..Len(s) /\ j \notin 1..Len(s)
    BY <1>4, <2>3
  <2>4. CASE i \notin 1..Len(s) /\ j \in 1..Len(s)
    BY <1>4, <2>4
  <2> QED BY <2>1, <2>2, <2>3, <2>4
<1> QED BY <1>1, <1>2, <1>5, <1>6

\* The concatenations that flattening passes through.
JoinAt(ss, f, i) == IF i = 1 THEN ss[i] ELSE f[i-1] \o ss[i]
Joined(ss, N, f) == f = [i \in 1..N |-> JoinAt(ss, f, i)]

LEMMA JoinedExist ==
    ASSUME NEW ss, NEW N \in Nat
    PROVE  \E f : Joined(ss, N, f)
<1> DEFINE Bad == {n \in Nat : ~ \E f : Joined(ss, n, f)}
<1> SUFFICES ASSUME Bad # {} PROVE FALSE
  OBVIOUS
<1>1. PICK n \in Bad : \A m \in Bad : n <= m
  <2>1. Bad \in SUBSET Nat
    OBVIOUS
  <2> HIDE DEF Bad
  <2> QED BY <2>1, Least
<1>2. n # 0
  <2>1. PICK f : f = [m \in 1..0 |-> <<>>]
    OBVIOUS
  <2>2. f = [m \in 1..0 |-> JoinAt(ss, f, m)]
    BY <2>1
  <2>3. Joined(ss, 0, f)
    BY <2>2, Zenon DEF Joined
  <2> QED BY <2>3, Zenon
<1>3. n \in Nat /\ n - 1 \in Nat /\ ~(n <= n - 1)
  BY <1>2
<1>4. PICK f : Joined(ss, n - 1, f)
  BY <1>1, <1>3
<1>5. f = [m \in 1..(n-1) |-> JoinAt(ss, f, m)]
  BY <1>4 DEF Joined
<1>6. PICK g : g = [m \in 1..n |-> JoinAt(ss, f, m)]
  OBVIOUS
<1>7. \A m \in 1..(n-1) : g[m] = f[m]
  BY <1>3, <1>5, <1>6
<1>8. \A m \in 1..n : m # 1 => g[m-1] = f[m-1]
  BY <1>3, <1>7
<1>9. \A m \in 1..n : JoinAt(ss, g, m) = JoinAt(ss, f, m)
  BY <1>8, Zenon DEF JoinAt
<1>10. g = [m \in 1..n |-> JoinAt(ss, g, m)]
  BY <1>6, <1>9
<1>11. Joined(ss, n, g)
  BY <1>10 DEF Joined
<1> QED BY <1>11

\* Sequences apart, each from itself and from the others, and one made of them.
AllApart(ss, N, key) ==
    /\ \A m \in 1..N : Apart(ss[m], key)
    /\ \A m, n \in 1..N : m # n =>
          \A i \in 1..Len(ss[m]), j \in 1..Len(ss[n]) : key[ss[m][i]] # key[ss[n][j]]
FromOne(s, ss, N) ==
    \A i \in 1..Len(s) : \E m \in 1..N : \E j \in 1..Len(ss[m]) : s[i] = ss[m][j]

\* What is flattened comes from one of the sequences, and is apart when they are.
LEMMA FlattenKeeps ==
    ASSUME NEW X, NEW N \in Nat, NEW ss, ss \in Seq(Seq(X)), Len(ss) = N, NEW key,
           AllApart(ss, N, key)
    PROVE  FlattenSeq(ss) \in Seq(X) /\ FromOne(FlattenSeq(ss), ss, N) /\ Apart(FlattenSeq(ss), key)
<1> USE DEF AllApart, FromOne
<1>1. CASE N = 0
  <2>1. FlattenSeq(ss) = <<>>
    BY <1>1 DEF FlattenSeq
  <2> QED BY <2>1 DEF Apart
<1>2. CASE N # 0
  <2>1. PICK a : a = CHOOSE f : f = [i \in 1..N |-> IF i = 1 THEN ss[i] ELSE f[i-1] \o ss[i]]
    OBVIOUS
  <2>2. \E f : f = [i \in 1..N |-> IF i = 1 THEN ss[i] ELSE f[i-1] \o ss[i]]
    <3>1. PICK f : Joined(ss, N, f)
      BY JoinedExist
    <3> QED BY <3>1, Zenon DEF Joined, JoinAt
  <2>3. a = [i \in 1..N |-> JoinAt(ss, a, i)]
    BY <2>1, <2>2, Zenon DEF JoinAt
  <2>4. FlattenSeq(ss) = a[N]
    <3>1. Len(ss) # 0
      BY <1>2
    <3> QED BY <2>1, <3>1, Zenon DEF FlattenSeq
  <2>5. a[1] = ss[1] /\ \A n \in 2..N : a[n] = a[n-1] \o ss[n]
    <3>1. \A n \in 1..N : a[n] = JoinAt(ss, a, n)
      BY <2>3
    <3>2. 1 \in 1..N /\ \A n \in 2..N : n \in 1..N /\ n # 1
      BY <1>2
    <3> QED BY <3>1, <3>2, Zenon DEF JoinAt
  <2> DEFINE Good(n) == /\ a[n] \in Seq(X)
                        /\ \A i \in 1..Len(a[n]) : \E m \in 1..n : \E j \in 1..Len(ss[m]) : a[n][i] = ss[m][j]
                        /\ Apart(a[n], key)
  <2>6. \A m \in 1..N : ss[m] \in Seq(X)
    OBVIOUS
  <2>7. Good(1)
    <3>1. 1 \in 1..N
      BY <1>2
    <3> QED BY <2>5, <2>6, <3>1
  <2>8. ASSUME NEW n \in 2..N, Good(n - 1) PROVE Good(n)
    <3>1. PICK s \in Seq(X) : s = a[n-1]
      BY <2>8
    <3>2. n \in 1..N /\ 1..(n - 1) \subseteq 1..N /\ n \notin 1..(n - 1) /\ 1..(n - 1) \subseteq 1..n
      OBVIOUS
    <3>3. PICK u \in Seq(X) : u = ss[n]
      BY <2>6, <3>2
    <3>4. \A i \in 1..Len(s) : \E m \in 1..(n-1) : \E j \in 1..Len(ss[m]) : s[i] = ss[m][j]
      <4>1. \A i \in 1..Len(a[n-1]) : \E m \in 1..(n-1) : \E j \in 1..Len(ss[m]) : a[n-1][i] = ss[m][j]
        BY <2>8, Zenon
      <4> SUFFICES ASSUME NEW i \in 1..Len(s) PROVE \E m \in 1..(n-1) : \E j \in 1..Len(ss[m]) : s[i] = ss[m][j]
        OBVIOUS
      <4>2. i \in 1..Len(a[n-1]) /\ a[n-1][i] = s[i]
        BY <3>1
      <4>3. PICK m \in 1..(n-1) : \E j \in 1..Len(ss[m]) : a[n-1][i] = ss[m][j]
        BY <4>1, <4>2, Zenon
      <4>4. PICK j \in 1..Len(ss[m]) : a[n-1][i] = ss[m][j]
        BY <4>3, Zenon
      <4>5. s[i] = ss[m][j]
        BY <4>2, <4>4, Zenon
      <4> QED BY <4>5, Zenon
    <3>5. Apart(s, key) /\ Apart(u, key)
      BY <2>8, <3>1, <3>2, <3>3
    <3>6. \A i \in 1..Len(s), j \in 1..Len(u) : key[s[i]] # key[u[j]]
      <4> SUFFICES ASSUME NEW i \in 1..Len(s), NEW j \in 1..Len(u) PROVE key[s[i]] # key[u[j]]
        OBVIOUS
      <4>1. PICK m \in 1..(n-1) : \E k \in 1..Len(ss[m]) : s[i] = ss[m][k]
        BY <3>4
      <4>2. PICK k \in 1..Len(ss[m]) : s[i] = ss[m][k]
        BY <4>1
      <4>3. m \in 1..N /\ m # n
        BY <3>2
      <4> QED BY <3>2, <3>3, <4>2, <4>3
    <3>7. PICK r : r = s \o u
      OBVIOUS
    <3>8. /\ r \in Seq(X)
          /\ \A i \in 1..Len(r) : (\E j \in 1..Len(s) : r[i] = s[j]) \/ \E j \in 1..Len(u) : r[i] = u[j]
          /\ Apart(r, key)
      BY <3>5, <3>6, <3>7, ConcatKeeps
    <3>9. \A i \in 1..Len(r) : \E m \in 1..n : \E j \in 1..Len(ss[m]) : r[i] = ss[m][j]
      <4> SUFFICES ASSUME NEW i \in 1..Len(r) PROVE \E m \in 1..n : \E j \in 1..Len(ss[m]) : r[i] = ss[m][j]
        OBVIOUS
      <4>1. CASE \E j \in 1..Len(s) : r[i] = s[j]
        <5>1. PICK k \in 1..Len(s) : r[i] = s[k]
          BY <4>1
        <5>2. PICK m \in 1..(n-1) : \E j \in 1..Len(ss[m]) : s[k] = ss[m][j]
          BY <3>4
        <5>3. m \in 1..n
          OBVIOUS
        <5> QED BY <5>1, <5>2, <5>3, Zenon
      <4>2. CASE \E j \in 1..Len(u) : r[i] = u[j]
        <5>1. n \in 1..n
          OBVIOUS
        <5> QED BY <3>3, <4>2, <5>1
      <4> QED BY <3>8, <4>1, <4>2
    <3>10. a[n] = r
      BY <2>5, <3>1, <3>3, <3>7
    <3> QED BY <3>8, <3>9, <3>10
  <2> DEFINE Bad == {n \in 1..N : ~Good(n)}
  <2>9. Bad = {}
    <3> SUFFICES ASSUME Bad # {} PROVE FALSE
      OBVIOUS
    <3>1. PICK n \in Bad : \A m \in Bad : n <= m
      <4>1. Bad \in SUBSET Nat
        OBVIOUS
      <4> HIDE DEF Bad
      <4> QED BY <4>1, Least
    <3> HIDE DEF Good
    <3>2. n # 1
      BY <2>7
    <3>3. n \in 2..N /\ n - 1 \in 1..N /\ ~(n <= n - 1)
      BY <3>2
    <3>4. Good(n - 1)
      BY <3>1, <3>3
    <3> QED BY <2>8, <3>3, <3>4
  <2>10. Good(N)
    <3> HIDE DEF Good
    <3> QED BY <1>2, <2>9
  <2> QED BY <2>4, <2>10
<1> QED BY <1>1, <1>2

-----------------------------------------------------------------------------
(* The candidates of a request. *)

Request == [target : Tools \union {NoTool}, model : Models \union {NoModel}, able : SUBSET Tools,
            prefer : {"cost", "quality"}, failover : BOOLEAN, call : BOOLEAN]

Candidates == {BuildCandidate(lane) : lane \in Lanes}
CandidateKey == [c \in Candidates |-> Key(c.lane)]

LEMMA CandidateFields ==
    ASSUME NEW c \in Candidates
    PROVE  c.lane \in Lanes /\ c.exhausted \in BOOLEAN /\ c.exhausted = Exhausted(Key(c.lane))
<1>1. PICK lane \in Lanes : c = BuildCandidate(lane)
  BY DEF Candidates
<1>2. c.lane = lane /\ c.exhausted = Exhausted(Key(lane))
  BY <1>1 DEF BuildCandidate
<1>3. Exhausted(Key(lane)) \in BOOLEAN
  BY DEF Exhausted
<1> QED BY <1>2, <1>3

LEMMA LaneFields ==
    ASSUME NEW lane \in Lanes
    PROVE  /\ lane.tool \in Tools /\ lane.model \in Models \union {NoModel}
           /\ Key(lane).tool = lane.tool /\ Key(lane).pool = PoolOf[lane.model]
           /\ Invoked(lane) \in Lanes /\ Invoked(lane).tool = lane.tool
<1>1. lane.tool \in Tools /\ lane.model \in Models \union {NoModel}
  BY DEF Lanes
<1>2. FirstModel(lane.tool) \in Models \union {NoModel}
  <2>1. ModelsOf[lane.tool] \in Seq(Models)
    BY <1>1, FailoverAssumption
  <2> QED BY <2>1 DEF FirstModel
<1>3. Invoked(lane) \in Lanes /\ Invoked(lane).tool = lane.tool
  BY <1>2 DEF Invoked, Lanes
<1>4. Key(lane).tool = lane.tool /\ Key(lane).pool = PoolOf[lane.model]
  BY DEF Key
<1> QED BY <1>1, <1>3, <1>4

\* One model per pool: the first of each (pool_lanes).
LEMMA PoolLanesApart ==
    ASSUME NEW q, NEW t \in Tools
    PROVE  /\ PoolLanes(q, t) \in Seq(Models)
           /\ \A i, j \in 1..Len(PoolLanes(q, t)) :
                 i # j => PoolOf[PoolLanes(q, t)[i]] # PoolOf[PoolLanes(q, t)[j]]
<1>1. PICK models \in Seq(Models) : models = ModelsOf[t]
  BY FailoverAssumption
<1>2. PICK s : s = [i \in DOMAIN models |-> i]
  OBVIOUS
<1>3. PICK S : S = {i \in DOMAIN models : \A j \in 1..(i - 1) : PoolOf[models[j]] # PoolOf[models[i]]}
  OBVIOUS
<1>4. PICK key : key = [i \in 1..Len(models) |-> PoolOf[models[i]]]
  OBVIOUS
<1>5. PICK firsts : firsts = Only(s, S)
  OBVIOUS
<1>6. s \in Seq(1..Len(models)) /\ Len(s) = Len(models) /\ \A i \in 1..Len(models) : s[i] = i
  BY <1>2
<1>7. \A i, j \in 1..Len(s) : i # j /\ s[i] \in S /\ s[j] \in S => key[s[i]] # key[s[j]]
  <2> SUFFICES ASSUME NEW i \in 1..Len(models), NEW j \in 1..Len(models), i # j, i \in S, j \in S
               PROVE  PoolOf[models[i]] # PoolOf[models[j]]
    BY <1>4, <1>6
  <2>1. CASE i < j
    <3>1. i \in 1..(j - 1)
      BY <2>1
    <3> QED BY <1>3, <3>1
  <2>2. CASE j < i
    <3>1. j \in 1..(i - 1)
      BY <2>2
    <3> QED BY <1>3, <3>1
  <2> QED BY <2>1, <2>2
<1>8. firsts \in Seq(1..Len(models)) /\ Apart(firsts, key)
  BY <1>5, <1>6, <1>7, OnlyKeeps
<1>9. PICK r : r = [n \in DOMAIN firsts |-> models[firsts[n]]]
  OBVIOUS
<1>10. r \in Seq(Models) /\ Len(r) = Len(firsts)
  BY <1>8, <1>9
<1>11. \A i, j \in 1..Len(r) : i # j => PoolOf[r[i]] # PoolOf[r[j]]
  <2> SUFFICES ASSUME NEW i \in 1..Len(r), NEW j \in 1..Len(r), i # j
               PROVE  PoolOf[r[i]] # PoolOf[r[j]]
    OBVIOUS
  <2>1. firsts[i] \in 1..Len(models) /\ firsts[j] \in 1..Len(models)
    BY <1>8, <1>10
  <2>2. r[i] = models[firsts[i]] /\ r[j] = models[firsts[j]]
    BY <1>8, <1>9, <1>10
  <2>3. key[firsts[i]] # key[firsts[j]]
    BY <1>8, <1>10 DEF Apart
  <2> QED BY <1>4, <2>1, <2>2, <2>3
<1>12. PoolLanes(q, t) = <<>> \/ PoolLanes(q, t) = r
  BY <1>1, <1>2, <1>3, <1>5, <1>9, Zenon DEF PoolLanes
<1>13. CASE PoolLanes(q, t) = r
  <2> QED BY <1>10, <1>11, <1>13
<1>14. CASE PoolLanes(q, t) = <<>>
  <2>1. PICK e : e = PoolLanes(q, t)
    OBVIOUS
  <2>2. e \in Seq(Models) /\ Len(e) = 0
    BY <1>14, <2>1
  <2> QED BY <2>1, <2>2
<1> QED BY <1>12, <1>13, <1>14

\* The lanes of one target draw from buckets of their own (candidates_for).
LEMMA CandidatesForKeep ==
    ASSUME NEW q \in Request, NEW t \in Tools
    PROVE  /\ CandidatesFor(q, t) \in Seq(Candidates)
           /\ \A i \in 1..Len(CandidatesFor(q, t)) :
                 /\ CandidatesFor(q, t)[i].lane.tool = t
                 /\ Invoked(CandidatesFor(q, t)[i].lane) = CandidatesFor(q, t)[i].lane
           /\ Apart(CandidatesFor(q, t), CandidateKey)
           /\ Usable(q, t) => CandidatesFor(q, t) # <<>>
<1>1. PICK models : models = PoolLanes(q, t)
  OBVIOUS
<1>2. models \in Seq(Models) /\ \A i, j \in 1..Len(models) : i # j => PoolOf[models[i]] # PoolOf[models[j]]
  BY <1>1, PoolLanesApart
<1>3. PICK lanes : lanes = IF models = <<>> THEN <<CandidateFor(q, t)>>
                           ELSE [i \in DOMAIN models |-> [tool |-> t, model |-> models[i]]]
  OBVIOUS
<1>4. /\ lanes \in Seq(Lanes) /\ lanes # <<>>
      /\ \A i \in 1..Len(lanes) : lanes[i].tool = t /\ Invoked(lanes[i]) = lanes[i]
      /\ \A i, j \in 1..Len(lanes) : i # j => PoolOf[lanes[i].model] # PoolOf[lanes[j].model]
  <2>1. CASE models = <<>>
    <3>1. PICK lane : lane = CandidateFor(q, t)
      OBVIOUS
    <3>2. FirstModel(t) \in Models \union {NoModel}
      <4>1. ModelsOf[t] \in Seq(Models)
        BY FailoverAssumption
      <4> QED BY <4>1 DEF FirstModel
    <3>3. lane \in Lanes /\ lane.tool = t /\ (lane.model = NoModel => FirstModel(t) = NoModel)
      BY <3>1, <3>2 DEF CandidateFor, Lanes, Request
    <3>4. Invoked(lane) = lane
      BY <3>3 DEF Invoked, Lanes
    <3>5. lanes = <<lane>>
      BY <1>3, <2>1, <3>1
    <3>6. lanes \in Seq(Lanes) /\ Len(lanes) = 1 /\ lanes[1] = lane
      BY <3>3, <3>5
    <3>7. \A i \in 1..Len(lanes) : i = 1
      BY <3>6
    <3>8. lanes # <<>>
      BY <3>6
    <3> QED BY <3>3, <3>4, <3>6, <3>7, <3>8
  <2>2. CASE models # <<>>
    <3>1. lanes = [i \in DOMAIN models |-> [tool |-> t, model |-> models[i]]]
      BY <1>3, <2>2
    <3>2. Len(models) \in Nat /\ DOMAIN models = 1..Len(models) /\ \A i \in 1..Len(models) : models[i] \in Models
      BY <1>2
    <3>3. \A i \in 1..Len(models) : lanes[i] = [tool |-> t, model |-> models[i]] /\ lanes[i] \in Lanes
      BY <3>1, <3>2 DEF Lanes
    <3>4. lanes \in [1..Len(models) -> Lanes]
      BY <3>1, <3>2, <3>3
    <3>5. lanes \in Seq(Lanes) /\ Len(lanes) = Len(models)
      BY <3>2, <3>4
    <3>6. \A i \in 1..Len(lanes) : lanes[i].tool = t /\ lanes[i].model = models[i] /\ Invoked(lanes[i]) = lanes[i]
      <4> SUFFICES ASSUME NEW i \in 1..Len(models)
                   PROVE  lanes[i].tool = t /\ lanes[i].model = models[i] /\ Invoked(lanes[i]) = lanes[i]
        BY <3>5
      <4>1. lanes[i].tool = t /\ lanes[i].model = models[i]
        <5>1. PICK lane : lane = [tool |-> t, model |-> models[i]]
          OBVIOUS
        <5>2. lane.tool = t /\ lane.model = models[i]
          BY <5>1
        <5>3. lanes[i] = lane
          BY <3>3, <5>1
        <5> QED BY <5>2, <5>3
      <4>2. lanes[i].model # NoModel
        <5>1. models[i] \in Models
          BY <3>2
        <5> QED BY <4>1, <5>1, FailoverAssumption
      <4> QED BY <4>1, <4>2 DEF Invoked
    <3>7. lanes # <<>>
      BY <1>2, <2>2, <3>5
    <3> QED BY <1>2, <3>5, <3>6, <3>7
  <2> QED BY <2>1, <2>2
<1>5. PICK b : b = [i \in DOMAIN lanes |-> BuildCandidate(lanes[i])]
  OBVIOUS
<1>6. Len(lanes) \in Nat /\ DOMAIN lanes = 1..Len(lanes) /\ \A i \in 1..Len(lanes) : lanes[i] \in Lanes
  BY <1>4
<1>7. \A i \in 1..Len(lanes) : b[i] = BuildCandidate(lanes[i]) /\ b[i] \in Candidates
  BY <1>5, <1>6 DEF Candidates
<1>8. b \in [1..Len(lanes) -> Candidates]
  BY <1>5, <1>6, <1>7
<1>9. b \in Seq(Candidates) /\ Len(b) = Len(lanes)
  BY <1>6, <1>8
<1>10. \A i \in 1..Len(b) : b[i].lane = lanes[i]
  <2>1. \A lane : BuildCandidate(lane).lane = lane
    BY DEF BuildCandidate
  <2> QED BY <1>7, <1>9, <2>1
<1>11. \A i \in 1..Len(b) : CandidateKey[b[i]] = Key(lanes[i]) /\ Key(lanes[i]).pool = PoolOf[lanes[i].model]
  <2>1. \A i \in 1..Len(b) : CandidateKey[b[i]] = Key(b[i].lane)
    BY <1>7, <1>9 DEF CandidateKey
  <2> QED BY <1>6, <1>9, <1>10, <2>1, LaneFields
<1>12. Apart(b, CandidateKey)
  BY <1>4, <1>9, <1>11 DEF Apart
<1>13. b # <<>>
  BY <1>4, <1>9
<1>14. CandidatesFor(q, t) = IF Usable(q, t) THEN b ELSE <<>>
  BY <1>1, <1>3, <1>5, Zenon DEF CandidatesFor
<1>15. CASE Usable(q, t)
  <2>1. CandidatesFor(q, t) = b
    BY <1>14, <1>15
  <2> QED BY <1>4, <1>9, <1>10, <1>12, <1>13, <2>1
<1>16. CASE ~Usable(q, t)
  <2>1. PICK e : e = CandidatesFor(q, t)
    OBVIOUS
  <2>2. e \in Seq(Candidates) /\ Len(e) = 0
    BY <1>14, <1>16, <2>1
  <2> QED BY <1>16, <2>1, <2>2 DEF Apart
<1> QED BY <1>15, <1>16

\* No two viable lanes draw from the same bucket (viable_candidates).
LEMMA ViableApart ==
    ASSUME NEW q \in Request
    PROVE  /\ ViableCandidates(q) \in Seq(Candidates)
           /\ \A i \in 1..Len(ViableCandidates(q)) :
                 Invoked(ViableCandidates(q)[i].lane) = ViableCandidates(q)[i].lane
           /\ Apart(ViableCandidates(q), CandidateKey)
<1>1. PICK N \in Nat : N = Len(DetectOrder) /\ DOMAIN DetectOrder = 1..N
  BY RoutingAssumption
<1>2. \A n \in 1..N : DetectOrder[n] \in Tools
  BY <1>1, RoutingAssumption
<1>3. \A m, n \in 1..N : m # n => DetectOrder[m] # DetectOrder[n]
  BY <1>1, RoutingAssumption DEF IsInjective
<1>4. PICK ss : ss = [i \in DOMAIN DetectOrder |-> IF DetectOrder[i] \in Open THEN CandidatesFor(q, DetectOrder[i]) ELSE <<>>]
  OBVIOUS
<1>5. \A n \in 1..N : /\ ss[n] \in Seq(Candidates) /\ Apart(ss[n], CandidateKey)
                      /\ \A i \in 1..Len(ss[n]) : /\ ss[n][i].lane.tool = DetectOrder[n]
                                                  /\ Invoked(ss[n][i].lane) = ss[n][i].lane
  <2> SUFFICES ASSUME NEW n \in 1..N
               PROVE  /\ ss[n] \in Seq(Candidates) /\ Apart(ss[n], CandidateKey)
                      /\ \A i \in 1..Len(ss[n]) : /\ ss[n][i].lane.tool = DetectOrder[n]
                                                  /\ Invoked(ss[n][i].lane) = ss[n][i].lane
    OBVIOUS
  <2>1. CASE DetectOrder[n] \in Open
    <3>1. PICK t \in Tools : t = DetectOrder[n]
      BY <1>2
    <3>2. ss[n] = CandidatesFor(q, t)
      BY <1>1, <1>4, <2>1, <3>1
    <3> QED BY <3>1, <3>2, CandidatesForKeep
  <2>2. CASE DetectOrder[n] \notin Open
    <3>1. PICK e : e = ss[n]
      OBVIOUS
    <3>2. e = <<>>
      BY <1>1, <1>4, <2>2, <3>1
    <3>3. e \in Seq(Candidates) /\ Len(e) = 0
      BY <3>2
    <3> QED BY <3>1, <3>3 DEF Apart
  <2> QED BY <2>1, <2>2
<1>6. ss \in Seq(Seq(Candidates)) /\ Len(ss) = N
  <2>1. ss \in [1..N -> Seq(Candidates)]
    BY <1>1, <1>4, <1>5
  <2> QED BY <2>1
<1>7. \A n \in 1..N : \A i \in 1..Len(ss[n]) : CandidateKey[ss[n][i]].tool = DetectOrder[n]
  <2> SUFFICES ASSUME NEW n \in 1..N, NEW i \in 1..Len(ss[n]) PROVE CandidateKey[ss[n][i]].tool = DetectOrder[n]
    OBVIOUS
  <2>1. PICK c \in Candidates : c = ss[n][i]
    BY <1>5
  <2>2. c.lane.tool = DetectOrder[n]
    BY <1>5, <2>1
  <2>3. CandidateKey[c] = Key(c.lane)
    BY DEF CandidateKey
  <2>4. c.lane \in Lanes
    BY CandidateFields
  <2>5. Key(c.lane).tool = c.lane.tool
    BY <2>4, LaneFields
  <2> QED BY <2>1, <2>2, <2>3, <2>5
<1>8. \A m, n \in 1..N : m # n =>
         \A i \in 1..Len(ss[m]), j \in 1..Len(ss[n]) : CandidateKey[ss[m][i]] # CandidateKey[ss[n][j]]
  BY <1>3, <1>7
<1>9. PICK v : v = FlattenSeq(ss)
  OBVIOUS
<1>10. v \in Seq(Candidates) /\ FromOne(v, ss, N) /\ Apart(v, CandidateKey)
  <2>1. AllApart(ss, N, CandidateKey)
    BY <1>5, <1>8 DEF AllApart
  <2> QED BY <1>6, <1>9, <2>1, FlattenKeeps
<1>11. ViableCandidates(q) = v
  BY <1>4, <1>9, Zenon DEF ViableCandidates
<1>12. \A i \in 1..Len(v) : Invoked(v[i].lane) = v[i].lane
  <2> SUFFICES ASSUME NEW i \in 1..Len(v) PROVE Invoked(v[i].lane) = v[i].lane
    OBVIOUS
  <2>1. PICK m \in 1..N : \E j \in 1..Len(ss[m]) : v[i] = ss[m][j]
    BY <1>10 DEF FromOne
  <2>2. PICK j \in 1..Len(ss[m]) : v[i] = ss[m][j]
    BY <2>1
  <2> QED BY <1>5, <2>2
<1> QED BY <1>10, <1>11, <1>12

-----------------------------------------------------------------------------
(* The ranked lanes of a request. *)

\* Candidates that are called on the lanes they name, from buckets of their own.
Routable(v) ==
    /\ v \in Seq(Candidates)
    /\ \A i \in 1..Len(v) : Invoked(v[i].lane) = v[i].lane
    /\ Apart(v, CandidateKey)

LEMMA SortedRoutable ==
    ASSUME NEW q, NEW v, Routable(v)
    PROVE  /\ Routable(Sorted(q, v)) /\ From(Sorted(q, v), v) /\ SpentLast(Sorted(q, v))
           /\ Len(Sorted(q, v)) = Len(v)
<1>1. v \in Seq(Candidates) /\ Apart(v, CandidateKey) /\ \A i \in 1..Len(v) : Invoked(v[i].lane) = v[i].lane
  BY DEF Routable
<1>2. \A x \in Candidates : x.exhausted \in BOOLEAN
  BY CandidateFields
<1>3. PICK r : r = Sorted(q, v)
  OBVIOUS
<1>4. r \in Seq(Candidates) /\ Len(r) = Len(v) /\ From(r, v) /\ SpentLast(r) /\ Apart(r, CandidateKey)
  BY <1>1, <1>2, <1>3, SortedKeeps
<1>5. \A i \in 1..Len(r) : Invoked(r[i].lane) = r[i].lane
  BY <1>1, <1>4 DEF From
<1> QED BY <1>3, <1>4, <1>5 DEF Routable

LEMMA OnlyRoutable ==
    ASSUME NEW v, NEW S, Routable(v)
    PROVE  Routable(Only(v, S)) /\ \A i \in 1..Len(Only(v, S)) : Only(v, S)[i] \in S
<1>1. v \in Seq(Candidates) /\ Apart(v, CandidateKey) /\ \A i \in 1..Len(v) : Invoked(v[i].lane) = v[i].lane
  BY DEF Routable
<1>2. \A i, j \in 1..Len(v) : i # j /\ v[i] \in S /\ v[j] \in S => CandidateKey[v[i]] # CandidateKey[v[j]]
  BY <1>1 DEF Apart
<1>3. PICK r : r = Only(v, S)
  OBVIOUS
<1>4. r \in Seq(Candidates) /\ From(r, v) /\ (\A i \in 1..Len(r) : r[i] \in S) /\ Apart(r, CandidateKey)
  BY <1>1, <1>2, <1>3, OnlyKeeps
<1>5. \A i \in 1..Len(r) : Invoked(r[i].lane) = r[i].lane
  BY <1>1, <1>4 DEF From
<1> QED BY <1>3, <1>4, <1>5 DEF Routable

LEMMA SortedOnly ==
    ASSUME NEW q, NEW v, NEW S, Routable(v)
    PROVE  Routable(Sorted(q, Only(v, S))) /\ \A i \in 1..Len(Sorted(q, Only(v, S))) : Sorted(q, Only(v, S))[i] \in S
<1>1. PICK u : u = Only(v, S)
  OBVIOUS
<1>2. Routable(u) /\ \A i \in 1..Len(u) : u[i] \in S
  BY <1>1, OnlyRoutable
<1>3. PICK r : r = Sorted(q, u)
  OBVIOUS
<1>4. Routable(r) /\ From(r, u)
  BY <1>2, <1>3, SortedRoutable
<1>5. \A i \in 1..Len(r) : r[i] \in S
  BY <1>2, <1>4 DEF From
<1> QED BY <1>1, <1>3, <1>4, <1>5

LEMMA ConcatRoutable ==
    ASSUME NEW s, NEW u, Routable(s), Routable(u),
           \A i \in 1..Len(s), j \in 1..Len(u) : CandidateKey[s[i]] # CandidateKey[u[j]]
    PROVE  /\ Routable(s \o u)
           /\ \A i \in 1..Len(s \o u) : (\E j \in 1..Len(s) : (s \o u)[i] = s[j])
                                           \/ \E j \in 1..Len(u) : (s \o u)[i] = u[j]
<1>1. /\ s \in Seq(Candidates) /\ Apart(s, CandidateKey) /\ \A i \in 1..Len(s) : Invoked(s[i].lane) = s[i].lane
      /\ u \in Seq(Candidates) /\ Apart(u, CandidateKey) /\ \A i \in 1..Len(u) : Invoked(u[i].lane) = u[i].lane
  BY DEF Routable
<1>2. PICK r : r = s \o u
  OBVIOUS
<1>3. /\ r \in Seq(Candidates)
      /\ \A i \in 1..Len(r) : (\E j \in 1..Len(s) : r[i] = s[j]) \/ \E j \in 1..Len(u) : r[i] = u[j]
      /\ Apart(r, CandidateKey)
  BY <1>1, <1>2, ConcatKeeps
<1>4. \A i \in 1..Len(r) : Invoked(r[i].lane) = r[i].lane
  BY <1>1, <1>3
<1> QED BY <1>2, <1>3, <1>4 DEF Routable

\* The alternatives of a lane leave its bucket out (failover_alternatives).
LEMMA AlternativesApart ==
    ASSUME NEW q \in Request, NEW chosen \in Lanes
    PROVE  /\ Routable(FailoverAlternatives(q, chosen))
           /\ \A i \in 1..Len(FailoverAlternatives(q, chosen)) :
                 CandidateKey[FailoverAlternatives(q, chosen)[i]] # Key(chosen)
<1>1. PICK viable : viable = ViableCandidates(OpenRequest(q))
  OBVIOUS
<1>2. Routable(viable)
  <2>1. OpenRequest(q) \in Request
    BY DEF OpenRequest, Request
  <2> QED BY <1>1, <2>1, ViableApart DEF Routable
<1>3. PICK others : others = {c \in Range(viable) : Key(c.lane) # Key(chosen)}
  OBVIOUS
<1>4. PICK siblings : siblings = {c \in others : c.lane.tool = chosen.tool}
  OBVIOUS
<1>5. PICK s : s = Sorted(q, Only(viable, siblings))
  OBVIOUS
<1>6. PICK u : u = Sorted(q, Only(viable, others \ siblings))
  OBVIOUS
<1>7. Routable(s) /\ \A i \in 1..Len(s) : s[i] \in siblings
  BY <1>2, <1>5, SortedOnly
<1>8. Routable(u) /\ \A i \in 1..Len(u) : u[i] \in others \ siblings
  BY <1>2, <1>6, SortedOnly
<1>9. \A c \in Candidates : c.lane \in Lanes /\ CandidateKey[c] = Key(c.lane) /\ Key(c.lane).tool = c.lane.tool
  <2> SUFFICES ASSUME NEW c \in Candidates
               PROVE  c.lane \in Lanes /\ CandidateKey[c] = Key(c.lane) /\ Key(c.lane).tool = c.lane.tool
    OBVIOUS
  <2>1. c.lane \in Lanes
    BY CandidateFields
  <2>2. CandidateKey[c] = Key(c.lane)
    BY DEF CandidateKey
  <2> QED BY <2>1, <2>2, LaneFields
<1>10. (\A i \in 1..Len(s) : s[i] \in Candidates) /\ \A i \in 1..Len(u) : u[i] \in Candidates
  BY <1>7, <1>8 DEF Routable
<1>11. \A i \in 1..Len(s) : CandidateKey[s[i]] # Key(chosen) /\ CandidateKey[s[i]].tool = chosen.tool
  BY <1>3, <1>4, <1>7, <1>9, <1>10
<1>12. \A i \in 1..Len(u) : CandidateKey[u[i]] # Key(chosen) /\ CandidateKey[u[i]].tool # chosen.tool
  BY <1>3, <1>4, <1>8, <1>9, <1>10
<1>13. PICK r : r = s \o u
  OBVIOUS
<1>14. \A i \in 1..Len(s), j \in 1..Len(u) : CandidateKey[s[i]] # CandidateKey[u[j]]
  BY <1>11, <1>12
<1>15. /\ Routable(r)
       /\ \A i \in 1..Len(r) : (\E j \in 1..Len(s) : r[i] = s[j]) \/ \E j \in 1..Len(u) : r[i] = u[j]
  BY <1>7, <1>8, <1>13, <1>14, ConcatRoutable
<1>16. \A i \in 1..Len(r) : CandidateKey[r[i]] # Key(chosen)
  BY <1>11, <1>12, <1>15
<1>17. FailoverAlternatives(q, chosen) = r
  BY <1>1, <1>3, <1>4, <1>5, <1>6, <1>13, Zenon DEF FailoverAlternatives, AlternativesAmong
<1> QED BY <1>15, <1>16, <1>17

\* A pinned lane and its alternatives draw from buckets of their own (select_route).
LEMMA ExplicitApart ==
    ASSUME NEW q \in Request, q.target \in Tools
    PROVE  Routable(ExplicitRoute(q))
<1>1. Routable(<<>>)
  <2>1. PICK e : e = <<>>
    OBVIOUS
  <2>2. e \in Seq(Candidates) /\ Len(e) = 0
    BY <2>1
  <2>3. Routable(e)
    BY <2>2 DEF Routable, Apart
  <2> QED BY <2>1, <2>3
<1>2. CASE q.target \notin Open \/ ~Usable(q, q.target)
  BY <1>1, <1>2 DEF ExplicitRoute
<1>3. CASE ~(q.target \notin Open \/ ~Usable(q, q.target))
  <2>1. PICK v : v = CandidatesFor(q, q.target)
    OBVIOUS
  <2>2. Routable(v) /\ v # <<>>
    <3>1. /\ v \in Seq(Candidates)
          /\ \A i \in 1..Len(v) : v[i].lane.tool = q.target /\ Invoked(v[i].lane) = v[i].lane
          /\ Apart(v, CandidateKey)
          /\ Usable(q, q.target) => v # <<>>
      BY <2>1, CandidatesForKeep
    <3> QED BY <1>3, <3>1 DEF Routable
  <2>3. PICK s : s = Sorted(q, v)
    OBVIOUS
  <2>4. Routable(s) /\ Len(s) = Len(v)
    BY <2>2, <2>3, SortedRoutable
  <2>5. s \in Seq(Candidates) /\ 1 \in 1..Len(s) /\ Invoked(s[1].lane) = s[1].lane
    <3>1. s \in Seq(Candidates) /\ v \in Seq(Candidates) /\ \A i \in 1..Len(s) : Invoked(s[i].lane) = s[i].lane
      BY <2>2, <2>4 DEF Routable
    <3>2. 1 \in 1..Len(s)
      BY <2>2, <2>4, <3>1
    <3> QED BY <3>1, <3>2
  <2>6. PICK c \in Candidates : c = s[1]
    BY <2>5
  <2>7. c.lane \in Lanes /\ CandidateKey[c] = Key(c.lane)
    BY CandidateFields DEF CandidateKey
  <2>8. PICK one : one = <<c>>
    OBVIOUS
  <2>9. Routable(one) /\ Len(one) = 1 /\ one[1] = c
    <3>1. one \in Seq(Candidates) /\ Len(one) = 1 /\ one[1] = c
      BY <2>8
    <3> QED BY <2>5, <2>6, <3>1 DEF Routable, Apart
  <2>10. PICK alternatives : alternatives = IF q.failover THEN FailoverAlternatives(q, c.lane) ELSE <<>>
    OBVIOUS
  <2>11. Routable(alternatives) /\ \A i \in 1..Len(alternatives) : CandidateKey[alternatives[i]] # Key(c.lane)
    <3>1. CASE q.failover
      <4>1. alternatives = FailoverAlternatives(q, c.lane)
        BY <2>10, <3>1
      <4> QED BY <2>7, <4>1, AlternativesApart
    <3>2. CASE ~q.failover
      <4>1. alternatives = <<>>
        BY <2>10, <3>2
      <4>2. Len(alternatives) = 0
        BY <4>1
      <4> QED BY <1>1, <4>1, <4>2
    <3> QED BY <3>1, <3>2
  <2>12. \A i \in 1..Len(one), j \in 1..Len(alternatives) : CandidateKey[one[i]] # CandidateKey[alternatives[j]]
    <3>1. \A i \in 1..Len(one) : i = 1
      BY <2>9
    <3> QED BY <2>7, <2>9, <2>11, <3>1
  <2>13. Routable(one \o alternatives)
    BY <2>9, <2>11, <2>12, ConcatRoutable
  <2>14. ExplicitRoute(q) = one \o alternatives
    <3>1. ExplicitRoute(q) = <<c>> \o IF q.failover THEN FailoverAlternatives(q, c.lane) ELSE <<>>
      BY <1>3, <2>1, <2>3, <2>6, Zenon DEF ExplicitRoute
    <3> QED BY <2>8, <2>10, <3>1
  <2> QED BY <2>13, <2>14
<1> QED BY <1>2, <1>3

\* Lanes that draw from buckets of their own once their models are filled in,
\* and those of spent buckets behind the others.
LaneKey == [lane \in Lanes |-> Key(Invoked(lane))]
SpentLanesLast(r) == \A i, j \in 1..Len(r) : i < j /\ Exhausted(Key(r[i])) => Exhausted(Key(r[j]))

LEMMA LanesOfRoutable ==
    ASSUME NEW v, Routable(v), NEW r, r = [i \in DOMAIN v |-> v[i].lane]
    PROVE  /\ r \in Seq(Lanes) /\ Apart(r, LaneKey)
           /\ SpentLast(v) => SpentLanesLast(r)
<1>1. v \in Seq(Candidates) /\ Apart(v, CandidateKey) /\ \A i \in 1..Len(v) : Invoked(v[i].lane) = v[i].lane
  BY DEF Routable
<1>2. Len(v) \in Nat /\ DOMAIN v = 1..Len(v) /\ \A i \in 1..Len(v) : v[i] \in Candidates
  BY <1>1
<1>3. \A i \in 1..Len(v) : /\ r[i] = v[i].lane /\ r[i] \in Lanes /\ CandidateKey[v[i]] = Key(v[i].lane)
                           /\ v[i].exhausted = Exhausted(Key(v[i].lane))
  BY <1>2, CandidateFields DEF CandidateKey
<1>4. r \in [1..Len(v) -> Lanes]
  BY <1>2, <1>3
<1>5. r \in Seq(Lanes) /\ Len(r) = Len(v)
  BY <1>2, <1>4
<1>6. \A i \in 1..Len(r) : LaneKey[r[i]] = CandidateKey[v[i]]
  <2>1. \A lane \in Lanes : LaneKey[lane] = Key(Invoked(lane))
    BY DEF LaneKey
  <2> SUFFICES ASSUME NEW i \in 1..Len(v) PROVE LaneKey[r[i]] = CandidateKey[v[i]]
    BY <1>5
  <2>2. r[i] \in Lanes /\ r[i] = v[i].lane /\ CandidateKey[v[i]] = Key(v[i].lane)
    BY <1>3
  <2>3. Invoked(v[i].lane) = v[i].lane
    BY <1>1
  <2>4. LaneKey[r[i]] = Key(Invoked(r[i]))
    BY <2>1, <2>2
  <2> QED BY <2>2, <2>3, <2>4
<1>7. Apart(r, LaneKey)
  BY <1>1, <1>5, <1>6 DEF Apart
<1>8. SpentLast(v) => SpentLanesLast(r)
  BY <1>3, <1>5 DEF SpentLast, SpentLanesLast
<1> QED BY <1>5, <1>7, <1>8

LEMMA SelectRouteApart ==
    ASSUME NEW q \in Request
    PROVE  /\ SelectRoute(q) \in Seq(Lanes) /\ Apart(SelectRoute(q), LaneKey)
           /\ q.target = NoTool => SpentLanesLast(SelectRoute(q))
<1>1. PICK route : route = IF q.target # NoTool THEN ExplicitRoute(q) ELSE Sorted(q, ViableCandidates(q))
  OBVIOUS
<1>2. PICK r : r = [i \in DOMAIN route |-> route[i].lane]
  OBVIOUS
<1>3. SelectRoute(q) = r
  BY <1>1, <1>2, Zenon DEF SelectRoute
<1>4. CASE q.target # NoTool
  <2>1. q.target \in Tools
    BY <1>4 DEF Request
  <2>2. Routable(route)
    BY <1>1, <1>4, <2>1, ExplicitApart
  <2>3. r \in Seq(Lanes) /\ Apart(r, LaneKey)
    BY <1>2, <2>2, LanesOfRoutable
  <2> QED BY <1>3, <1>4, <2>3
<1>5. CASE q.target = NoTool
  <2>1. PICK v : v = ViableCandidates(q)
    OBVIOUS
  <2>2. Routable(v)
    BY <2>1, ViableApart DEF Routable
  <2>3. route = Sorted(q, v)
    BY <1>1, <1>5, <2>1
  <2>4. Routable(route) /\ SpentLast(route)
    BY <2>2, <2>3, SortedRoutable
  <2>5. r \in Seq(Lanes) /\ Apart(r, LaneKey) /\ SpentLanesLast(r)
    BY <1>2, <2>4, LanesOfRoutable
  <2> QED BY <1>3, <2>5
<1> QED BY <1>4, <1>5

\* What a walk is given to charge: whatever the request, no two of its lanes
\* draw from one bucket, also where `rtrt call` falls back to the open ranking.
LEMMA RankedApart ==
    ASSUME NEW q \in Request, q.call => q.target # NoTool
    PROVE  /\ RankedTargets(q) \in Seq(Lanes) /\ Apart(RankedTargets(q), LaneKey)
           /\ q.target = NoTool => SpentLanesLast(RankedTargets(q))
<1>1. PICK ranked : ranked = SelectRoute(q)
  OBVIOUS
<1>2. ranked \in Seq(Lanes) /\ Apart(ranked, LaneKey) /\ (q.target = NoTool => SpentLanesLast(ranked))
  BY <1>1, SelectRouteApart
<1>3. CASE ~q.call
  <2>1. RankedTargets(q) = ranked
    BY <1>1, <1>3, Zenon DEF RankedTargets
  <2> QED BY <1>2, <2>1
<1>4. CASE q.call
  <2>1. q.target # NoTool /\ q.target \in Tools
    BY <1>4 DEF Request
  <2>2. PICK lane : lane = [tool |-> q.target, model |-> q.model]
    OBVIOUS
  <2>3. lane \in Lanes /\ lane.tool = q.target
    BY <2>1, <2>2 DEF Lanes, Request
  <2>4. PICK named : named = <<lane>>
    OBVIOUS
  <2>5. named \in Seq(Lanes) /\ Len(named) = 1 /\ named[1] = lane
    BY <2>3, <2>4
  <2>6. Apart(named, LaneKey)
    BY <2>5 DEF Apart
  <2>7. PICK open : open = SelectRoute(OpenRequest(q))
    OBVIOUS
  <2>8. open \in Seq(Lanes) /\ Apart(open, LaneKey)
    <3>1. OpenRequest(q) \in Request
      BY DEF OpenRequest, Request
    <3> QED BY <2>7, <3>1, SelectRouteApart
  <2>9. PICK S : S = {l \in Range(open) : l.tool # q.target}
    OBVIOUS
  <2>10. PICK rest : rest = Only(open, S)
    OBVIOUS
  <2>11. \A i, j \in 1..Len(open) : i # j /\ open[i] \in S /\ open[j] \in S => LaneKey[open[i]] # LaneKey[open[j]]
    BY <2>8 DEF Apart
  <2>12. rest \in Seq(Lanes) /\ Apart(rest, LaneKey) /\ \A i \in 1..Len(rest) : rest[i] \in S
    BY <2>8, <2>10, <2>11, OnlyKeeps
  <2>13. \A l \in Lanes : LaneKey[l].tool = l.tool
    <3> SUFFICES ASSUME NEW l \in Lanes PROVE LaneKey[l].tool = l.tool
      OBVIOUS
    <3>1. LaneKey[l] = Key(Invoked(l))
      BY DEF LaneKey
    <3>2. Invoked(l) \in Lanes /\ Invoked(l).tool = l.tool
      BY LaneFields
    <3>3. Key(Invoked(l)).tool = Invoked(l).tool
      BY <3>2, LaneFields
    <3> QED BY <3>1, <3>2, <3>3
  <2>14. \A i \in 1..Len(named), j \in 1..Len(rest) : LaneKey[named[i]] # LaneKey[rest[j]]
    <3>1. \A i \in 1..Len(named) : LaneKey[named[i]].tool = q.target
      BY <2>3, <2>5, <2>13
    <3>2. \A j \in 1..Len(rest) : rest[j] \in Lanes /\ rest[j].tool # q.target
      BY <2>9, <2>12
    <3> QED BY <2>13, <3>1, <3>2
  <2>15. named \o rest \in Seq(Lanes) /\ Apart(named \o rest, LaneKey)
    BY <2>5, <2>6, <2>12, <2>14, ConcatKeeps
  <2>16. RankedTargets(q) \in {named, ranked, named \o rest}
    <3>1. OtherTargets(SelectRoute(OpenRequest(q)), q.target) = rest
      BY <2>7, <2>9, <2>10, Zenon DEF OtherTargets
    <3> QED BY <1>1, <2>2, <2>4, <3>1, Zenon DEF RankedTargets
  <2>17. CASE RankedTargets(q) = named
    BY <2>1, <2>5, <2>6, <2>17
  <2>18. CASE RankedTargets(q) = ranked
    BY <1>2, <2>18
  <2>19. CASE RankedTargets(q) = named \o rest
    BY <2>1, <2>15, <2>19
  <2> QED BY <2>16, <2>17, <2>18, <2>19
<1> QED BY <1>3, <1>4

-----------------------------------------------------------------------------
(* What a walk makes of its ranking. *)

\* The last place a walk may have charged: the lane after those it gave up.
Reach(r) == Len(r.trail) + (IF r.halted THEN 0 ELSE 1)

\* No two lanes of one bucket; those spent when ranked come last unless the
\* request named its target.
Ranked(r) ==
    /\ r.spent \subseteq 1..Len(r.ranked)
    /\ ~r.policy => Len(r.ranked) = 1
    /\ ~r.pinned => \A i \in r.spent, p \in 1..Len(r.ranked) : p \notin r.spent => p < i
    /\ Apart(r.ranked, LaneKey)

\* Rows are of ranked lanes, and a failover walk has given up all before them.
Placed(rows, r) ==
    \A i \in DOMAIN rows : /\ rows[i].at \in 1..Len(r.ranked)
                           /\ rows[i].lane = Invoked(r.ranked[rows[i].at])
                           /\ r.policy => rows[i].at <= Reach(r)

RankInv == \A w \in Walks : Ranked(walk[w]) /\ Placed(ledger[w], walk[w])

\* What every step of a walk under way does to it.
Onward(r, x) ==
    /\ x.policy = r.policy /\ x.pinned = r.pinned /\ x.ranked = r.ranked /\ x.spent = r.spent
    /\ Reach(x) \in Nat /\ Reach(r) \in Nat /\ Reach(r) <= Reach(x)

LEMMA OnwardKeeps ==
    ASSUME NEW r, NEW x, NEW rows \in Seq(Row), Onward(r, x), Ranked(r), Placed(rows, r)
    PROVE  Ranked(x) /\ Placed(rows, x)
<1>1. Ranked(x)
  BY DEF Onward, Ranked
<1>2. \A i \in DOMAIN rows : rows[i].at \in Nat
  <2>1. \A i \in DOMAIN rows : rows[i] \in Row
    OBVIOUS
  <2> QED BY <2>1 DEF Row
<1>3. Placed(rows, x)
  BY <1>2 DEF Onward, Placed
<1> QED BY <1>1, <1>3

LEMMA AdvanceOnward ==
    ASSUME NEW r \in Walk, ~r.halted, NEW class \in Classes
    PROVE  Onward(r, Advance(r, class))
<1>1. r.trail \in Seq(Attempt) /\ Len(r.trail) \in Nat /\ Reach(r) = Len(r.trail) + 1
  BY DEF Walk, Reach
<1>2. PICK t : t = Append(r.trail, [lane |-> Current(r), class |-> class, retried |-> r.tries > 1])
  OBVIOUS
<1>3. Len(t) = Len(r.trail) + 1
  BY <1>1, <1>2
<1>4. ASSUME NEW pc PROVE Onward(r, [r EXCEPT !.pc = pc])
  <2>1. PICK x : x = [r EXCEPT !.pc = pc]
    OBVIOUS
  <2>2. /\ x.policy = r.policy /\ x.pinned = r.pinned /\ x.ranked = r.ranked /\ x.spent = r.spent
        /\ x.trail = r.trail /\ x.halted = r.halted
    BY <2>1 DEF Walk
  <2>3. Reach(x) = Reach(r)
    BY <2>2 DEF Reach
  <2> QED BY <1>1, <2>1, <2>2, <2>3 DEF Onward
<1>5. Onward(r, [r EXCEPT !.pc = "done", !.trail = t, !.halted = TRUE])
  <2>1. PICK b \in BOOLEAN : b = TRUE
    OBVIOUS
  <2>2. PICK x : x = [r EXCEPT !.pc = "done", !.trail = t, !.halted = b]
    OBVIOUS
  <2>3. /\ x.policy = r.policy /\ x.pinned = r.pinned /\ x.ranked = r.ranked /\ x.spent = r.spent
        /\ x.trail = t /\ x.halted = b
    BY <2>2 DEF Walk
  <2>4. Reach(x) = Len(t) + 0
    BY <2>1, <2>3 DEF Reach
  <2> QED BY <1>1, <1>3, <2>1, <2>2, <2>3, <2>4 DEF Onward
<1>6. Onward(r, [r EXCEPT !.pc = "done", !.trail = t])
  <2>1. PICK x : x = [r EXCEPT !.pc = "done", !.trail = t]
    OBVIOUS
  <2>2. /\ x.policy = r.policy /\ x.pinned = r.pinned /\ x.ranked = r.ranked /\ x.spent = r.spent
        /\ x.trail = t /\ x.halted = r.halted
    BY <2>1 DEF Walk
  <2>3. Reach(x) = Len(t) + 1
    BY <2>2 DEF Reach
  <2> QED BY <1>1, <1>3, <2>1, <2>2, <2>3 DEF Onward
<1>7. Onward(r, [r EXCEPT !.pc = "invoke", !.trail = t, !.at = r.at + 1, !.tries = 0])
  <2>1. PICK x : x = [r EXCEPT !.pc = "invoke", !.trail = t, !.at = r.at + 1, !.tries = 0]
    OBVIOUS
  <2>2. /\ x.policy = r.policy /\ x.pinned = r.pinned /\ x.ranked = r.ranked /\ x.spent = r.spent
        /\ x.trail = t /\ x.halted = r.halted
    BY <2>1 DEF Walk
  <2>3. Reach(x) = Len(t) + 1
    BY <2>2 DEF Reach
  <2> QED BY <1>1, <1>3, <2>1, <2>2, <2>3 DEF Onward
<1>8. Onward(r, GiveUp(r, class))
  <2>1. GiveUp(r, class) \in {[r EXCEPT !.pc = "done", !.trail = t, !.halted = TRUE],
                              [r EXCEPT !.pc = "done", !.trail = t],
                              [r EXCEPT !.pc = "invoke", !.trail = t, !.at = r.at + 1, !.tries = 0]}
    BY <1>2, Zenon DEF GiveUp
  <2> QED BY <1>5, <1>6, <1>7, <2>1, Zenon
<1>9. Advance(r, class) \in {[r EXCEPT !.pc = "done"], [r EXCEPT !.pc = "backoff"], GiveUp(r, class)}
  BY Zenon DEF Advance
<1> QED BY <1>4, <1>8, <1>9, Zenon

LEMMA ConcludeOnward ==
    ASSUME NEW r \in Walk, ~r.halted, NEW answer \in Answers
    PROVE  Onward(r, Conclude(r, answer))
<1>1. CASE answer = "text" \/ (answer = "blank" /\ ~r.policy)
  <2>1. PICK x : x = [r EXCEPT !.pc = "done", !.served = Current(r)]
    OBVIOUS
  <2>2. /\ x.policy = r.policy /\ x.pinned = r.pinned /\ x.ranked = r.ranked /\ x.spent = r.spent
        /\ x.trail = r.trail /\ x.halted = r.halted
    BY <2>1 DEF Walk
  <2>3. Reach(x) = Reach(r)
    BY <2>2 DEF Reach
  <2>4. Reach(r) \in Nat
    BY DEF Walk, Reach
  <2>5. x = Conclude(r, answer)
    BY <1>1, <2>1 DEF Conclude
  <2> QED BY <2>2, <2>3, <2>4, <2>5 DEF Onward
<1>2. CASE ~(answer = "text" \/ (answer = "blank" /\ ~r.policy))
  <2>1. Classify(answer) \in Classes
    BY <1>2 DEF Classify, Answers, Classes
  <2>2. Conclude(r, answer) = Advance(r, Classify(answer))
    BY <1>2 DEF Conclude
  <2> QED BY <2>1, <2>2, AdvanceOnward
<1> QED BY <1>1, <1>2

\* One walk and its rows change.
LEMMA RankStep ==
    ASSUME WalkInv, RankInv, NEW w \in Walks, NEW x, NEW rows, Ranked(x), Placed(rows, x),
           walk' = [walk EXCEPT ![w] = x], ledger' = [ledger EXCEPT ![w] = rows]
    PROVE  RankInv'
<1>1. walk \in [Walks -> Walk] /\ ledger \in [Walks -> Seq(Row)]
  BY DEF WalkInv, TypeOK
<1>2. /\ walk'[w] = x /\ \A v \in Walks \ {w} : walk'[v] = walk[v]
      /\ ledger'[w] = rows /\ \A v \in Walks \ {w} : ledger'[v] = ledger[v]
  BY <1>1
<1>3. \A v \in Walks : Ranked(walk'[v]) /\ Placed(ledger'[v], walk'[v])
  BY <1>2 DEF RankInv
<1> QED BY <1>3 DEF RankInv, Ranked, Placed, Reach, Apart

LEMMA QuietRank ==
    ASSUME WalkInv, RankInv, NEW w \in Walks, NEW x, Onward(walk[w], x), Set(w, x), ledger' = ledger
    PROVE  RankInv'
<1>1. ledger[w] \in Seq(Row) /\ ledger' = [ledger EXCEPT ![w] = ledger[w]]
  BY DEF WalkInv, TypeOK
<1>2. Ranked(x) /\ Placed(ledger[w], x)
  BY <1>1, OnwardKeeps DEF RankInv
<1> QED BY <1>1, <1>2, RankStep DEF Set

\* The row a call leaves is of the lane the walk has reached.
LEMMA ReturnRank ==
    ASSUME WalkInv, RankInv, NEW w \in Walks, NEW answer \in Answers, Called(walk[w]), Return(w, answer)
    PROVE  RankInv'
<1>1. PICK r : r = walk[w]
  OBVIOUS
<1>2. r \in Walk /\ r.at \in 1..Len(r.ranked) /\ ~r.halted /\ (r.policy => Len(r.trail) + 1 = r.at)
  BY <1>1 DEF Called, Sound, Faithful
<1>3. PICK x : x = Conclude(r, answer)
  OBVIOUS
<1>4. Onward(r, x)
  BY <1>2, <1>3, ConcludeOnward
<1>5. PICK rows \in Seq(Row) : rows = ledger[w]
  BY DEF WalkInv, TypeOK
<1>6. Ranked(x) /\ Placed(rows, x)
  BY <1>1, <1>4, <1>5, OnwardKeeps DEF RankInv
<1>7. PICK ok : ok = (answer \in {"text", "blank"})
  OBVIOUS
<1>8. PICK lane : lane = Invoked(Current(r))
  OBVIOUS
<1>9. PICK row : row = [at |-> r.at, lane |-> lane, answer |-> answer, ok |-> ok]
  OBVIOUS
<1>10. row.at = r.at /\ row.lane = lane
  BY <1>9
<1>11. PICK more : more = Append(rows, row)
  OBVIOUS
<1>12. walk' = [walk EXCEPT ![w] = x] /\ ledger' = [ledger EXCEPT ![w] = more]
  BY <1>1, <1>3, <1>5, <1>7, <1>8, <1>9, <1>11, Zenon DEF Return, Set
<1>13. Placed(more, x)
  <2>1. x.policy = r.policy /\ x.ranked = r.ranked /\ Reach(r) <= Reach(x) /\ Reach(r) \in Nat /\ Reach(x) \in Nat
    BY <1>4 DEF Onward
  <2>2. r.policy => r.at <= Reach(x)
    <3>1. Reach(r) = Len(r.trail) + 1
      BY <1>2 DEF Reach
    <3>2. r.at \in Nat
      BY <1>2 DEF Walk
    <3> QED BY <1>2, <2>1, <3>1, <3>2
  <2>3. lane = Invoked(r.ranked[r.at])
    BY <1>8 DEF Current
  <2>4. \A i \in DOMAIN more : (i \in DOMAIN rows /\ more[i] = rows[i]) \/ more[i] = row
    BY <1>5, <1>11
  <2>5. ASSUME NEW i \in DOMAIN more
        PROVE  /\ more[i].at \in 1..Len(x.ranked) /\ more[i].lane = Invoked(x.ranked[more[i].at])
               /\ x.policy => more[i].at <= Reach(x)
    <3>1. CASE i \in DOMAIN rows /\ more[i] = rows[i]
      BY <1>6, <3>1 DEF Placed
    <3>2. CASE more[i] = row
      BY <1>2, <1>10, <2>1, <2>2, <2>3, <3>2
    <3> QED BY <2>4, <3>1, <3>2
  <2> QED BY <2>5 DEF Placed
<1> QED BY <1>6, <1>12, <1>13, RankStep

\* A walk that stays at its lane stays where it was ranked.
LEMMA StayOnward ==
    ASSUME NEW r \in Walk, NEW pc, NEW tries, NEW answer
    PROVE  Onward(r, [r EXCEPT !.pc = pc, !.tries = tries, !.answer = answer])
<1>1. PICK x : x = [r EXCEPT !.pc = pc, !.tries = tries, !.answer = answer]
  OBVIOUS
<1>2. /\ x.policy = r.policy /\ x.pinned = r.pinned /\ x.ranked = r.ranked /\ x.spent = r.spent
      /\ x.trail = r.trail /\ x.halted = r.halted
  BY <1>1 DEF Walk
<1>3. Reach(x) = Reach(r)
  BY <1>2 DEF Reach
<1>4. Reach(r) \in Nat
  BY DEF Walk, Reach
<1> QED BY <1>1, <1>2, <1>3, <1>4 DEF Onward

LEMMA CallRank ==
    ASSUME WalkInv, RankInv, NEW w \in Walks, Call(w)
    PROVE  RankInv'
<1> DEFINE r == walk[w]
<1>1. Sound(r) /\ r \in Walk /\ r.tries \in 0..MaxTries
  BY DEF WalkInv, Sound, Walk
<1>2. r.pc \in {"running", "exited"} => Called(r)
  BY <1>1, FailoverAssumption DEF Called, Sound, Active
<1>3. CASE Refused(w)
  <2>1. PICK class \in Refusals(Current(r)) : Set(w, Advance([r EXCEPT !.tries = r.tries + 1], class))
    BY <1>3 DEF Refused
  <2>2. class \in Classes
    BY DEF Refusals, Classes
  <2>3. r.pc = "invoke" /\ ~r.halted /\ r.tries < MaxTries
    BY <1>1, <1>3 DEF Refused, Sound, Active
  <2>4. PICK n \in 0..MaxTries : n = r.tries + 1
    BY <1>1, <2>3, FailoverAssumption
  <2>5. PICK s : s = [r EXCEPT !.tries = n]
    OBVIOUS
  <2>6. /\ s \in Walk /\ s.policy = r.policy /\ s.pinned = r.pinned /\ s.ranked = r.ranked /\ s.spent = r.spent
        /\ s.trail = r.trail /\ s.halted = r.halted
    BY <1>1, <2>4, <2>5 DEF Walk
  <2>7. Onward(s, Advance(s, class))
    BY <2>2, <2>3, <2>6, AdvanceOnward
  <2>8. Reach(s) = Reach(r)
    BY <2>6 DEF Reach
  <2>9. Onward(r, Advance(s, class))
    BY <2>6, <2>7, <2>8 DEF Onward
  <2>10. Set(w, Advance(s, class)) /\ ledger' = ledger
    BY <1>3, <2>1, <2>4, <2>5 DEF Refused
  <2> QED BY <2>9, <2>10, QuietRank
<1>4. CASE Invoke(w)
  <2>1. [r EXCEPT !.pc = "running", !.tries = r.tries + 1]
          = [r EXCEPT !.pc = "running", !.tries = r.tries + 1, !.answer = r.answer]
    BY <1>1 DEF Walk
  <2>2. Set(w, [r EXCEPT !.pc = "running", !.tries = r.tries + 1, !.answer = r.answer]) /\ ledger' = ledger
    BY <1>4, <2>1 DEF Invoke
  <2>3. Onward(r, [r EXCEPT !.pc = "running", !.tries = r.tries + 1, !.answer = r.answer])
    BY <1>1, StayOnward
  <2> QED BY <2>2, <2>3, QuietRank
<1>5. CASE Retry(w)
  <2>1. [r EXCEPT !.pc = "invoke"] = [r EXCEPT !.pc = "invoke", !.tries = r.tries, !.answer = r.answer]
    BY <1>1 DEF Walk
  <2>2. Set(w, [r EXCEPT !.pc = "invoke", !.tries = r.tries, !.answer = r.answer]) /\ ledger' = ledger
    BY <1>5, <2>1 DEF Retry
  <2>3. Onward(r, [r EXCEPT !.pc = "invoke", !.tries = r.tries, !.answer = r.answer])
    BY <1>1, StayOnward
  <2> QED BY <2>2, <2>3, QuietRank
<1>6. ASSUME NEW answer \in Answers, Exit(w, answer)
      PROVE  RankInv'
  <2>1. [r EXCEPT !.pc = "exited", !.answer = answer] = [r EXCEPT !.pc = "exited", !.tries = r.tries, !.answer = answer]
    BY <1>1 DEF Walk
  <2>2. Set(w, [r EXCEPT !.pc = "exited", !.tries = r.tries, !.answer = answer]) /\ ledger' = ledger
    BY <1>6, <2>1 DEF Exit
  <2>3. Onward(r, [r EXCEPT !.pc = "exited", !.tries = r.tries, !.answer = answer])
    BY <1>1, StayOnward
  <2> QED BY <2>2, <2>3, QuietRank
<1>7. CASE ReadOutput(w)
  <2>1. Called(r) /\ Return(w, r.answer) /\ r.answer \in Answers
    BY <1>1, <1>2, <1>7 DEF ReadOutput, Walk
  <2> QED BY <2>1, ReturnRank
<1>8. CASE TimeOut(w)
  <2>1. Called(r) /\ Return(w, "transient") /\ "transient" \in Answers
    BY <1>2, <1>8 DEF TimeOut, Answers, Classes
  <2> QED BY <2>1, ReturnRank
<1>9. ASSUME NEW answer \in Answers, Answer(w, answer)
      PROVE  RankInv'
  <2>1. Called(r) /\ Return(w, answer)
    BY <1>2, <1>9 DEF Answer
  <2> QED BY <2>1, ReturnRank
<1> QED BY <1>3, <1>4, <1>5, <1>6, <1>7, <1>8, <1>9 DEF Call

\* A walk begins with lanes of buckets of their own, the spent ones last.
LEMMA RouteRank ==
    ASSUME WalkInv, RankInv, NEW w \in Walks, NEW q \in Requests, Route(w, q)
    PROVE  RankInv'
<1>1. q \in Request /\ (q.call => q.target # NoTool)
  BY RoutingAssumption DEF Request
<1>2. PICK ranked : ranked = RankedTargets(q)
  OBVIOUS
<1>3. ranked \in Seq(Lanes) /\ Apart(ranked, LaneKey) /\ (q.target = NoTool => SpentLanesLast(ranked))
  BY <1>1, <1>2, RankedApart
<1>4. PICK lanes : lanes = IF q.failover \/ ranked = <<>> THEN ranked ELSE <<ranked[1]>>
  OBVIOUS
<1>5. PICK spent : spent = {i \in DOMAIN lanes : Exhausted(Key(lanes[i]))}
  OBVIOUS
<1>6. Begin(w, lanes, q.failover, q.target # NoTool, spent)
  BY <1>2, <1>4, <1>5, Zenon DEF Route
<1>7. lanes \in Seq(Lanes) /\ lanes # <<>>
  BY <1>6 DEF Begin
<1>8. /\ Apart(lanes, LaneKey) /\ (~q.failover => Len(lanes) = 1)
      /\ q.target = NoTool => SpentLanesLast(lanes)
  <2>1. CASE q.failover \/ ranked = <<>>
    <3>1. lanes = ranked
      BY <1>4, <2>1
    <3> QED BY <1>3, <1>7, <2>1, <3>1
  <2>2. CASE ~(q.failover \/ ranked = <<>>)
    <3>1. lanes = <<ranked[1]>>
      BY <1>4, <2>2
    <3>2. Len(lanes) = 1
      BY <3>1
    <3> QED BY <3>2 DEF Apart, SpentLanesLast
  <2> QED BY <2>1, <2>2
<1>9. PICK pinned \in BOOLEAN : pinned = (q.target # NoTool)
  <2>1. (q.target # NoTool) \in BOOLEAN
    OBVIOUS
  <2> QED BY <2>1
<1>10. PICK policy \in BOOLEAN : policy = q.failover
  BY <1>1 DEF Request
<1>11. PICK x : x = [IdleWalk EXCEPT !.pc = "invoke", !.ranked = lanes, !.policy = policy,
                                     !.pinned = pinned, !.spent = spent, !.at = 1]
  OBVIOUS
<1>12. x.ranked = lanes /\ x.policy = policy /\ x.pinned = pinned /\ x.spent = spent
  BY <1>11 DEF IdleWalk
<1>13. Ranked(x)
  <2>1. DOMAIN lanes = 1..Len(lanes) /\ Len(lanes) \in Nat
    BY <1>7
  <2>2. spent \subseteq 1..Len(lanes)
    BY <1>5, <2>1
  <2>3. ASSUME ~pinned, NEW i \in spent, NEW p \in 1..Len(lanes), p \notin spent PROVE p < i
    <3>1. Exhausted(Key(lanes[i])) /\ ~Exhausted(Key(lanes[p])) /\ i \in 1..Len(lanes)
      BY <1>5, <2>1, <2>3
    <3>2. SpentLanesLast(lanes)
      BY <1>8, <1>9, <2>3
    <3>3. ~(i < p)
      BY <3>1, <3>2 DEF SpentLanesLast
    <3>4. i # p
      BY <3>1
    <3> QED BY <3>1, <3>3, <3>4
  <2>4. ~policy => Len(lanes) = 1
    BY <1>8, <1>10
  <2> QED BY <1>8, <1>12, <2>2, <2>3, <2>4 DEF Ranked
<1>14. ledger[w] = <<>> /\ ledger' = ledger /\ Set(w, x)
  <2>1. walk[w].pc = "idle" /\ ledger' = ledger
    BY <1>6 DEF Begin
  <2>2. ledger[w] = <<>>
    BY <2>1 DEF WalkInv, RowsFit
  <2>3. Set(w, x)
    BY <1>6, <1>9, <1>10, <1>11, Zenon DEF Begin
  <2> QED BY <2>1, <2>2, <2>3
<1>15. Placed(<<>>, x)
  BY DEF Placed
<1>16. ledger' = [ledger EXCEPT ![w] = <<>>]
  BY <1>14 DEF WalkInv, TypeOK
<1> QED BY <1>13, <1>14, <1>15, <1>16, RankStep DEF Set

LEMMA InitRank == Init => RankInv
<1> SUFFICES ASSUME Init, NEW w \in Walks PROVE Ranked(walk[w]) /\ Placed(ledger[w], walk[w])
  BY DEF RankInv
<1>1. walk[w] = IdleWalk /\ ledger[w] = <<>>
  BY DEF Init
<1>2. IdleWalk.spent = {} /\ IdleWalk.policy = TRUE /\ IdleWalk.ranked = <<>>
  BY DEF IdleWalk
<1>3. Ranked(IdleWalk)
  BY <1>2 DEF Ranked, Apart
<1> QED BY <1>1, <1>3 DEF Placed

LEMMA NextRank == WalkInv /\ RankInv /\ [RoutedNext]_vars => RankInv'
<1> SUFFICES ASSUME WalkInv, RankInv, [RoutedNext]_vars PROVE RankInv'
  OBVIOUS
<1>1. ASSUME NEW w \in Walks, NEW q \in Requests, Route(w, q)
      PROVE  RankInv'
  BY <1>1, RouteRank
<1>2. ASSUME NEW w \in Walks, Call(w)
      PROVE  RankInv'
  BY <1>2, CallRank
<1>3. CASE walk' = walk /\ ledger' = ledger
  BY <1>3 DEF RankInv, Ranked, Placed, Reach, Apart
<1>4. ASSUME NEW t \in Volatile, Reconfigure(t)
      PROVE  RankInv'
  BY <1>3, <1>4 DEF Reconfigure
<1> QED BY <1>1, <1>2, <1>3, <1>4 DEF RoutedNext, vars

\* A walk that is free to choose leaves the buckets that were spent when it was
\* ranked for last, for any targets, caps, costs and requests, and although the
\* comparison it sorts by is no total order (compare_candidates).
THEOREM SpentLastResort == RoutedSpec => []SpentIsLastResort
<1>1. WalkInv /\ RankInv => SpentIsLastResort
  <2> SUFFICES ASSUME WalkInv, RankInv, NEW w \in Walks, ~walk[w].pinned,
                      NEW i \in DOMAIN ledger[w], ledger[w][i].at \in walk[w].spent,
                      NEW p \in DOMAIN walk[w].ranked \ walk[w].spent
               PROVE  p <= Len(walk[w].trail) /\ walk[w].trail[p].class # "fatal"
    BY DEF SpentIsLastResort
  <2>1. PICK r : r = walk[w]
    OBVIOUS
  <2>2. Sound(r) /\ r \in Walk /\ Faithful(r) /\ Ranked(r) /\ Placed(ledger[w], r)
    BY <2>1 DEF WalkInv, RankInv, Sound
  <2>3. r.ranked \in Seq(Lanes) /\ Len(r.trail) \in Nat /\ r.halted \in BOOLEAN /\ r.policy \in BOOLEAN
    BY <2>2 DEF Walk
  <2>4. p \in 1..Len(r.ranked) /\ p \notin r.spent
    BY <2>1, <2>3
  <2>5. PICK a : a = ledger[w][i].at
    OBVIOUS
  <2>6. a \in r.spent /\ a \in 1..Len(r.ranked) /\ (r.policy => a <= Reach(r))
    BY <2>1, <2>2, <2>5 DEF Placed
  <2>7. p < a
    BY <2>1, <2>2, <2>4, <2>6 DEF Ranked
  <2>8. r.policy
    <3>1. ~r.policy => Len(r.ranked) = 1
      BY <2>2 DEF Ranked
    <3>2. PICK n \in Nat : n = Len(r.ranked)
      BY <2>3
    <3>3. p \in 1..n /\ a \in 1..n /\ p < a
      BY <2>4, <2>6, <2>7, <3>2
    <3>4. n # 1
      BY <3>3
    <3> QED BY <3>1, <3>2, <3>4
  <2>9. PICK n \in Nat : n = Len(r.trail)
    BY <2>3
  <2>10. p \in 1..Len(r.trail) /\ (r.halted => p # Len(r.trail))
    <3>1. PICK m \in Nat : m = Len(r.ranked)
      BY <2>3
    <3>2. p \in 1..m /\ a \in 1..m /\ p < a /\ a <= Reach(r)
      BY <2>4, <2>6, <2>7, <2>8, <3>1
    <3>3. CASE r.halted
      <4>1. Reach(r) = n + 0
        BY <2>9, <3>3 DEF Reach
      <4>2. p \in 1..n /\ p # n
        BY <3>2, <4>1
      <4> QED BY <2>9, <4>2
    <3>4. CASE ~r.halted
      <4>1. Reach(r) = n + 1
        BY <2>9, <3>4 DEF Reach
      <4>2. p \in 1..n
        BY <3>2, <4>1
      <4> QED BY <2>9, <3>4, <4>2
    <3> QED BY <3>3, <3>4
  <2>11. r.trail[p].class = "fatal" <=> (r.halted /\ p = Len(r.trail))
    BY <2>2, <2>8, <2>10 DEF Faithful
  <2> QED BY <2>1, <2>10, <2>11
<1> QED BY <1>1, InitInv, NextInv, InitRank, NextRank, PTL DEF RoutedSpec

\* A bucket that answered that its quota is used up is not charged again by that
\* walk, under whatever model and whether its target was named or found
\* (failover_alternatives, ranked_targets_for_call).
THEOREM QuotaAlone == RoutedSpec => []QuotaLeftAlone
<1>1. WalkInv /\ RankInv => QuotaLeftAlone
  <2> SUFFICES ASSUME WalkInv, RankInv, NEW w \in Walks, NEW i \in DOMAIN ledger[w], NEW j \in DOMAIN ledger[w],
                      i < j, ledger[w][i].answer = "quota"
               PROVE  Key(ledger[w][j].lane) # Key(ledger[w][i].lane)
    BY DEF QuotaLeftAlone
  <2>1. PICK r : r = walk[w]
    OBVIOUS
  <2>2. Ranked(r) /\ Placed(ledger[w], r) /\ r \in Walk
    BY <2>1 DEF RankInv, WalkInv, Sound
  <2>3. PICK a : a = ledger[w][i].at
    OBVIOUS
  <2>4. PICK b : b = ledger[w][j].at
    OBVIOUS
  <2>5. /\ a \in 1..Len(r.ranked) /\ ledger[w][i].lane = Invoked(r.ranked[a])
        /\ b \in 1..Len(r.ranked) /\ ledger[w][j].lane = Invoked(r.ranked[b])
    BY <2>2, <2>3, <2>4 DEF Placed
  <2>6. a # b
    BY <2>3, <2>4 DEF WalkInv, ChargesInOrder, InOrder
  <2>7. LaneKey[r.ranked[a]] # LaneKey[r.ranked[b]]
    BY <2>2, <2>5, <2>6 DEF Ranked, Apart
  <2>8. r.ranked[a] \in Lanes /\ r.ranked[b] \in Lanes
    <3>1. r.ranked \in Seq(Lanes)
      BY <2>2 DEF Walk
    <3>2. PICK l \in Seq(Lanes) : l = r.ranked
      BY <3>1
    <3>3. a \in 1..Len(l) /\ b \in 1..Len(l)
      BY <2>5, <3>2
    <3>4. l[a] \in Lanes /\ l[b] \in Lanes
      BY <3>3
    <3> QED BY <3>2, <3>4
  <2>9. LaneKey[r.ranked[a]] = Key(Invoked(r.ranked[a])) /\ LaneKey[r.ranked[b]] = Key(Invoked(r.ranked[b]))
    <3>1. \A lane \in Lanes : LaneKey[lane] = Key(Invoked(lane))
      BY DEF LaneKey
    <3> QED BY <2>8, <3>1
  <2> QED BY <2>5, <2>7, <2>9
<1> QED BY <1>1, InitInv, NextInv, InitRank, NextRank, PTL DEF RoutedSpec

=============================================================================
