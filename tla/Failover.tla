------------------------------ MODULE Failover ------------------------------
(***************************************************************************)
(* The failover walk of `rtrt route`, `rtrt call` and the MCP tool         *)
(* agent_route: lanes are called in the order they were ranked, each as    *)
(* often as its failures are transient and its tries last, until one       *)
(* answers or a fatal failure halts the walk.  Every call that gets past   *)
(* the checks of its target leaves a row in the usage ledger, which ranks  *)
(* the lanes of the next walk (Routing).  Targets are looked up again at   *)
(* every call: what was installed and enabled when the walk was ranked may *)
(* not be by then.  A command is waited for at most the timeout; that its  *)
(* output ends is waited for without one, and so is the answer of an API.  *)
(***************************************************************************)
EXTENDS Naturals, Sequences

CONSTANTS
    Tools,        \* the detected targets
    Models,       \* their models
    ModelsOf,     \* target -> the models detected for it, in order
    NoModel, NoLane,
    Claude,       \* the target whose command insists on a model
    Cli,          \* the targets called by running their command
    Configured,   \* the targets the global configuration enables at first
    Volatile,     \* bound: the targets that come and go
    Walks,
    MaxTries,     \* transient_retries + 1
    MaxFailures,  \* bound: answers that are failures
    MaxChanges    \* bound: changes of what is installed or enabled

ASSUME FailoverAssumption ==
    /\ Cli \subseteq Tools /\ Configured \subseteq Tools /\ Volatile \subseteq Tools
    /\ ModelsOf \in [Tools -> Seq(Models)]
    /\ NoModel \notin Models
    /\ MaxTries \in Nat \ {0}
    /\ MaxFailures \in Nat /\ MaxChanges \in Nat

\* A target with the model, and so the quota, it is called with.
Lanes == [tool : Tools, model : Models \union {NoModel}]

ASSUME NoLaneAssumption == NoLane \notin Lanes

Classes == {"transient", "quota", "fatal"}
Answers == {"text", "blank"} \union Classes

VARIABLES
    installed,   \* targets found on this machine
    enabled,     \* targets the global configuration enables
    ledger,      \* walk -> the rows its calls left, oldest first
    walk,        \* the state of each walk
    failures, changes

vars == <<installed, enabled, ledger, walk, failures, changes>>

Row == [at : Nat, lane : Lanes, answer : Answers, ok : BOOLEAN]
Attempt == [lane : Lanes, class : Classes, retried : BOOLEAN]

\* `policy` tells a failover walk from the single call of a route without it.
Walk == [pc : {"idle", "invoke", "running", "exited", "backoff", "done"},
         policy : BOOLEAN, pinned : BOOLEAN, ranked : Seq(Lanes), at : Nat, tries : 0..MaxTries,
         answer : Answers, trail : Seq(Attempt), served : Lanes \union {NoLane}, halted : BOOLEAN,
         spent : SUBSET Nat]  \* history: the places of lanes that were exhausted when ranked

IdleWalk == [pc |-> "idle", policy |-> TRUE, pinned |-> FALSE, ranked |-> <<>>, at |-> 0, tries |-> 0,
             answer |-> "text", trail |-> <<>>, served |-> NoLane, halted |-> FALSE, spent |-> {}]

TypeOK ==
    /\ installed \subseteq Tools /\ enabled \subseteq Tools
    /\ ledger \in [Walks -> Seq(Row)]
    /\ walk \in [Walks -> Walk]
    /\ failures \in Nat /\ changes \in Nat

Init ==
    /\ installed = Tools /\ enabled = Configured
    /\ ledger = [w \in Walks |-> <<>>]
    /\ walk = [w \in Walks |-> IdleWalk]
    /\ failures = 0 /\ changes = 0

-----------------------------------------------------------------------------
Active == {"invoke", "running", "exited", "backoff"}

Current(r) == r.ranked[r.at]

FirstModel(t) == IF ModelsOf[t] = <<>> THEN NoModel ELSE Head(ModelsOf[t])

\* The lane a call is made on, and recorded for.
Invoked(lane) == IF lane.model # NoModel THEN lane ELSE [lane EXCEPT !.model = FirstModel(lane.tool)]

Set(w, r) == walk' = [walk EXCEPT ![w] = r]

\* The lane joins the trail; the walk halts, ends, or goes to the next lane.
GiveUp(r, class) ==
    LET trail == Append(r.trail, [lane |-> Current(r), class |-> class, retried |-> r.tries > 1])
    IN  IF class = "fatal" THEN [r EXCEPT !.pc = "done", !.trail = trail, !.halted = TRUE]
        ELSE IF r.at = Len(r.ranked) THEN [r EXCEPT !.pc = "done", !.trail = trail]
        ELSE [r EXCEPT !.pc = "invoke", !.trail = trail, !.at = r.at + 1, !.tries = 0]

\* Mutants of Advance: a retry after quota; a retry in the trail.
AdvanceRetriesQuota(r, class) ==
    IF ~r.policy THEN [r EXCEPT !.pc = "done"]
    ELSE IF class # "fatal" /\ r.tries < MaxTries THEN [r EXCEPT !.pc = "backoff"] ELSE GiveUp(r, class)
AdvanceTrailsRetry(r, class) ==
    IF ~r.policy THEN [r EXCEPT !.pc = "done"]
    ELSE IF class = "transient" /\ r.tries < MaxTries
         THEN [GiveUp(r, class) EXCEPT !.pc = "backoff", !.at = r.at, !.tries = r.tries] ELSE GiveUp(r, class)

\* What is made of a failure: one more try of the same lane, or none.
Advance(r, class) ==
    IF ~r.policy THEN [r EXCEPT !.pc = "done"]
    ELSE IF class = "transient" /\ r.tries < MaxTries THEN [r EXCEPT !.pc = "backoff"] ELSE GiveUp(r, class)

\* A walk takes a completion without text for a transient failure, although
\* the call before it was a success.
Classify(answer) == IF answer = "blank" THEN "transient" ELSE answer

Conclude(r, answer) ==
    IF answer = "text" \/ (answer = "blank" /\ ~r.policy)
    THEN [r EXCEPT !.pc = "done", !.served = Current(r)]
    ELSE Advance(r, Classify(answer))

\* The call's row, and what the walk makes of its answer.
Return(w, answer) ==
    LET r == walk[w]
    IN  /\ ledger' = [ledger EXCEPT ![w] = Append(ledger[w],
                        [at |-> r.at, lane |-> Invoked(Current(r)), answer |-> answer,
                         ok |-> answer \in {"text", "blank"}])]
        /\ Set(w, Conclude(r, answer))

Begin(w, ranked, policy, pinned, spent) ==
    /\ walk[w].pc = "idle"
    /\ ranked \in Seq(Lanes) /\ ranked # <<>>
    /\ Set(w, [IdleWalk EXCEPT !.pc = "invoke", !.ranked = ranked, !.policy = policy,
                               !.pinned = pinned, !.spent = spent, !.at = 1])
    /\ UNCHANGED <<installed, enabled, ledger, failures, changes>>

\* resolve_target and the checks before the call.  These failures leave no
\* row: that the target is not installed is transient, the others are fatal.
Refusals(lane) ==
    IF lane.tool \notin installed THEN {"transient"}
    ELSE IF lane.tool \notin enabled THEN {"fatal"}
    ELSE IF lane.tool = Claude /\ Invoked(lane).model = NoModel THEN {"fatal"} ELSE {}

Refused(w) ==
    /\ walk[w].pc = "invoke"
    /\ \E class \in Refusals(Current(walk[w])) :
          Set(w, Advance([walk[w] EXCEPT !.tries = walk[w].tries + 1], class))
    /\ UNCHANGED <<installed, enabled, ledger, failures, changes>>

Invoke(w) ==
    /\ walk[w].pc = "invoke"
    /\ Refusals(Current(walk[w])) = {}
    /\ Set(w, [walk[w] EXCEPT !.pc = "running", !.tries = walk[w].tries + 1])
    /\ UNCHANGED <<installed, enabled, ledger, failures, changes>>

\* Providers fail at most MaxFailures times.
Counts(answer) ==
    /\ answer # "text" => failures < MaxFailures
    /\ failures' = IF answer = "text" THEN failures ELSE failures + 1

\* The command ends, or could not be started.
Exit(w, answer) ==
    /\ walk[w].pc = "running"
    /\ Current(walk[w]).tool \in Cli
    /\ Counts(answer)
    /\ Set(w, [walk[w] EXCEPT !.pc = "exited", !.answer = answer])
    /\ UNCHANGED <<installed, enabled, ledger, changes>>

\* Its output ends, when nothing it started holds it open.
ReadOutput(w) ==
    /\ walk[w].pc = "exited"
    /\ Return(w, walk[w].answer)
    /\ UNCHANGED <<installed, enabled, failures, changes>>

\* The command is killed; its output is waited for a bounded time.
TimeOut(w) ==
    /\ walk[w].pc = "running"
    /\ Current(walk[w]).tool \in Cli
    /\ Counts("transient")
    /\ Return(w, "transient")
    /\ UNCHANGED <<installed, enabled, changes>>

\* The gateway answers.
Answer(w, answer) ==
    /\ walk[w].pc = "running"
    /\ Current(walk[w]).tool \notin Cli
    /\ Counts(answer)
    /\ Return(w, answer)
    /\ UNCHANGED <<installed, enabled, changes>>

\* Mutant of Retry: the tries are counted afresh.
RetryAfresh(w) ==
    /\ walk[w].pc = "backoff"
    /\ Set(w, [walk[w] EXCEPT !.pc = "invoke", !.tries = 0])
    /\ UNCHANGED <<installed, enabled, ledger, failures, changes>>

\* The backoff is over.
Retry(w) ==
    /\ walk[w].pc = "backoff"
    /\ Set(w, [walk[w] EXCEPT !.pc = "invoke"])
    /\ UNCHANGED <<installed, enabled, ledger, failures, changes>>

\* Someone removes or installs a target, or edits the global configuration.
Reconfigure(t) ==
    /\ changes < MaxChanges
    /\ changes' = changes + 1
    /\ \/ /\ installed' = IF t \in installed THEN installed \ {t} ELSE installed \union {t}
          /\ enabled' = enabled
       \/ /\ enabled' = IF t \in enabled THEN enabled \ {t} ELSE enabled \union {t}
          /\ installed' = installed
    /\ UNCHANGED <<ledger, walk, failures>>

-----------------------------------------------------------------------------
Call(w) ==
    \/ Refused(w) \/ Invoke(w) \/ ReadOutput(w) \/ TimeOut(w) \/ Retry(w)
    \/ \E answer \in Answers : Exit(w, answer) \/ Answer(w, answer)

-----------------------------------------------------------------------------
(* Properties. *)

\* Of two rows of a walk, the earlier and the later.
InOrder(rows) ==
    \A i, j \in DOMAIN rows :
        i < j => /\ rows[i].at <= rows[j].at
                 /\ rows[i].answer \in {"blank", "transient", "quota"}
                 /\ rows[i].at = rows[j].at => rows[i].answer # "quota"

\* Whatever the providers answer and whenever targets come and go, a walk
\* charges its lanes in the order they were ranked, charges one again only
\* after a transient failure, and charges nothing after a lane that answered
\* or failed fatally (walk_with_policy).
ChargesInOrder == \A w \in Walks : InOrder(ledger[w])

\* The trail of one walk.
Faithful(r) ==
    LET n == Len(r.trail)
    IN  r.policy =>
        /\ n <= Len(r.ranked)
        /\ \A i \in 1..n : /\ r.trail[i].lane = r.ranked[i]
                           /\ r.trail[i].class = "fatal" <=> (r.halted /\ i = n)
        /\ r.pc \in Active => n + 1 = r.at /\ ~r.halted
        /\ r.pc = "done" => \/ r.served # NoLane /\ n < Len(r.ranked) /\ r.served = r.ranked[n + 1]
                            \/ r.served = NoLane /\ (r.halted \/ n = Len(r.ranked))

\* The trail a walk reports is the lanes it gave up, in order: the one that
\* serves comes right after them, only the last can be fatal, and then it is
\* the one the walk halted at (PolicyOutcome).
TrailFaithful == \A w \in Walks : Faithful(walk[w])

=============================================================================
