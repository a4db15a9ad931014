--------------------------- MODULE ForwardingProofs ---------------------------
(***************************************************************************)
(* Proofs about Forwarding, for any number of events, commands, requests   *)
(* and faults.                                                             *)
(***************************************************************************)
EXTENDS Forwarding, TLAPS

USE EventsAssumption, CollectorAssumption, BoundsAssumption

LEMMA DefaultsType ==
    /\ AnyEvent \in Events
    /\ AnyEvent.pair \in Pairs
    /\ AnyToken \in Tokens
    /\ NoPending \in Pending
    /\ FreeSlot \in Request
  BY DEF AnyEvent, AnyToken, NoPending, FreeSlot, Pending, Request

LEMMA KeyType == ASSUME NEW e \in Events PROVE Key(e) \in Keys
  BY DEF Key, Keys

LEMMA DelayType == ASSUME NEW n \in 0..CapAttempts PROVE retry_delay(n) \in Nat
  BY ShiftAssumption DEF retry_delay

\* The initial state is well typed.
LEMMA InitType == Init => TypeOK
  BY DefaultsType DEF Init, TypeOK

\* Exit and the faults are well typed, whatever else the action does.
LEMMA ExitType ==
    ASSUME TypeOK, NEW p \in Procs, Exit(p)
    PROVE  /\ pc' \in [Procs -> {"idle", "insert", "select", "send", "wait", "update"}]
           /\ selection' \in [Procs -> {"EventId", "Due", "DuePair"}]
           /\ event' \in [Procs -> Events]
           /\ filter' \in [Procs -> Pairs]
           /\ token' \in [Procs -> Tokens]
           /\ batch' \in [Procs -> SUBSET Pending]
           /\ current' \in [Procs -> Pending]
           /\ ok' \in [Procs -> BOOLEAN]
  BY DefaultsType DEF TypeOK, Exit

LEMMA OutcomeType ==
    ASSUME TypeOK, NEW r \in Requests, NEW b \in BOOLEAN, Outcome(r, b)
    PROVE  /\ pc' \in [Procs -> {"idle", "insert", "select", "send", "wait", "update"}]
           /\ ok' \in [Procs -> BOOLEAN]
  <1>1. req[r].client \in Procs \union {NoProc}
    BY DEF TypeOK, Request
  <1> QED
    BY <1>1 DEF TypeOK, Outcome

LEMMA FaultType == ASSUME TypeOK, Fault PROVE faults' \in 0..MaxFaults
  BY DEF TypeOK, Fault

\* Updates of one request, or of all of them, keep requests well typed.
LEMMA ReqType ==
    ASSUME TypeOK, NEW r \in Requests
    PROVE  /\ [req EXCEPT ![r] = FreeSlot] \in [Requests -> Request]
           /\ [req EXCEPT ![r].client = NoProc] \in [Requests -> Request]
           /\ \A st \in {"free", "sent", "gated", "acked", "failed"} :
                [req EXCEPT ![r].st = st] \in [Requests -> Request]
  BY DefaultsType DEF TypeOK, Request

LEMMA FallbackType ==
    ASSUME TypeOK, NEW r \in Requests, Fallback(r)
    PROVE  req' \in [Requests -> Request]
  <1>1. req[r] \in Request
    BY DEF TypeOK
  <1>2. \A st \in {"acked", "failed"} : [req[r] EXCEPT !.st = st, !.stale = FALSE] \in Request
    BY <1>1 DEF Request
  <1> QED
    BY <1>2 DEF TypeOK, Fallback

\* Marking open snapshots stale keeps requests well typed.
LEMMA StaleType ==
    ASSUME TypeOK, NEW r \in Requests
    PROVE  [req[r] EXCEPT !.stale = TRUE] \in Request
  <1>1. req[r] \in Request
    BY DEF TypeOK
  <1> QED
    BY <1>1 DEF Request

\* The store of a request that passed authorization.
LEMMA StoreType ==
    ASSUME TypeOK, NEW r \in Requests, Authorized(r)
    PROVE  Store(r) \in Hosts /\ Store(r) = HostOf[req[r].ev.pair]
  BY DEF TypeOK, Request, Store, Authorized

\* Every step keeps the state well typed.
LEMMA NextType == TypeOK /\ GateInv /\ [Next]_vars => TypeOK'
  <1> SUFFICES ASSUME TypeOK, GateInv, [Next]_vars PROVE TypeOK'
    OBVIOUS
  <1> USE DefaultsType
  <1>1. ASSUME NEW p \in Procs, NEW e \in Events, NEW t \in Tokens, StartEnqueue(p, e, t)
        PROVE  TypeOK'
    BY <1>1 DEF TypeOK, StartEnqueue, Start, storeVars, budgetVars
  <1>2. ASSUME NEW p \in Procs, NEW t \in FlushTokens, StartFlush(p, t)
        PROVE  TypeOK'
    BY <1>2 DEF TypeOK, StartFlush, Start, storeVars, budgetVars
  <1>3. ASSUME NEW p \in Procs, NEW c \in Credentials, StartFlushPair(p, c[1], c[2])
        PROVE  TypeOK'
    BY <1>3 DEF TypeOK, StartFlushPair, Start, storeVars, budgetVars
  <1>4. ASSUME NEW p \in Procs, EnqueueInsert(p) PROVE TypeOK'
    <2>1. event[p] \in Events /\ Key(event[p]) \in Keys
      BY KeyType DEF TypeOK
    <2>2. spool' \subseteq Row
      BY <1>4, <2>1 DEF TypeOK, EnqueueInsert, Row
    <2>3. accepted' \subseteq Keys
      BY <1>4, <2>1 DEF TypeOK, EnqueueInsert
    <2> QED
      BY <1>4, <2>2, <2>3 DEF TypeOK, EnqueueInsert, commandVars, storeVars, budgetVars
  <1>5. ASSUME NEW p \in Procs, EnqueueConflict(p) PROVE TypeOK'
    BY <1>5, ExitType DEF TypeOK, EnqueueConflict, storeVars, budgetVars
  <1>6. ASSUME NEW p \in Procs, SelectBatch(p) PROVE TypeOK'
    <2>1. Selected(p) \subseteq Row
      BY DEF Selected, Selectable, TypeOK
    <2>2. batch' \in [Procs -> SUBSET Pending]
      BY <1>6, <2>1 DEF TypeOK, SelectBatch, Pending, Row
    <2> QED
      BY <1>6, <2>2 DEF TypeOK, SelectBatch, commandVars, storeVars, budgetVars
  <1>7. ASSUME NEW p \in Procs, SelectNothing(p) PROVE TypeOK'
    BY <1>7, ExitType DEF TypeOK, SelectNothing, storeVars, budgetVars
  <1>8. ASSUME NEW p \in Procs, UpdateSpool(p) PROVE TypeOK'
    <2> DEFINE item == current[p]
    <2>1. item \in Pending
      BY DEF TypeOK
    <2>2. OneMore(item) \in 0..CapAttempts
      BY <2>1 DEF OneMore, Pending
    <2>3. Delivered(item.ev.id) \subseteq Row
      <3>1. ASSUME NEW x \in spool PROVE [x EXCEPT !.after = @ \ {item.ev.id}] \in Row
        <4>1. x \in Row
          BY DEF TypeOK
        <4> QED
          BY <4>1 DEF Row
      <3> QED
        BY <3>1 DEF Delivered
    <2>4. Retried(item.ev.id, OneMore(item)) \subseteq Row
      <3> DEFINE n == OneMore(item)
      <3>1. n \in Nat /\ retry_delay(n) \in Nat
        BY <2>2, DelayType
      <3> HIDE DEF n
      <3>2. ASSUME NEW x \in spool
            PROVE  x \in Row /\ [x EXCEPT !.attempts = n, !.wait = retry_delay(n)] \in Row
        <4>1. x \in Row
          BY DEF TypeOK
        <4> QED
          BY <3>1, <4>1 DEF Row
      <3> QED
        BY <3>2 DEF Retried, n
    <2>5. spool' \subseteq Row
      BY <1>8, <2>3, <2>4 DEF UpdateSpool
    <2>6. CASE batch[p] \subseteq {item}
      BY <1>8, <2>5, <2>6, ExitType DEF TypeOK, UpdateSpool, storeVars, budgetVars
    <2>7. CASE ~(batch[p] \subseteq {item})
      <3>1. /\ pc' = [pc EXCEPT ![p] = "send"]
            /\ batch' = [batch EXCEPT ![p] = @ \ {item}]
            /\ current' = [current EXCEPT ![p] = NoPending]
            /\ ok' = [ok EXCEPT ![p] = FALSE]
            /\ UNCHANGED commandVars
        BY <1>8, <2>7 DEF UpdateSpool
      <3>2. batch' \in [Procs -> SUBSET Pending]
        BY <3>1 DEF TypeOK
      <3> QED
        BY <1>8, <2>5, <3>1, <3>2 DEF TypeOK, UpdateSpool, commandVars, storeVars, budgetVars
    <2> QED
      BY <2>6, <2>7
  <1>9. ASSUME NEW p \in Procs, NEW r \in Requests, Send(p, r) PROVE TypeOK'
    <2>1. PICK item \in batch[p] :
             /\ current' = [current EXCEPT ![p] = item]
             /\ req' = [req EXCEPT ![r] = [st |-> "sent", ev |-> item.ev, token |-> token[p],
                                           client |-> p, stale |-> FALSE]]
      BY <1>9 DEF Send
    <2>2. item \in Pending /\ item.ev \in Events /\ token[p] \in Tokens
      BY DEF TypeOK, Pending
    <2>3. req' \in [Requests -> Request]
      BY <2>1, <2>2 DEF TypeOK, Request
    <2>4. current' \in [Procs -> Pending]
      BY <2>1, <2>2 DEF TypeOK
    <2> QED
      BY <1>9, <2>3, <2>4 DEF TypeOK, Send, commandVars, storeVars, budgetVars
  <1>10. ASSUME NEW r \in Requests, Reject(r) PROVE TypeOK'
    BY <1>10, ReqType DEF TypeOK, Reject, guestVars, commandVars, storeVars, budgetVars
  <1>11. ASSUME NEW r \in Requests, Gate(r) PROVE TypeOK'
    BY <1>11, ReqType DEF TypeOK, Gate, guestVars, commandVars, storeVars, budgetVars
  <1>12. ASSUME NEW r \in Requests, Commit(r) PROVE TypeOK'
    <2> DEFINE h == Store(r)
               id == lastId[h] + 1
    <2>1. h \in Hosts /\ req[r].ev \in Events
      BY <1>12, StoreType DEF TypeOK, Request, GateInv, Commit
    <2>2. id \in Nat /\ Key(req[r].ev) \in Keys
      BY <2>1, KeyType DEF TypeOK
    <2>3. req' \in [Requests -> Request]
      <3>1. [req[r] EXCEPT !.st = "acked"] \in Request
        BY DEF TypeOK, Request
      <3> QED
        BY <1>12, <3>1, StaleType DEF TypeOK, Commit
    <2>4. /\ memories' \subseteq Memory
          /\ receipts' \subseteq Receipt
          /\ lastId' \in [Hosts -> Nat]
          /\ stored' \subseteq Keys
      BY <1>12, <2>1, <2>2 DEF TypeOK, Commit, Memory, Receipt
    <2> QED
      BY <1>12, <2>3, <2>4 DEF TypeOK, Commit, guestVars, commandVars, budgetVars
  <1>13. ASSUME NEW r \in Requests, StaleSnapshot(r) PROVE TypeOK'
    <2>1. req' \in [Requests -> Request]
      BY <1>13, FallbackType DEF StaleSnapshot
    <2> QED
      BY <1>13, <2>1 DEF TypeOK, StaleSnapshot, Fallback, guestVars, commandVars, storeVars
  <1>14. ASSUME NEW r \in Requests, Reply(r) PROVE TypeOK'
    BY <1>14, ReqType, OutcomeType DEF TypeOK, Reply, commandVars, storeVars, budgetVars
  <1>15. ASSUME Tick PROVE TypeOK'
    <2>1. ASSUME NEW r \in spool PROVE [r EXCEPT !.wait = IF r.wait > 0 THEN r.wait - 1 ELSE 0] \in Row
      <3>1. r \in Row /\ r.wait \in Nat
        BY DEF TypeOK, Row
      <3>2. (IF r.wait > 0 THEN r.wait - 1 ELSE 0) \in Nat
        BY <3>1
      <3> QED BY <3>1, <3>2 DEF Row
    <2>2. spool' \subseteq Row
      BY <1>15, <2>1 DEF Tick
    <2> QED
      BY <1>15, <2>2 DEF TypeOK, Tick, commandVars, storeVars, budgetVars
  <1>16. ASSUME NEW p \in Procs, ProcCrash(p) PROVE TypeOK'
    <2>1. req' \in [Requests -> Request]
      BY <1>16 DEF TypeOK, ProcCrash, Request
    <2> QED
      BY <1>16, <2>1, ExitType, FaultType DEF TypeOK, ProcCrash, storeVars
  <1>17. ASSUME NEW r \in Requests, ClientTimeout(r) PROVE TypeOK'
    BY <1>17, ReqType, OutcomeType, FaultType DEF TypeOK, ClientTimeout, commandVars, storeVars
  <1>18. ASSUME NEW r \in Requests, Lose(r) PROVE TypeOK'
    BY <1>18, ReqType, OutcomeType, FaultType DEF TypeOK, Lose, commandVars, storeVars
  <1>19. ASSUME NEW r \in Requests, StoreError(r) PROVE TypeOK'
    <2>1. req' \in [Requests -> Request]
      BY <1>19, FallbackType DEF StoreError
    <2> QED
      BY <1>19, <2>1, FaultType DEF TypeOK, StoreError, Fallback, guestVars, commandVars, storeVars
  <1>20. ASSUME NEW r \in Requests, HandlerTimeout(r) PROVE TypeOK'
    BY <1>20, ReqType, OutcomeType, FaultType DEF TypeOK, HandlerTimeout, commandVars, storeVars
  <1>21. ASSUME CollectorCrash PROVE TypeOK'
    BY <1>21, FaultType DEF TypeOK, CollectorCrash, commandVars, storeVars
  <1>22. ASSUME NEW h \in Hosts, HostWrite(h) PROVE TypeOK'
    <2>1. req' \in [Requests -> Request]
      BY <1>22 DEF TypeOK, HostWrite, Request
    <2> QED
      BY <1>22, <2>1, FaultType DEF TypeOK, HostWrite, guestVars, commandVars, storeVars
  <1>23. ASSUME NEW m \in memories, DeleteMemory(m) PROVE TypeOK'
    <2>1. req' \in [Requests -> Request]
      BY <1>23 DEF TypeOK, DeleteMemory, Request
    <2> QED
      BY <1>23, <2>1 DEF TypeOK, DeleteMemory, guestVars, commandVars
  <1>24. CASE UNCHANGED vars
    BY <1>24 DEF TypeOK, vars, guestVars, commandVars, storeVars, budgetVars
  <1> QED
    BY <1>1, <1>2, <1>3, <1>4, <1>5, <1>6, <1>7, <1>8, <1>9, <1>10, <1>11, <1>12, <1>13,
       <1>14, <1>15, <1>16, <1>17, <1>18, <1>19, <1>20, <1>21, <1>22, <1>23, <1>24
    DEF Next, Command, GuestStep, CollectorStep, Environment

-----------------------------------------------------------------------------
(* What the actions leave alone.                                           *)

\* The commands' own steps touch neither a request nor a store.
GuestOnly(p) ==
    \/ \E e \in Events, t \in Tokens : StartEnqueue(p, e, t)
    \/ \E t \in Tokens : StartFlush(p, t)
    \/ \E q \in Pairs, t \in Tokens : StartFlushPair(p, q, t)
    \/ EnqueueInsert(p)
    \/ EnqueueConflict(p)
    \/ SelectBatch(p)
    \/ SelectNothing(p)
    \/ UpdateSpool(p)

LEMMA GuestOnlyFrame ==
    ASSUME NEW p \in Procs, GuestOnly(p)
    PROVE  UNCHANGED <<req, storeVars, faults, deletes>>
  BY DEF GuestOnly, StartEnqueue, StartFlush, StartFlushPair, Start, EnqueueInsert,
         EnqueueConflict, SelectBatch, SelectNothing, UpdateSpool, budgetVars

\* A step is one of these.
LEMMA NextCases ==
    ASSUME Next
    PROVE  \/ \E p \in Procs : GuestOnly(p)
           \/ \E p \in Procs, r \in Requests : Send(p, r)
           \/ \E r \in Requests : Reject(r)
           \/ \E r \in Requests : Gate(r)
           \/ \E r \in Requests : Commit(r)
           \/ \E r \in Requests : (StaleSnapshot(r) \/ StoreError(r))
           \/ \E r \in Requests : Reply(r)
           \/ \E r \in Requests : Lose(r)
           \/ \E r \in Requests : (ClientTimeout(r) \/ HandlerTimeout(r))
           \/ Tick
           \/ \E p \in Procs : ProcCrash(p)
           \/ CollectorCrash
           \/ \E h \in Hosts : HostWrite(h)
           \/ \E m \in memories : DeleteMemory(m)
  <1>1. ASSUME NEW p \in Procs, Command(p) PROVE GuestOnly(p)
    BY <1>1 DEF Command, GuestOnly
  <1> QED
    BY <1>1 DEF Next, GuestStep, GuestOnly, CollectorStep, Environment

-----------------------------------------------------------------------------
(* The stores.                                                             *)

\* The store invariants survive a step that writes no store and lets no
\* request pass the gate.
LEMMA StoreFrame ==
    ASSUME TypeOK, GateInv, StoreInv,
           UNCHANGED <<memories, receipts, lastId>>,
           \A r \in Requests : req'[r].st = "gated" =>
             /\ req[r].st = "gated"
             /\ req'[r].ev = req[r].ev
             /\ req'[r].token = req[r].token
             /\ ~req'[r].stale => ~req[r].stale
    PROVE  GateInv' /\ StoreInv'
  <1>1. GateInv'
    BY DEF GateInv, Authorized
  <1>2. \A r \in Requests : req'[r].st = "gated" /\ ~req'[r].stale => ReceiptsOf(r)' = {}
    BY DEF StoreInv, ReceiptsOf, Store
  <1> QED
    BY <1>1, <1>2 DEF StoreInv, ReceiptsMatchMemories

\* Every step keeps the stores consistent.
LEMMA NextStore ==
    TypeOK /\ GateInv /\ StoreInv /\ [Next]_vars => GateInv' /\ StoreInv'
  <1> SUFFICES ASSUME TypeOK, GateInv, StoreInv, [Next]_vars
               PROVE  GateInv' /\ StoreInv'
    OBVIOUS
  <1>1. ASSUME NEW p \in Procs, GuestOnly(p) PROVE GateInv' /\ StoreInv'
    BY <1>1, GuestOnlyFrame, StoreFrame DEF storeVars
  <1>2. ASSUME NEW p \in Procs, NEW r \in Requests, Send(p, r) PROVE GateInv' /\ StoreInv'
    BY <1>2, StoreFrame DEF Send, storeVars, TypeOK
  <1>3. ASSUME NEW r \in Requests, Reject(r) PROVE GateInv' /\ StoreInv'
    BY <1>3, StoreFrame DEF Reject, storeVars, TypeOK, Request
  <1>4. ASSUME NEW r \in Requests, Gate(r) PROVE GateInv' /\ StoreInv'
    <2>1. UNCHANGED <<memories, receipts, lastId>>
      BY <1>4 DEF Gate, storeVars
    <2>2. /\ \A s \in Requests \ {r} : req'[s] = req[s]
          /\ req'[r].ev = req[r].ev
          /\ req'[r].token = req[r].token
          /\ req'[r].st = "gated" => ReceiptsOf(r) = {}
      BY <1>4 DEF Gate, TypeOK, Request
    <2>3. Authorized(r)
      BY <1>4 DEF Gate
    <2>4. GateInv'
      BY <2>2, <2>3 DEF GateInv, Authorized
    <2>5. \A s \in Requests : req'[s].st = "gated" /\ ~req'[s].stale => ReceiptsOf(s)' = {}
      BY <2>1, <2>2 DEF StoreInv, ReceiptsOf, Store
    <2> QED
      BY <2>1, <2>4, <2>5 DEF StoreInv, ReceiptsMatchMemories
  <1>5. ASSUME NEW r \in Requests, Commit(r) PROVE GateInv' /\ StoreInv'
    <2> DEFINE h == Store(r)
               id == lastId[h] + 1
               new == [host |-> h, id |-> id, ev |-> req[r].ev]
               receipt == [host |-> h, key |-> Key(req[r].ev), memory_id |-> id]
    <2>1. /\ h \in Hosts
          /\ h = HostOf[req[r].ev.pair]
          /\ ReceiptsOf(r) = {}
      BY <1>5, StoreType DEF Commit, GateInv, StoreInv
    <2>2. /\ memories' = memories \union {new}
          /\ receipts' = receipts \union {receipt}
          /\ lastId' = [lastId EXCEPT ![h] = id]
      BY <1>5 DEF Commit
    <2>3. \A s \in Requests :
            /\ req'[s].ev = req[s].ev /\ req'[s].token = req[s].token
            /\ req'[s].st = "gated" => req[s].st = "gated" /\ s # r
            /\ req'[s].st = "gated" /\ ~req'[s].stale => ~req[s].stale /\ Store(s) # h
      <3>1. \A s \in Requests : req[s] \in Request
        BY DEF TypeOK
      <3> QED
        BY <1>5, <3>1 DEF Commit, Overtaken, Request
    <2>4. GateInv'
      BY <2>3 DEF GateInv, Authorized
    <2>5. id \in Nat /\ lastId[h] \in Nat /\ lastId[h] < id
      BY <2>1 DEF TypeOK
    <2>6. \A m \in memories : m.host = h => m.id < id
      BY <2>5 DEF StoreInv, TypeOK, Memory
    <2>7. \A c \in receipts : c.host = h => c.memory_id < id /\ c.key # Key(req[r].ev)
      BY <2>1, <2>6 DEF StoreInv, ReceiptsMatchMemories, ReceiptsOf
    <2>8. \A m \in memories' : m.id <= lastId'[m.host] /\ m.host = HostOf[m.ev.pair]
      BY <2>1, <2>2, <2>5, <2>6 DEF StoreInv, TypeOK, Memory
    <2>9. \A m, n \in memories' : m.host = n.host /\ m.id = n.id => m = n
      BY <2>2, <2>6 DEF StoreInv, TypeOK, Memory
    <2>10. ReceiptsMatchMemories'
      <3>1. new.host = h /\ new.id = id /\ new.ev = req[r].ev
        OBVIOUS
      <3>2. receipt.host = h /\ receipt.memory_id = id /\ receipt.key = Key(req[r].ev)
        OBVIOUS
      <3>3. ASSUME NEW m \in memories'
            PROVE  [host |-> m.host, key |-> Key(m.ev), memory_id |-> m.id] \in receipts'
        BY <2>2, <3>1 DEF StoreInv, ReceiptsMatchMemories
      <3>4. ASSUME NEW c \in receipts'
            PROVE  \E m \in memories' :
                     m.host = c.host /\ m.id = c.memory_id /\ Key(m.ev) = c.key
        <4> HIDE DEF new, receipt
        <4>1. CASE c \in receipts
          BY <2>2, <4>1 DEF StoreInv, ReceiptsMatchMemories
        <4>2. CASE c = receipt
          BY <2>2, <3>1, <3>2, <4>2
        <4> QED
          BY <2>2, <4>1, <4>2
      <3> QED
        BY <3>3, <3>4 DEF ReceiptsMatchMemories
    <2>11. \A c, d \in receipts' :
             c.host = d.host /\ (c.key = d.key \/ c.memory_id = d.memory_id) => c = d
      BY <2>2, <2>7, <2>5 DEF StoreInv, TypeOK, Receipt
    <2>12. \A s \in Requests : req'[s].st = "gated" /\ ~req'[s].stale => ReceiptsOf(s)' = {}
      BY <2>2, <2>3 DEF StoreInv, ReceiptsOf, Store
    <2> QED
      BY <2>4, <2>8, <2>9, <2>10, <2>11, <2>12 DEF StoreInv
  <1>6. ASSUME NEW r \in Requests, StaleSnapshot(r) \/ StoreError(r)
        PROVE  GateInv' /\ StoreInv'
    <2>1. Fallback(r)
      BY <1>6 DEF StaleSnapshot, StoreError
    <2> QED
      BY <2>1, StoreFrame DEF Fallback, storeVars, TypeOK, Request
  <1>7. ASSUME NEW r \in Requests, Reply(r) PROVE GateInv' /\ StoreInv'
    BY <1>7, StoreFrame DEF Reply, storeVars, FreeSlot, TypeOK
  <1>8. ASSUME NEW r \in Requests, Lose(r) PROVE GateInv' /\ StoreInv'
    BY <1>8, StoreFrame DEF Lose, storeVars, FreeSlot, TypeOK
  <1>9. ASSUME NEW r \in Requests, ClientTimeout(r) \/ HandlerTimeout(r)
        PROVE  GateInv' /\ StoreInv'
    <2>1. /\ req' = [req EXCEPT ![r].client = NoProc]
          /\ UNCHANGED storeVars
      BY <1>9 DEF ClientTimeout, HandlerTimeout
    <2> QED
      BY <2>1, StoreFrame DEF storeVars, TypeOK, Request
  <1>10. ASSUME Tick PROVE GateInv' /\ StoreInv'
    BY <1>10, StoreFrame DEF Tick, storeVars
  <1>11. ASSUME NEW p \in Procs, ProcCrash(p) PROVE GateInv' /\ StoreInv'
    BY <1>11, StoreFrame DEF ProcCrash, storeVars, TypeOK, Request
  <1>12. ASSUME CollectorCrash PROVE GateInv' /\ StoreInv'
    BY <1>12, StoreFrame DEF CollectorCrash, storeVars, FreeSlot
  <1>13. ASSUME NEW h \in Hosts, HostWrite(h) PROVE GateInv' /\ StoreInv'
    BY <1>13, StoreFrame DEF HostWrite, storeVars, TypeOK, Request
  <1>14. ASSUME NEW m \in memories, DeleteMemory(m) PROVE GateInv' /\ StoreInv'
    <2>1. /\ memories' = memories \ {m}
          /\ receipts' = {c \in receipts : ~(c.host = m.host /\ c.memory_id = m.id)}
          /\ lastId' = lastId
      BY <1>14 DEF DeleteMemory
    <2>2. \A s \in Requests :
            /\ req'[s].ev = req[s].ev /\ req'[s].token = req[s].token
            /\ req'[s].st = req[s].st
            /\ ~req'[s].stale => ~req[s].stale
      <3>1. \A s \in Requests : req[s] \in Request
        BY DEF TypeOK
      <3> QED
        BY <1>14, <3>1 DEF DeleteMemory, Request
    <2>3. GateInv'
      BY <2>2 DEF GateInv, Authorized
    <2>4. \A s \in Requests : req'[s].st = "gated" /\ ~req'[s].stale => ReceiptsOf(s)' = {}
      BY <2>1, <2>2 DEF StoreInv, ReceiptsOf, Store
    <2>5. ReceiptsMatchMemories'
      BY <2>1 DEF StoreInv, ReceiptsMatchMemories
    <2> QED
      BY <2>1, <2>3, <2>4, <2>5 DEF StoreInv
  <1>15. CASE UNCHANGED vars
    BY <1>15, StoreFrame DEF vars, storeVars
  <1> QED
    BY <1>1, <1>2, <1>3, <1>4, <1>5, <1>6, <1>7, <1>8, <1>9, <1>10, <1>11, <1>12, <1>13,
       <1>14, <1>15, NextCases

-----------------------------------------------------------------------------
(* Who waits for what.                                                     *)

\* AwaitInv survives a step that gives no request a new client and leaves
\* the clients that still wait alone.
LEMMA AwaitFrame ==
    ASSUME TypeOK, AwaitInv,
           \A r \in Requests : req'[r].client # NoProc =>
             /\ req'[r].client = req[r].client
             /\ req'[r].ev = req[r].ev
             /\ req'[r].st # "free"
             /\ pc'[req[r].client] = "wait"
             /\ current'[req[r].client] = current[req[r].client]
    PROVE  AwaitInv'
  BY DEF AwaitInv

LEMMA NextAwait == TypeOK /\ AwaitInv /\ [Next]_vars => AwaitInv'
  <1> SUFFICES ASSUME TypeOK, AwaitInv, [Next]_vars PROVE AwaitInv'
    OBVIOUS
  <1>0. \A r \in Requests : req[r] \in Request
    BY DEF TypeOK
  <1>1. ASSUME NEW p \in Procs, GuestOnly(p) PROVE AwaitInv'
    <2>1. pc[p] # "wait"
      BY <1>1 DEF GuestOnly, StartEnqueue, StartFlush, StartFlushPair, Start, EnqueueInsert,
         EnqueueConflict, SelectBatch, SelectNothing, UpdateSpool
    <2>2. \A q \in Procs \ {p} : pc'[q] = pc[q] /\ current'[q] = current[q]
      BY <1>1 DEF GuestOnly, StartEnqueue, StartFlush, StartFlushPair, Start, EnqueueInsert,
         EnqueueConflict, SelectBatch, SelectNothing, UpdateSpool, Exit, TypeOK
    <2>3. UNCHANGED req
      BY <1>1, GuestOnlyFrame
    <2> QED
      BY <1>0, <2>1, <2>2, <2>3, AwaitFrame DEF AwaitInv, Request
  <1>2. ASSUME NEW p \in Procs, NEW r \in Requests, Send(p, r) PROVE AwaitInv'
    <2>1. PICK item \in batch[p] :
             /\ current' = [current EXCEPT ![p] = item]
             /\ req' = [req EXCEPT ![r] = [st |-> "sent", ev |-> item.ev, token |-> token[p],
                                           client |-> p, stale |-> FALSE]]
      BY <1>2 DEF Send
    <2>2. /\ pc[p] = "send"
          /\ pc' = [pc EXCEPT ![p] = "wait"]
      BY <1>2 DEF Send
    <2>3. \A s \in Requests : req[s].client # p
      BY <2>2 DEF AwaitInv
    <2>4. \A s \in Requests \ {r} : req'[s] = req[s]
      BY <2>1 DEF TypeOK
    <2>5. req'[r].client = p /\ req'[r].st = "sent" /\ req'[r].ev = item.ev
      BY <2>1 DEF TypeOK
    <2>6. /\ pc'[p] = "wait"
          /\ current'[p] = item
          /\ \A q \in Procs \ {p} : pc'[q] = pc[q] /\ current'[q] = current[q]
      BY <2>1, <2>2 DEF TypeOK
    <2> QED
      BY <1>0, <2>3, <2>4, <2>5, <2>6 DEF AwaitInv, Request
  <1>3. ASSUME NEW r \in Requests, Reject(r) \/ Gate(r) \/ Commit(r)
                                   \/ StaleSnapshot(r) \/ StoreError(r)
        PROVE  AwaitInv'
    <2>1. UNCHANGED <<pc, current>>
      BY <1>3 DEF Reject, Gate, Commit, StaleSnapshot, StoreError, Fallback, guestVars
    <2>2. \A s \in Requests :
            /\ req'[s].client = req[s].client
            /\ req'[s].ev = req[s].ev
            /\ req[s].st # "free" => req'[s].st # "free"
      <3>1. CASE Reject(r) \/ Gate(r)
        <4>1. PICK st \in {"acked", "gated", "failed"} : req' = [req EXCEPT ![r].st = st]
          BY <3>1 DEF Reject, Gate
        <4> QED
          BY <1>0, <4>1 DEF Request, TypeOK
      <3>2. CASE Commit(r)
        BY <1>0, <3>2 DEF Commit, Request
      <3>3. CASE Fallback(r)
        BY <1>0, <3>3 DEF Fallback, Request, TypeOK
      <3> QED
        BY <1>3, <3>1, <3>2, <3>3 DEF StaleSnapshot, StoreError
    <2> QED
      BY <2>1, <2>2, AwaitFrame DEF AwaitInv
  <1>4. ASSUME NEW r \in Requests, NEW b \in BOOLEAN, Outcome(r, b),
               UNCHANGED current,
               \/ req' = [req EXCEPT ![r] = FreeSlot]
               \/ req' = [req EXCEPT ![r].client = NoProc]
        PROVE  AwaitInv'
    <2>1. /\ req'[r].client = NoProc
          /\ \A s \in Requests \ {r} : req'[s] = req[s]
      BY <1>0, <1>4 DEF TypeOK, FreeSlot, Request
    <2>2. \A q \in Procs : q # req[r].client => pc'[q] = pc[q]
      BY <1>4 DEF Outcome, TypeOK
    <2>3. \A s \in Requests \ {r} : req[s].client # NoProc => req[s].client # req[r].client
      BY DEF AwaitInv
    <2> QED
      BY <1>0, <1>4, <2>1, <2>2, <2>3, AwaitFrame DEF AwaitInv, Request
  <1>5. ASSUME Tick PROVE AwaitInv'
    BY <1>5, AwaitFrame DEF Tick, AwaitInv
  <1>6. ASSUME NEW p \in Procs, ProcCrash(p) PROVE AwaitInv'
    <2>1. \A s \in Requests : req'[s].client # NoProc => req'[s] = req[s] /\ req[s].client # p
      BY <1>0, <1>6 DEF ProcCrash, Request
    <2>2. \A q \in Procs \ {p} : pc'[q] = pc[q] /\ current'[q] = current[q]
      BY <1>6 DEF ProcCrash, Exit, TypeOK
    <2> QED
      BY <1>0, <2>1, <2>2, AwaitFrame DEF AwaitInv, Request
  <1>7. ASSUME CollectorCrash PROVE AwaitInv'
    BY <1>7, AwaitFrame DEF CollectorCrash, FreeSlot
  <1>8. ASSUME NEW h \in Hosts, HostWrite(h) PROVE AwaitInv'
    BY <1>0, <1>8, AwaitFrame DEF HostWrite, AwaitInv, Request, guestVars
  <1>9. ASSUME NEW m \in memories, DeleteMemory(m) PROVE AwaitInv'
    BY <1>0, <1>9, AwaitFrame DEF DeleteMemory, AwaitInv, Request, guestVars
  <1>10. CASE UNCHANGED vars
    BY <1>10, AwaitFrame DEF vars, guestVars, AwaitInv
  <1>11. ASSUME NEW r \in Requests, Reply(r) PROVE AwaitInv'
    BY <1>4, <1>11 DEF Reply
  <1>12. ASSUME NEW r \in Requests, Lose(r) \/ ClientTimeout(r) \/ HandlerTimeout(r)
         PROVE  AwaitInv'
    BY <1>4, <1>12 DEF Lose, ClientTimeout, HandlerTimeout
  <1> QED
    BY <1>1, <1>2, <1>3, <1>5, <1>6, <1>7, <1>8, <1>9, <1>10, <1>11, <1>12, NextCases

-----------------------------------------------------------------------------
(* Acknowledgements.                                                       *)

\* AckInv survives a step that acknowledges nothing new.
LEMMA AckFrame ==
    ASSUME AckInv, stored \subseteq stored', receipts' \subseteq receipts,
           \A r \in Requests : req'[r].st = "acked" =>
             req[r].st = "acked" /\ req'[r].ev = req[r].ev,
           \A p \in Procs : pc'[p] = "update" /\ ok'[p] =>
             pc[p] = "update" /\ ok[p] /\ current'[p] = current[p]
    PROVE  AckInv'
  BY DEF AckInv

LEMMA NextAck == TypeOK /\ AwaitInv /\ AckInv /\ [Next]_vars => AckInv'
  <1> SUFFICES ASSUME TypeOK, AwaitInv, AckInv, [Next]_vars PROVE AckInv'
    OBVIOUS
  <1>0. \A r \in Requests : req[r] \in Request
    BY DEF TypeOK
  <1>1. ASSUME NEW p \in Procs, GuestOnly(p) PROVE AckInv'
    <2>1. \A q \in Procs : pc'[q] = "update" =>
            pc[q] = "update" /\ ok'[q] = ok[q] /\ current'[q] = current[q]
      BY <1>1 DEF GuestOnly, StartEnqueue, StartFlush, StartFlushPair, Start, EnqueueInsert,
         EnqueueConflict, SelectBatch, SelectNothing, UpdateSpool, Exit, TypeOK
    <2> QED
      BY <1>1, <2>1, GuestOnlyFrame, AckFrame DEF storeVars
  <1>2. ASSUME NEW p \in Procs, NEW r \in Requests, Send(p, r) PROVE AckInv'
    <2>1. \A q \in Procs : pc'[q] = "update" =>
            pc[q] = "update" /\ ok'[q] = ok[q] /\ current'[q] = current[q]
      BY <1>2 DEF Send, TypeOK
    <2>2. \A s \in Requests : req'[s].st = "acked" =>
            req[s].st = "acked" /\ req'[s].ev = req[s].ev
      BY <1>2 DEF Send, TypeOK
    <2> QED
      BY <1>2, <2>1, <2>2, AckFrame DEF Send, storeVars
  <1>3. ASSUME NEW r \in Requests, Reject(r) PROVE AckInv'
    BY <1>0, <1>3, AckFrame DEF Reject, storeVars, guestVars, TypeOK, Request
  <1>4. ASSUME NEW r \in Requests, Gate(r) \/ Fallback(r) PROVE AckInv'
    <2>1. req'[r].st = "acked" => Key(req[r].ev) \in stored
      <3>1. req'[r].st = "acked" => ReceiptsOf(r) # {}
        BY <1>0, <1>4 DEF Gate, Fallback, TypeOK, Request
      <3> QED
        BY <3>1 DEF ReceiptsOf, AckInv
    <2>2. /\ req'[r].ev = req[r].ev
          /\ \A s \in Requests \ {r} : req'[s] = req[s]
      BY <1>0, <1>4 DEF Gate, Fallback, TypeOK, Request
    <2>3. UNCHANGED <<pc, ok, current, stored, receipts>>
      BY <1>4 DEF Gate, Fallback, guestVars, storeVars
    <2> QED
      BY <2>1, <2>2, <2>3 DEF AckInv
  <1>5. ASSUME NEW r \in Requests, Commit(r) PROVE AckInv'
    <2> DEFINE k == Key(req[r].ev)
    <2>1. stored' = stored \union {k}
      BY <1>5 DEF Commit
    <2>2. \A c \in receipts' : c \in receipts \/ c.key = k
      BY <1>5 DEF Commit
    <2>3. \A s \in Requests : req'[s].st = "acked" =>
            req'[s].ev = req[s].ev /\ (req[s].st = "acked" \/ s = r)
      BY <1>0, <1>5 DEF Commit, Request
    <2>4. UNCHANGED <<pc, ok, current>>
      BY <1>5 DEF Commit, guestVars
    <2> QED
      BY <2>1, <2>2, <2>3, <2>4 DEF AckInv
  <1>6. ASSUME NEW r \in Requests, Reply(r) PROVE AckInv'
    <2> DEFINE p == req[r].client
    <2>1. \A s \in Requests : req'[s].st = "acked" => req'[s] = req[s]
      BY <1>0, <1>6 DEF Reply, FreeSlot, TypeOK
    <2>2. UNCHANGED <<current, stored, receipts>>
      BY <1>6 DEF Reply, storeVars
    <2>3. \A q \in Procs : q # p => pc'[q] = pc[q] /\ ok'[q] = ok[q]
      BY <1>6 DEF Reply, Outcome, TypeOK
    <2>4. p \in Procs => ok'[p] = (req[r].st = "acked")
      BY <1>6 DEF Reply, Outcome, TypeOK
    <2>5. p \in Procs /\ ok'[p] => Key(current[p].ev) \in stored
      <3> SUFFICES ASSUME p \in Procs, ok'[p] PROVE Key(current[p].ev) \in stored
        OBVIOUS
      <3>1. req[r].st = "acked"
        BY <2>4
      <3>2. req[r].ev = current[p].ev
        BY DEF AwaitInv
      <3> QED
        BY <3>1, <3>2 DEF AckInv
    <2> QED
      BY <2>1, <2>2, <2>3, <2>5 DEF AckInv
  <1>7. ASSUME NEW r \in Requests, Lose(r) \/ ClientTimeout(r) \/ HandlerTimeout(r)
        PROVE  AckInv'
    <2>1. Outcome(r, FALSE) /\ UNCHANGED <<current, storeVars>>
      BY <1>7 DEF Lose, ClientTimeout, HandlerTimeout
    <2>2. \A q \in Procs : ok'[q] => pc'[q] = pc[q] /\ ok'[q] = ok[q]
      BY <2>1 DEF Outcome, TypeOK
    <2>3. \A s \in Requests : req'[s].st = "acked" =>
            req[s].st = "acked" /\ req'[s].ev = req[s].ev
      <3>1. CASE req' = [req EXCEPT ![r] = FreeSlot]
        BY <3>1 DEF FreeSlot, TypeOK
      <3>2. CASE req' = [req EXCEPT ![r].client = NoProc]
        BY <1>0, <3>2 DEF TypeOK, Request
      <3> QED
        BY <1>7, <3>1, <3>2 DEF Lose, ClientTimeout, HandlerTimeout
    <2> QED
      BY <2>1, <2>2, <2>3, AckFrame DEF storeVars
  <1>8. ASSUME Tick PROVE AckInv'
    BY <1>8, AckFrame DEF Tick, storeVars
  <1>9. ASSUME NEW p \in Procs, ProcCrash(p) PROVE AckInv'
    <2>1. \A q \in Procs : pc'[q] = "update" =>
            pc[q] = "update" /\ ok'[q] = ok[q] /\ current'[q] = current[q]
      BY <1>9 DEF ProcCrash, Exit, TypeOK
    <2>2. \A s \in Requests : req'[s].st = req[s].st /\ req'[s].ev = req[s].ev
      BY <1>0, <1>9 DEF ProcCrash, Request
    <2> QED
      BY <1>9, <2>1, <2>2, AckFrame DEF ProcCrash, storeVars
  <1>10. ASSUME CollectorCrash PROVE AckInv'
    <2>1. \A q \in Procs : ok'[q] => pc'[q] = pc[q] /\ ok'[q] = ok[q]
      BY <1>10 DEF CollectorCrash, TypeOK
    <2> QED
      BY <1>10, <2>1, AckFrame DEF CollectorCrash, FreeSlot, storeVars
  <1>11. ASSUME NEW h \in Hosts, HostWrite(h) PROVE AckInv'
    BY <1>0, <1>11, AckFrame DEF HostWrite, Request, guestVars, storeVars
  <1>12. ASSUME NEW m \in memories, DeleteMemory(m) PROVE AckInv'
    BY <1>0, <1>12, AckFrame DEF DeleteMemory, Request, guestVars
  <1>13. CASE UNCHANGED vars
    BY <1>13, AckFrame DEF vars, guestVars, storeVars
  <1>14. ASSUME NEW r \in Requests, StaleSnapshot(r) \/ StoreError(r) PROVE AckInv'
    BY <1>4, <1>14 DEF StaleSnapshot, StoreError
  <1> QED
    BY <1>1, <1>2, <1>3, <1>4, <1>5, <1>6, <1>7, <1>8, <1>9, <1>10, <1>11, <1>12, <1>13,
       <1>14, NextCases

-----------------------------------------------------------------------------
(* Nothing is forwarded that the spool did not accept, and nothing accepted *)
(* is dropped before it is stored.                                          *)

\* Only a successful delivery takes a key out of the spool, and with ids that
\* name one pair it is the key that was delivered.
LEMMA UpdateKeys ==
    ASSUME TypeOK, UniqueIds, NEW p \in Procs, UpdateSpool(p)
    PROVE  IF ok[p] THEN Queued' = Queued \ {Key(current[p].ev)} ELSE Queued' = Queued
  <1> DEFINE item == current[p]
             id == item.ev.id
  <1>0. item \in Pending /\ item.ev \in Events /\ \A x \in spool : x \in Row /\ x.ev \in Events
    BY DEF TypeOK, Pending, Row
  <1>1. CASE ok[p]
    <2> DEFINE upd(x) == [x EXCEPT !.after = @ \ {id}]
               kept == {y \in spool : y.ev.id # id}
    <2>1. spool' = {upd(x) : x \in kept}
      BY <1>1 DEF UpdateSpool, Delivered
    <2>2. \A x \in kept : upd(x).ev = x.ev
      BY <1>0 DEF Row
    <2>3. \A x \in spool : x.ev.id = id => Key(x.ev) = Key(item.ev)
      BY <1>0 DEF UniqueIds, Key
    <2>4. \A x \in spool : x.ev.id # id => Key(x.ev) # Key(item.ev)
      BY DEF Key
    <2>5. Queued' = {Key(x.ev) : x \in kept}
      <3> HIDE DEF upd, kept
      <3> QED
        BY <2>1, <2>2 DEF Queued
    <2> QED
      BY <1>1, <2>3, <2>4, <2>5 DEF Queued
  <1>2. CASE ~ok[p]
    <2> DEFINE n == OneMore(item)
               upd(x) == [x EXCEPT !.attempts = n, !.wait = retry_delay(n)]
    <2>1. spool' = {IF x.ev.id = id THEN upd(x) ELSE x : x \in spool}
      BY <1>2 DEF UpdateSpool, Retried
    <2>2. \A x \in spool : upd(x).ev = x.ev
      BY <1>0 DEF Row
    <2> HIDE DEF upd
    <2>3. \A x \in spool : (IF x.ev.id = id THEN upd(x) ELSE x).ev = x.ev
      BY <2>2
    <2> QED
      BY <1>2, <2>1, <2>3 DEF Queued
  <1> QED
    BY <1>1, <1>2

LEMMA TickKeys == ASSUME TypeOK, Tick PROVE Queued' = Queued
  <1> DEFINE upd(x) == [x EXCEPT !.wait = IF @ > 0 THEN @ - 1 ELSE 0]
  <1>1. \A x \in spool : upd(x).ev = x.ev
    BY DEF TypeOK, Row
  <1>2. spool' = {upd(x) : x \in spool}
    BY DEF Tick
  <1> HIDE DEF upd
  <1> QED
    BY <1>1, <1>2 DEF Queued

LEMMA InsertKeys ==
    ASSUME TypeOK, NEW p \in Procs, EnqueueInsert(p)
    PROVE  /\ Queued' = Queued \union {Key(event[p])}
           /\ accepted' = accepted \union {Key(event[p])}
  <1> DEFINE new == [ev |-> event[p], after |-> {r.ev.id : r \in spool},
                     attempts |-> 0, wait |-> 0]
  <1>1. spool' = spool \union {new} /\ accepted' = accepted \union {Key(event[p])}
    BY DEF EnqueueInsert
  <1>2. new.ev = event[p]
    OBVIOUS
  <1> HIDE DEF new
  <1> QED
    BY <1>1, <1>2 DEF Queued

\* How a step may change the spool's keys.
LEMMA NextKeys ==
    ASSUME TypeOK, UniqueIds, [Next]_vars
    PROVE  \/ /\ UNCHANGED <<accepted, Queued>>
           \/ /\ UNCHANGED <<accepted, stored>>
              /\ \E p \in Procs : /\ pc[p] = "update"
                                  /\ ok[p]
                                  /\ Queued' = Queued \ {Key(current[p].ev)}
                                  /\ UpdateSpool(p)
           \/ /\ UNCHANGED stored
              /\ \E p \in Procs : /\ Queued' = Queued \union {Key(event[p])}
                                  /\ accepted' = accepted \union {Key(event[p])}
                                  /\ EnqueueInsert(p)
  <1>1. ASSUME NEW p \in Procs, EnqueueInsert(p)
        PROVE  /\ UNCHANGED stored
               /\ Queued' = Queued \union {Key(event[p])}
               /\ accepted' = accepted \union {Key(event[p])}
    BY <1>1, InsertKeys DEF EnqueueInsert, storeVars
  <1>2. ASSUME NEW p \in Procs, UpdateSpool(p)
        PROVE  /\ UNCHANGED <<accepted, stored>>
               /\ pc[p] = "update"
               /\ IF ok[p] THEN Queued' = Queued \ {Key(current[p].ev)} ELSE Queued' = Queued
    BY <1>2, UpdateKeys DEF UpdateSpool, storeVars
  <1>3. ASSUME Tick PROVE UNCHANGED <<accepted, Queued>>
    BY <1>3, TickKeys DEF Tick
  <1>4. ASSUME NEW p \in Procs, GuestOnly(p), ~EnqueueInsert(p), ~UpdateSpool(p)
        PROVE  UNCHANGED <<accepted, spool>>
    BY <1>4 DEF GuestOnly, StartEnqueue, StartFlush, StartFlushPair, Start,
       EnqueueConflict, SelectBatch, SelectNothing
  <1>5. ASSUME NEW r \in Requests, \/ Reject(r) \/ Gate(r) \/ Commit(r)
                                   \/ StaleSnapshot(r) \/ StoreError(r)
        PROVE  UNCHANGED <<accepted, spool>>
    BY <1>5 DEF Reject, Gate, Commit, StaleSnapshot, StoreError, Fallback, guestVars
  <1>6. ASSUME NEW r \in Requests, Reply(r) \/ Lose(r) \/ ClientTimeout(r) \/ HandlerTimeout(r)
        PROVE  UNCHANGED <<accepted, spool>>
    BY <1>6 DEF Reply, Lose, ClientTimeout, HandlerTimeout
  <1>7. ASSUME \/ \E p \in Procs, r \in Requests : Send(p, r)
               \/ \E p \in Procs : ProcCrash(p)
               \/ CollectorCrash
               \/ \E h \in Hosts : HostWrite(h)
               \/ \E m \in memories : DeleteMemory(m)
               \/ UNCHANGED vars
        PROVE  UNCHANGED <<accepted, spool>>
    BY <1>7 DEF Send, ProcCrash, CollectorCrash, HostWrite, DeleteMemory, vars, guestVars
  <1>8. UNCHANGED spool => UNCHANGED Queued
    BY DEF Queued
  <1>9. CASE \E p \in Procs : GuestOnly(p)
    BY <1>1, <1>2, <1>4, <1>8, <1>9
  <1> QED
    BY <1>3, <1>5, <1>6, <1>7, <1>8, <1>9, NextCases

LEMMA NextOrigin ==
    ASSUME TypeOK, UniqueIds, OriginInv, [Next]_vars PROVE OriginInv'
  <1>0. \A r \in Requests : req[r] \in Request
    BY DEF TypeOK
  <1>1. Queued' \subseteq accepted' /\ accepted \subseteq accepted'
    BY NextKeys DEF OriginInv
  <1>2. SUFFICES
          /\ \A q \in Procs : \A x \in batch'[q] : Key(x.ev) \in accepted
          /\ \A s \in Requests : req'[s].st # "free" => Key(req'[s].ev) \in accepted
    BY <1>1 DEF OriginInv
  <1> DEFINE Goal ==
          /\ \A q \in Procs : \A x \in batch'[q] : Key(x.ev) \in accepted
          /\ \A s \in Requests : req'[s].st # "free" => Key(req'[s].ev) \in accepted
  <1>3. ASSUME NEW p \in Procs, SelectBatch(p) PROVE Goal
    <2> DEFINE pend(x) == [ev |-> x.ev, after |-> x.after, attempts |-> x.attempts]
    <2>1. batch' = [batch EXCEPT ![p] = {pend(x) : x \in Selected(p)}] /\ UNCHANGED req
      BY <1>3 DEF SelectBatch
    <2>2. \A x \in Selected(p) : x \in spool
      BY DEF Selected, Selectable, TypeOK
    <2>3. \A x \in Selected(p) : pend(x).ev = x.ev
      OBVIOUS
    <2> HIDE DEF pend
    <2>4. \A x \in Selected(p) : Key(pend(x).ev) \in accepted
      BY <2>2, <2>3 DEF OriginInv, Queued
    <2>5. \A x \in batch'[p] : Key(x.ev) \in accepted
      BY <2>1, <2>4 DEF TypeOK
    <2>6. \A q \in Procs \ {p} : batch'[q] = batch[q]
      BY <2>1 DEF TypeOK
    <2> QED
      BY <2>1, <2>5, <2>6 DEF OriginInv
  <1>4. ASSUME NEW p \in Procs, GuestOnly(p), ~SelectBatch(p) PROVE Goal
    <2>1. \A q \in Procs : batch'[q] \subseteq batch[q]
      <3>1. CASE Exit(p)
        BY <3>1 DEF Exit, TypeOK
      <3>2. CASE batch' = [batch EXCEPT ![p] = @ \ {current[p]}]
        BY <3>2 DEF TypeOK
      <3>3. CASE UNCHANGED batch
        BY <3>3
      <3>4. Exit(p) \/ batch' = [batch EXCEPT ![p] = @ \ {current[p]}] \/ UNCHANGED batch
        BY <1>4 DEF GuestOnly, StartEnqueue, StartFlush, StartFlushPair, Start, EnqueueInsert,
           EnqueueConflict, SelectNothing, UpdateSpool
      <3> QED
        BY <3>1, <3>2, <3>3, <3>4
    <2> QED
      BY <1>4, <2>1, GuestOnlyFrame DEF OriginInv
  <1>5. ASSUME NEW p \in Procs, NEW r \in Requests, Send(p, r) PROVE Goal
    <2>1. PICK item \in batch[p] :
             req' = [req EXCEPT ![r] = [st |-> "sent", ev |-> item.ev, token |-> token[p],
                                        client |-> p, stale |-> FALSE]]
      BY <1>5 DEF Send
    <2>2. req'[r].ev = item.ev /\ \A s \in Requests \ {r} : req'[s] = req[s]
      BY <2>1 DEF TypeOK
    <2> QED
      BY <1>5, <2>2 DEF Send, OriginInv
  <1>6. ASSUME UNCHANGED batch \/ (\A q \in Procs : batch'[q] \subseteq batch[q]),
               \A s \in Requests : req'[s].st # "free" =>
                 req[s].st # "free" /\ req'[s].ev = req[s].ev
        PROVE  Goal
    BY <1>6 DEF OriginInv
  <1>7. ASSUME NEW r \in Requests,
               Reject(r) \/ Gate(r) \/ (Fallback(r) /\ req[r].st = "gated") \/ Commit(r)
        PROVE  Goal
    <2>1. UNCHANGED batch
      BY <1>7 DEF Reject, Gate, Fallback, Commit, guestVars
    <2>2. CASE Reject(r) \/ Gate(r)
      <3>1. \A s \in Requests : req'[s].st # "free" =>
              req[s].st # "free" /\ req'[s].ev = req[s].ev
        <4>1. PICK st \in {"acked", "gated", "failed"} : req' = [req EXCEPT ![r].st = st]
          BY <2>2 DEF Reject, Gate
        <4>2. req[r].st # "free"
          BY <2>2 DEF Reject, Gate
        <4> QED
          BY <1>0, <4>1, <4>2 DEF TypeOK, Request
      <3> QED
        BY <1>6, <2>1, <3>1
    <2>3. CASE Fallback(r) /\ req[r].st = "gated"
      BY <1>0, <1>6, <2>1, <2>3 DEF Fallback, TypeOK, Request
    <2>4. CASE Commit(r)
      BY <1>0, <1>6, <2>1, <2>4 DEF Commit, TypeOK, Request
    <2> QED
      BY <1>7, <2>2, <2>3, <2>4
  <1>8. ASSUME NEW r \in Requests,
               \/ Reply(r) \/ Lose(r) \/ ClientTimeout(r) \/ HandlerTimeout(r)
        PROVE  Goal
    <2>1. /\ UNCHANGED batch
          /\ \/ req' = [req EXCEPT ![r] = FreeSlot]
             \/ req' = [req EXCEPT ![r].client = NoProc]
      BY <1>8 DEF Reply, Lose, ClientTimeout, HandlerTimeout
    <2>2. CASE req' = [req EXCEPT ![r] = FreeSlot]
      BY <1>6, <2>1, <2>2 DEF FreeSlot, TypeOK
    <2>3. CASE req' = [req EXCEPT ![r].client = NoProc]
      BY <1>0, <1>6, <2>1, <2>3 DEF TypeOK, Request
    <2> QED
      BY <2>1, <2>2, <2>3
  <1>9. ASSUME Tick PROVE Goal
    BY <1>6, <1>9 DEF Tick
  <1>10. ASSUME NEW p \in Procs, ProcCrash(p) PROVE Goal
    <2>1. \A q \in Procs : batch'[q] \subseteq batch[q]
      BY <1>10 DEF ProcCrash, Exit, TypeOK
    <2>2. \A s \in Requests : req'[s].st = req[s].st /\ req'[s].ev = req[s].ev
      BY <1>0, <1>10 DEF ProcCrash, Request
    <2> QED
      BY <1>6, <2>1, <2>2
  <1>11. ASSUME CollectorCrash PROVE Goal
    BY <1>6, <1>11 DEF CollectorCrash, FreeSlot
  <1>12. ASSUME NEW h \in Hosts, HostWrite(h) PROVE Goal
    BY <1>0, <1>6, <1>12 DEF HostWrite, Request, guestVars
  <1>13. ASSUME NEW m \in memories, DeleteMemory(m) PROVE Goal
    BY <1>0, <1>6, <1>13 DEF DeleteMemory, Request, guestVars
  <1>14. CASE UNCHANGED vars
    BY <1>6, <1>14 DEF vars, guestVars
  <1> QED
    BY <1>3, <1>4, <1>5, <1>7, <1>8, <1>9, <1>10, <1>11, <1>12, <1>13, <1>14, NextCases
    DEF StaleSnapshot, StoreError

\* No step drops an accepted event that is not stored.
LEMMA NextNoLoss ==
    ASSUME TypeOK, UniqueIds, AckInv, NoAcceptedEventLost, [Next]_vars
    PROVE  NoAcceptedEventLost'
  <1>1. stored \subseteq stored'
    BY NextCases, GuestOnlyFrame
    DEF Send, Reject, Gate, Commit, StaleSnapshot, StoreError, Fallback, Reply, Lose,
        ClientTimeout, HandlerTimeout, Tick, ProcCrash, CollectorCrash, HostWrite,
        DeleteMemory, storeVars, vars
  <1> QED
    BY <1>1, NextKeys DEF NoAcceptedEventLost, AckInv

LEMMA InitInv == Init => IndInv
  BY InitType DEF Init, IndInv, GateInv, AwaitInv, AckInv, OriginInv, StoreInv,
     ReceiptsMatchMemories, NoAcceptedEventLost, Queued, FreeSlot

LEMMA NextInv == UniqueIds /\ IndInv /\ [Next]_vars => IndInv'
  BY NextType, NextStore, NextAwait, NextAck, NextOrigin, NextNoLoss DEF IndInv

-----------------------------------------------------------------------------
\* Type correctness of the state, for every value of the constants.
THEOREM TypeCorrect == Spec => []TypeOK
  <1>1. Init => GateInv /\ StoreInv
    BY DEF Init, GateInv, StoreInv, ReceiptsMatchMemories, FreeSlot
  <1> QED
    BY <1>1, InitType, NextType, NextStore, PTL DEF Spec

\* What the store invariant says of memories and receipts.
LEMMA StoreOnce ==
    TypeOK /\ StoreInv => ExactlyOnce /\ ReceiptsMatchMemories /\ OwnStoreOnly
  <1> SUFFICES ASSUME TypeOK, StoreInv
               PROVE  ExactlyOnce /\ ReceiptsMatchMemories /\ OwnStoreOnly
    OBVIOUS
  <1>1. OwnStoreOnly
    BY DEF StoreInv, OwnStoreOnly
  <1>2. ASSUME NEW m \in memories, NEW n \in memories, Key(m.ev) = Key(n.ev)
        PROVE  m = n
    <2> DEFINE rm == [host |-> m.host, key |-> Key(m.ev), memory_id |-> m.id]
               rn == [host |-> n.host, key |-> Key(n.ev), memory_id |-> n.id]
    <2>1. rm \in receipts /\ rn \in receipts
      BY DEF StoreInv, ReceiptsMatchMemories
    <2>2. m.ev.pair = n.ev.pair
      BY <1>2 DEF Key
    <2>3. m.host = n.host
      BY <1>1, <2>2 DEF OwnStoreOnly
    <2>4. rm = rn
      BY <1>2, <2>1, <2>3 DEF StoreInv
    <2> QED
      BY <2>3, <2>4 DEF StoreInv
  <1> QED
    BY <1>1, <1>2 DEF ExactlyOnce, StoreInv

\* The stores stay consistent and hold at most one live memory per event,
\* however deliveries are repeated and interleaved, and whichever ids and
\* tokens the guests use: memory and receipt come from one transaction that
\* SQLite refuses to a stale snapshot.
THEOREM OnceStored == Spec => [](ExactlyOnce /\ ReceiptsMatchMemories /\ OwnStoreOnly)
  <1>1. Init => GateInv /\ StoreInv
    BY DEF Init, GateInv, StoreInv, ReceiptsMatchMemories, FreeSlot
  <1> QED
    BY <1>1, StoreOnce, InitType, NextType, NextStore, PTL DEF Spec

\* ingest_forwarded leaves a receipt for every forwarded memory and a memory
\* for every receipt, whatever is deleted or delivered again.
THEOREM ReceiptsRight == Spec => []ReceiptsMatchMemories
  BY OnceStored, PTL

\* The collector stores an event in the project its guest is bound to, and
\* in no other, whatever tokens are presented.
THEOREM OwnStore == Spec => []OwnStoreOnly
  BY OnceStored, PTL

\* The inductive invariant holds in every reachable state, provided that an
\* event id names one pair.
THEOREM Invariance == ASSUME UniqueIds PROVE Spec => []IndInv
  <1>1. IndInv /\ [Next]_vars => IndInv'
    BY NextInv
  <1> QED
    BY <1>1, InitInv, PTL DEF Spec

\* An accepted event stays queued until the host has stored it, provided
\* that an event id names one pair: `delivered` deletes by id alone.
THEOREM NothingLost == ASSUME UniqueIds PROVE Spec => []NoAcceptedEventLost
  <1>1. IndInv => NoAcceptedEventLost
    BY DEF IndInv
  <1> QED
    BY <1>1, Invariance, PTL

-----------------------------------------------------------------------------
(* Refinement of the contract.                                             *)

\* A step that leaves keys, history and stores alone is a stuttering step.
LEMMA ContractStutter ==
    ASSUME UNCHANGED <<accepted, Queued, stored, memories>>
    PROVE  UNCHANGED Contract!vars
  BY DEF Contract!vars, Copies

\* Every step of forwarding is a step of the contract.
LEMMA NextContract ==
    ASSUME UniqueIds, IndInv, [Next]_vars PROVE [Contract!Next]_(Contract!vars)
  <1> USE DEF IndInv
  <1>1. ASSUME NEW r \in Requests, Commit(r) PROVE \E k \in Keys : Contract!Ingest(k)
    <2> DEFINE k == Key(req[r].ev)
               h == Store(r)
               new == [host |-> h, id |-> lastId[h] + 1, ev |-> req[r].ev]
    <2>1. k \in Keys /\ k \in accepted
      BY <1>1, KeyType DEF Commit, TypeOK, Request, OriginInv
    <2>2. \A n \in memories : Key(n.ev) # k
      <3> SUFFICES ASSUME NEW n \in memories, Key(n.ev) = k PROVE FALSE
        OBVIOUS
      <3>1. h = HostOf[req[r].ev.pair] /\ ReceiptsOf(r) = {}
        BY <1>1, StoreType DEF Commit, GateInv, StoreInv
      <3>2. n.host = h
        BY <3>1 DEF StoreInv, Key
      <3>3. [host |-> n.host, key |-> Key(n.ev), memory_id |-> n.id] \in receipts
        BY DEF StoreInv, ReceiptsMatchMemories
      <3> QED
        BY <3>1, <3>2, <3>3 DEF ReceiptsOf
    <2>3. memories' = memories \union {new} /\ stored' = stored \union {k}
      BY <1>1 DEF Commit
    <2>4. new.ev = req[r].ev
      OBVIOUS
    <2> HIDE DEF new
    <2>5. \A j \in Keys : Copies(j)' = IF j = k THEN {<<new.host, new.id>>} ELSE Copies(j)
      BY <2>2, <2>3, <2>4 DEF Copies
    <2>6. Copies(k) = {}
      BY <2>2 DEF Copies
    <2>7. UNCHANGED <<accepted, Queued>>
      BY <1>1 DEF Commit, guestVars, Queued
    <2> QED
      BY <2>1, <2>3, <2>5, <2>6, <2>7 DEF Contract!Ingest
  <1>2. ASSUME NEW m \in memories, DeleteMemory(m) PROVE \E k \in Keys : Contract!Purge(k)
    <2> DEFINE k == Key(m.ev)
    <2>1. k \in Keys
      BY KeyType DEF TypeOK, Memory
    <2>2. \A n \in memories : Key(n.ev) = k => n = m
      BY StoreOnce DEF ExactlyOnce
    <2>3. \A j \in Keys : Copies(j)' = IF j = k THEN {} ELSE Copies(j)
      BY <1>2, <2>2 DEF DeleteMemory, Copies
    <2>4. UNCHANGED <<accepted, Queued, stored>>
      BY <1>2 DEF DeleteMemory, guestVars, Queued
    <2> QED
      BY <2>1, <2>3, <2>4 DEF Contract!Purge
  <1>3. ASSUME NEW p \in Procs, UpdateSpool(p), pc[p] = "update", ok[p],
               Queued' = Queued \ {Key(current[p].ev)}
        PROVE  \E k \in Keys : Contract!Forget(k)
    <2> DEFINE k == Key(current[p].ev)
    <2>1. k \in Keys /\ k \in stored
      BY <1>3, KeyType DEF TypeOK, Pending, AckInv
    <2>2. UNCHANGED <<accepted, stored, memories>>
      BY <1>3 DEF UpdateSpool, storeVars
    <2> QED
      BY <1>3, <2>1, <2>2 DEF Contract!Forget, Copies
  <1>4. ASSUME NEW p \in Procs, EnqueueInsert(p),
               Queued' = Queued \union {Key(event[p])},
               accepted' = accepted \union {Key(event[p])}
        PROVE  \E k \in Keys : Contract!Accept(k)
    <2>1. Key(event[p]) \in Keys
      BY KeyType DEF TypeOK
    <2>2. UNCHANGED <<stored, memories>>
      BY <1>4 DEF EnqueueInsert, storeVars
    <2> QED
      BY <1>4, <2>1, <2>2 DEF Contract!Accept, Copies
  <1>5. ASSUME ~(\E r \in Requests : Commit(r)), ~(\E m \in memories : DeleteMemory(m))
        PROVE  UNCHANGED <<stored, memories>>
    BY <1>5, NextCases, GuestOnlyFrame
    DEF Send, Reject, Gate, StaleSnapshot, StoreError, Fallback, Reply, Lose,
        ClientTimeout, HandlerTimeout, Tick, ProcCrash, CollectorCrash, HostWrite,
        storeVars, vars
  <1>6. CASE UNCHANGED <<accepted, Queued>>
    BY <1>1, <1>2, <1>5, <1>6, ContractStutter DEF Contract!Next
  <1> QED
    BY <1>3, <1>4, <1>6, NextKeys DEF Contract!Next

\* Forwarding implements the contract, for every value of the constants, when
\* an event id names one pair.
THEOREM Refinement == ASSUME UniqueIds PROVE Spec => ImplementsContract
  <1>1. Init => Contract!Init
    BY DEF Init, Contract!Init, Queued, Copies
  <1>2. IndInv /\ [Next]_vars => IndInv'
    BY NextInv
  <1>3. IndInv /\ [Next]_vars => [Contract!Next]_(Contract!vars)
    BY NextContract
  <1> QED
    BY <1>1, <1>2, <1>3, InitInv, PTL DEF Spec, ImplementsContract, Contract!Spec
=============================================================================
