------------------------ MODULE RuntimeRepairProofs ------------------------
(***************************************************************************)
(* Proofs about RuntimeRepair, for any sessions, launches and bounds.      *)
(*                                                                         *)
(* That an accepted checkpoint carries the right number of roots rests on  *)
(* two facts: no step changes a session without moving the generation, and *)
(* a launch between its query and its write has a count that is right if   *)
(* the generation is still the one it stamped before the query.            *)
(***************************************************************************)
EXTENDS RuntimeRepair, FiniteSetTheorems, TLAPS

Refreshing == {"rread", "rafter", "rwrite"}

TriesLeft == \A l \in Launches : launch[l].pc \notin Refreshing => launch[l].tries < RefreshTries

TypeInv == TypeOK /\ TriesLeft

\* Cardinalities of sets of roots are numbers.
LEMMA RootsNumber ==
    ASSUME NEW a PROVE Cardinality(ValidRoots(a)) \in Nat
<1>1. ValidRoots(a) \subseteq Sessions /\ IsFiniteSet(Sessions)
  BY RepairAssumption DEF ValidRoots
<1>2. IsFiniteSet(ValidRoots(a))
  BY <1>1, FS_Subset
<1> QED BY <1>2, FS_CardinalityType

\* The record of a launch that ends, or has not begun.
LEMMA IdleTyped == IdleLaunch \in Launch /\ IdleLaunch.pc = "idle" /\ IdleLaunch.tries = 0
BY RepairAssumption DEF IdleLaunch, Launch, Authorities, Steps

\* A launch's record that is well typed and may take another attempt.
Good(r) == r \in Launch /\ (r.pc \notin Refreshing => r.tries < RefreshTries)

LEMMA GoodLaunches ==
    TypeInv <=> /\ TypeOK
                /\ \A l \in Launches : Good(launch[l])
BY DEF TypeInv, TypeOK, TriesLeft, Good

\* A step that replaces the record of one launch keeps all of them good.
LEMMA SetGood ==
    ASSUME TypeInv, NEW l \in Launches, NEW r, Good(r), Set(l, r)
    PROVE  launch' \in [Launches -> Launch] /\ \A k \in Launches : Good(launch'[k])
BY DEF TypeInv, TypeOK, TriesLeft, Set, Good

LEMMA EndGood ==
    ASSUME TypeInv, NEW l \in Launches, End(l)
    PROVE  launch' \in [Launches -> Launch] /\ \A k \in Launches : Good(launch'[k])
<1>1. Good(IdleLaunch)
  BY IdleTyped, RepairAssumption DEF Good
<1> QED BY <1>1, SetGood DEF End

LEMMA TellGood ==
    ASSUME TypeInv, NEW k \in Launches, NEW T \in SUBSET Sessions
    PROVE  Good(Tell(k, T))
<1>1. launch[k] \in Launch
  BY DEF TypeInv, TypeOK
<1>2. CASE Scanned(k)
  <2>1. PICK r : r = [launch[k] EXCEPT !.news = launch[k].news \union T]
    OBVIOUS
  <2>2. r \in Launch
    BY <1>1, <2>1 DEF Launch
  <2>3. r.pc = launch[k].pc /\ r.tries = launch[k].tries
    BY <1>1, <2>1 DEF Launch
  <2> QED BY <1>2, <2>1, <2>2, <2>3 DEF Tell, Good, TypeInv, TriesLeft
<1>3. CASE ~Scanned(k)
  BY <1>1, <1>3 DEF Tell, Good, TypeInv, TriesLeft
<1> QED BY <1>2, <1>3

\* What a launch becomes once its store is in line.
LEMMA CompleteGood ==
    ASSUME TypeInv, NEW l \in Launches, NEW r \in Launch, Complete(l, r)
    PROVE  launch' \in [Launches -> Launch] /\ \A k \in Launches : Good(launch'[k])
<1>1. PICK q : q = [IdleLaunch EXCEPT !.pc = "ready", !.auth = r.auth, !.roots = r.roots, !.news = r.news]
  OBVIOUS
<1>2. q \in Launch
  BY <1>1, IdleTyped DEF Launch, Steps
<1>3. q.pc = "ready" /\ q.tries = 0
  BY <1>1, IdleTyped DEF Launch
<1>4. Good(q)
  BY <1>2, <1>3, RepairAssumption DEF Good
<1>5. Good(IdleLaunch)
  BY IdleTyped, RepairAssumption DEF Good
<1>6. Set(l, IdleLaunch) \/ Set(l, q)
  BY <1>1 DEF Complete
<1> QED BY <1>4, <1>5, <1>6, SetGood

-----------------------------------------------------------------------------
(* Type correctness. *)

\* The steps of a launch that write nothing but its own record.
Quiet(l) == \/ Stamp(l) \/ CheckpointHit(l) \/ CheckpointMiss(l) \/ Scan(l) \/ NameArchive(l)
            \/ RefreshStamp(l) \/ RefreshRead(l) \/ RefreshAfter(l)
            \/ \E continue \in BOOLEAN : StartChild(l, continue)
            \/ \E ok \in BOOLEAN : ChildExit(l, ok)

LEMMA GotoGood ==
    ASSUME TypeInv, NEW l \in Launches, NEW pc \in Steps, Goto(l, pc),
           pc \in Refreshing \/ launch[l].tries < RefreshTries
    PROVE  launch' \in [Launches -> Launch] /\ \A k \in Launches : Good(launch'[k])
<1>1. launch[l] \in Launch
  BY DEF TypeInv, TypeOK
<1>2. PICK r : r = [launch[l] EXCEPT !.pc = pc]
  OBVIOUS
<1>3. r \in Launch
  BY <1>1, <1>2 DEF Launch
<1>4. r.pc = pc /\ r.tries = launch[l].tries
  BY <1>1, <1>2 DEF Launch
<1>5. Good(r)
  BY <1>3, <1>4 DEF Good
<1> QED BY <1>2, <1>5, SetGood DEF Goto

LEMMA QuietTyped ==
    ASSUME TypeInv, NEW l \in Launches, Quiet(l)
    PROVE  launch' \in [Launches -> Launch] /\ \A k \in Launches : Good(launch'[k])
<1>1. launch[l] \in Launch /\ launch[l].tries \in Nat /\ gen \in Nat /\ RefreshTries \in Nat
  BY RepairAssumption DEF TypeInv, TypeOK, Launch
<1>t. launch[l].pc \notin Refreshing => launch[l].tries < RefreshTries
  BY DEF TypeInv, TriesLeft
<1>2. CASE Stamp(l)
  <2>1. PICK r : r = [launch[l] EXCEPT !.pc = "checkpoint", !.stamp = gen]
    OBVIOUS
  <2>2. r \in Launch
    BY <1>1, <2>1 DEF Launch, Steps
  <2>3. r.tries = launch[l].tries
    BY <1>1, <2>1 DEF Launch
  <2>4. Good(r)
    BY <1>2, <1>t, <2>2, <2>3 DEF Good, Stamp, Refreshing
  <2> QED BY <1>2, <2>1, <2>4, SetGood DEF Stamp
<1>3. CASE CheckpointHit(l)
  <2>1. PICK r : r = [launch[l] EXCEPT !.roots = checkpoint.roots, !.news = unseen]
    OBVIOUS
  <2>2. r \in Launch
    BY <1>1, <2>1 DEF Launch, TypeInv, TypeOK
  <2> QED BY <1>3, <2>1, <2>2, CompleteGood DEF CheckpointHit
<1>4. CASE CheckpointMiss(l)
  <2>0. PICK p \in {"probe", "scan"} :
          p = IF launch[l].auth = Global /\ ~launch[l].probed THEN "probe" ELSE "scan"
    OBVIOUS
  <2>1. PICK r : r = [launch[l] EXCEPT !.stamp = 0, !.pc = p]
    OBVIOUS
  <2>2. r \in Launch
    BY <1>1, <2>1 DEF Launch, Steps
  <2>3. r.tries = launch[l].tries
    BY <1>1, <2>1 DEF Launch
  <2>4. Good(r)
    BY <1>4, <1>t, <2>2, <2>3 DEF Good, CheckpointMiss, Refreshing
  <2>5. Set(l, r)
    BY <1>4, <2>0, <2>1 DEF CheckpointMiss
  <2> QED BY <2>4, <2>5, SetGood
<1>5. CASE Scan(l)
  <2>1. launch[l].tries < RefreshTries
    BY <1>5, <1>t DEF Scan, Refreshing
  <2>2. CASE launch[l].auth \notin projects
    <3>1. End(l) \/ Goto(l, "probe")
      BY <1>5, <2>2 DEF Scan
    <3> QED BY <2>1, <3>1, EndGood, GotoGood DEF Steps
  <2>3. CASE launch[l].auth \in projects
    <3>1. PICK m \in SUBSET Sessions : m = MalformedClosure(Present)
      BY DEF MalformedClosure, Present
    <3>2. PICK p \in {"repair", "name"} : p = IF m = {} THEN "repair" ELSE "name"
      OBVIOUS
    <3>3. PICK r : r = [launch[l] EXCEPT !.pc = p, !.malformed = m]
      OBVIOUS
    <3>4. r \in Launch
      BY <1>1, <3>3 DEF Launch, Steps
    <3>5. r.tries = launch[l].tries
      BY <1>1, <3>3 DEF Launch
    <3>6. Good(r)
      BY <2>1, <3>4, <3>5 DEF Good
    <3>7. Set(l, r)
      BY <1>5, <2>3, <3>1, <3>2, <3>3 DEF Scan
    <3> QED BY <3>6, <3>7, SetGood
  <2> QED BY <2>2, <2>3
<1>6. CASE NameArchive(l)
  <2>1. launch[l].tries < RefreshTries
    BY <1>6, <1>t DEF NameArchive, Refreshing
  <2>2. PICK r : r = [launch[l] EXCEPT !.pc = "vacuum", !.stamp = gen]
    OBVIOUS
  <2>3. r \in Launch
    BY <1>1, <2>2 DEF Launch, Steps
  <2>4. r.tries = launch[l].tries
    BY <1>1, <2>2 DEF Launch
  <2>5. Good(r)
    BY <2>1, <2>3, <2>4 DEF Good
  <2>6. Set(l, r) \/ Goto(l, "repair")
    BY <1>6, <2>2 DEF NameArchive
  <2> QED BY <2>1, <2>5, <2>6, SetGood, GotoGood DEF Steps
<1>7. CASE RefreshStamp(l)
  <2>1. launch[l].tries < RefreshTries
    BY <1>7, <1>t DEF RefreshStamp, Refreshing
  <2>2. PICK r : r = [launch[l] EXCEPT !.pc = "rread", !.stamp = gen, !.tries = launch[l].tries + 1]
    OBVIOUS
  <2>n. launch[l].tries + 1 \in 0..RefreshTries
    BY <1>1, <2>1
  <2>3. r \in Launch
    BY <1>1, <2>2, <2>n DEF Launch, Steps
  <2>4. r.pc = "rread"
    BY <1>1, <2>2 DEF Launch
  <2>5. Good(r)
    BY <2>3, <2>4 DEF Good, Refreshing
  <2> QED BY <1>7, <2>2, <2>5, SetGood DEF RefreshStamp
<1>8. CASE RefreshRead(l)
  <2>1. PICK n \in Nat : n = Cardinality(ValidRoots(launch[l].auth))
    BY RootsNumber
  <2>2. PICK r : r = [launch[l] EXCEPT !.pc = "rafter", !.roots = n]
    OBVIOUS
  <2>3. r \in Launch
    BY <1>1, <2>2 DEF Launch, Steps
  <2>4. r.pc = "rafter"
    BY <1>1, <2>2 DEF Launch
  <2>5. Good(r)
    BY <2>3, <2>4 DEF Good, Refreshing
  <2>6. End(l) \/ Set(l, r)
    BY <1>8, <2>1, <2>2 DEF RefreshRead
  <2> QED BY <2>5, <2>6, SetGood, EndGood
<1>9. CASE RefreshAfter(l)
  <2>1. \/ Goto(l, "rwrite")
        \/ launch[l].tries < RefreshTries /\ Goto(l, "rstamp")
        \/ End(l)
    BY <1>9 DEF RefreshAfter
  <2> QED BY <2>1, EndGood, GotoGood DEF Steps, Refreshing
<1>10. ASSUME NEW continue \in BOOLEAN, StartChild(l, continue)
       PROVE  launch' \in [Launches -> Launch] /\ \A k \in Launches : Good(launch'[k])
  <2>1. launch[l].tries < RefreshTries
    BY <1>10, <1>t DEF StartChild, Refreshing
  <2>2. End(l) \/ Goto(l, "child")
    BY <1>10 DEF StartChild
  <2> QED BY <2>1, <2>2, EndGood, GotoGood DEF Steps
<1>11. ASSUME NEW ok \in BOOLEAN, ChildExit(l, ok)
       PROVE  launch' \in [Launches -> Launch] /\ \A k \in Launches : Good(launch'[k])
  <2>b. PICK b \in BOOLEAN : b = TRUE
    OBVIOUS
  <2>z. PICK z \in 0..RefreshTries : z = 0
    BY <1>1
  <2>1. PICK r : r = [launch[l] EXCEPT !.pc = "rstamp", !.ran = b, !.tries = z]
    OBVIOUS
  <2>2. r \in Launch
    BY <1>1, <2>1 DEF Launch, Steps
  <2>3. r.tries = 0
    BY <1>1, <2>1, <2>z DEF Launch
  <2>4. Good(r)
    BY <2>2, <2>3, RepairAssumption DEF Good
  <2>5. End(l) \/ Set(l, r)
    BY <1>11, <2>1, <2>b, <2>z DEF ChildExit
  <2> QED BY <2>4, <2>5, EndGood, SetGood
<1> QED BY <1>2, <1>3, <1>4, <1>5, <1>6, <1>7, <1>8, <1>9, <1>10, <1>11 DEF Quiet

\* What the quiet steps leave alone.
LEMMA QuietFrame ==
    ASSUME NEW l \in Launches, Quiet(l)
    PROVE  UNCHANGED <<sess, projects, gen, cache, checkpoint, archives, bounds, ghosts>>
BY DEF Quiet, Stamp, CheckpointHit, CheckpointMiss, Scan, NameArchive, RefreshStamp,
       RefreshRead, RefreshAfter, StartChild, ChildExit

\* The steps that write more than the record of a launch.
Loud == \/ \E l \in Launches : Start(l) \/ Probe(l) \/ VacuumInto(l) \/ Repair(l)
                               \/ WriteCheckpoint(l) \/ Crash(l)
        \/ \E l \in Launches, s \in Sessions, c \in Ids \union {NoCache} : ChildAdd(l, s, c)
        \/ \E l \in Launches, s \in Sessions : ChildDelete(l, s)
        \/ \E s \in Sessions, a \in Authorities : Merge(s, a)

LEMMA NextSplit == Next => Loud \/ \E l \in Launches : Quiet(l)
BY DEF Next, LaunchStep, Loud, Quiet

LEMMA AuthorityTyped ==
    ASSUME NEW c \in Ids \union {NoCache} PROVE Authority(c) \in Authorities
BY DEF Authority, Authorities

LEMMA LoudTyped ==
    ASSUME TypeInv, Loud
    PROVE  TypeOK' /\ \A k \in Launches : Good(launch'[k])
<1> DEFINE Goal == launch' \in [Launches -> Launch] /\ \A k \in Launches : Good(launch'[k])
<1>r. RefreshTries \in Nat \ {0}
  BY RepairAssumption
<1>1. ASSUME NEW l \in Launches, Start(l) PROVE TypeOK' /\ Goal
  <2>1. PICK a \in Authorities : a = Authority(cache)
    BY AuthorityTyped DEF TypeInv, TypeOK
  <2>2. PICK r : r = [IdleLaunch EXCEPT !.pc = "stamp", !.auth = a]
    OBVIOUS
  <2>3. r \in Launch
    BY <2>2, IdleTyped DEF Launch, Steps
  <2>4. r.tries = 0
    BY <2>2, IdleTyped DEF Launch
  <2>5. Good(r)
    BY <1>r, <2>3, <2>4 DEF Good
  <2>6. Goal
    BY <1>1, <2>1, <2>2, <2>5, SetGood DEF Start
  <2> QED BY <1>1, <2>6 DEF Start, TypeInv, TypeOK, ghosts
<1>2. ASSUME NEW l \in Launches, Probe(l) PROVE TypeOK' /\ Goal
  <2>0. launch[l] \in Launch /\ launch[l].tries < RefreshTries
    BY <1>2 DEF Probe, TypeInv, TypeOK, TriesLeft, Refreshing
  <2>1. PICK c \in {cache} \union (IF cache = NoCache THEN Ids ELSE {}), ok \in BOOLEAN, makes \in BOOLEAN :
          /\ cache' = c
          /\ projects' = IF makes THEN projects \union {Authority(c)} ELSE projects
          /\ gen' = IF projects' # projects THEN gen + 1 ELSE gen
          /\ IF ~ok /\ c = NoCache THEN End(l)
             ELSE Set(l, [launch[l] EXCEPT !.pc = "stamp", !.auth = Authority(c),
                                          !.probed = TRUE, !.probeOk = ok])
    BY <1>2 DEF Probe
  <2>2. c \in Ids \union {NoCache}
    BY DEF TypeInv, TypeOK
  <2>3. PICK a \in Authorities : a = Authority(c)
    BY <2>2, AuthorityTyped
  <2>b. PICK b \in BOOLEAN : b = TRUE
    OBVIOUS
  <2>4. PICK r : r = [launch[l] EXCEPT !.pc = "stamp", !.auth = a, !.probed = b, !.probeOk = ok]
    OBVIOUS
  <2>5. r \in Launch
    BY <2>0, <2>4 DEF Launch, Steps
  <2>6. r.tries = launch[l].tries
    BY <2>0, <2>4 DEF Launch
  <2>7. Good(r)
    BY <2>0, <2>5, <2>6 DEF Good
  <2>8. End(l) \/ Set(l, r)
    BY <2>1, <2>3, <2>b, <2>4
  <2>9. Goal
    BY <2>7, <2>8, EndGood, SetGood
  <2>10. cache' \in Ids \union {NoCache} /\ projects' \subseteq Authorities /\ gen' \in Nat \ {0}
    BY <2>1, <2>2, <2>3 DEF TypeInv, TypeOK
  <2> QED BY <1>2, <2>9, <2>10 DEF Probe, TypeInv, TypeOK, bounds, ghosts
<1>3. ASSUME NEW l \in Launches, VacuumInto(l) PROVE TypeOK' /\ Goal
  <2>0. launch[l] \in Launch /\ launch[l].tries < RefreshTries /\ launch[l].stamp \in Nat
    BY <1>3 DEF VacuumInto, TypeInv, TypeOK, TriesLeft, Refreshing, Launch
  <2>1. PICK r : r = [launch[l] EXCEPT !.pc = "repair", !.stamp = 0]
    OBVIOUS
  <2>2. r \in Launch
    BY <2>0, <2>1 DEF Launch, Steps
  <2>3. r.tries = launch[l].tries
    BY <2>0, <2>1 DEF Launch
  <2>4. Good(r)
    BY <2>0, <2>2, <2>3 DEF Good
  <2>5. Goal
    BY <1>3, <2>1, <2>4, SetGood DEF VacuumInto
  <2>6. archives' \subseteq [name : Nat, held : SUBSET Sessions]
    <3>1. Present \subseteq Sessions
      BY DEF Present
    <3>2. [name |-> launch[l].stamp, held |-> Present] \in [name : Nat, held : SUBSET Sessions]
      BY <2>0, <3>1
    <3> QED BY <1>3, <3>2 DEF VacuumInto, TypeInv, TypeOK
  <2> QED BY <1>3, <2>5, <2>6 DEF VacuumInto, TypeInv, TypeOK, bounds, ghosts
<1>4. ASSUME NEW l \in Launches, Repair(l) PROVE TypeOK' /\ Goal
  <2>0. launch[l] \in Launch /\ launch[l].tries < RefreshTries
    BY <1>4 DEF Repair, TypeInv, TypeOK, TriesLeft, Refreshing
  <2>1. PICK r : r = [launch[l] EXCEPT !.pc = "rstamp"]
    OBVIOUS
  <2>2. r \in Launch
    BY <2>0, <2>1 DEF Launch, Steps
  <2>3. r.tries = launch[l].tries
    BY <2>0, <2>1 DEF Launch
  <2>4. Good(r)
    BY <2>0, <2>2, <2>3 DEF Good
  <2>5. PICK T \in SUBSET Sessions : T = Written(Repaired(l))
    BY DEF Written
  <2>6. launch' = [k \in Launches |-> IF k = l THEN r ELSE Tell(k, T)]
    BY <1>4, <2>1, <2>5 DEF Repair
  <2>7. Goal
    BY <2>4, <2>6, TellGood DEF Good
  <2>8. sess' \in [Sessions -> Authorities \union {NoSession}]
    <3>1. launch[l].auth \in Authorities
      BY <2>0 DEF Launch
    <3>2. \A s \in Sessions : sess[s] \in Authorities \union {NoSession}
      BY DEF TypeInv, TypeOK
    <3>3. sess' = Repaired(l)
      BY <1>4 DEF Repair
    <3> QED BY <3>1, <3>2, <3>3 DEF Repaired
  <2>9. gen' \in Nat \ {0} /\ removed' \subseteq Sessions
    BY <1>4 DEF Repair, TypeInv, TypeOK, Present
  <2> QED BY <1>4, <2>7, <2>8, <2>9 DEF Repair, TypeInv, TypeOK, bounds
<1>5. ASSUME NEW l \in Launches, WriteCheckpoint(l) PROVE TypeOK' /\ Goal
  <2>0. launch[l] \in Launch
    BY DEF TypeInv, TypeOK
  <2>1. Goal
    BY <1>5, <2>0, EndGood, CompleteGood DEF WriteCheckpoint
  <2>2. checkpoint' \in [auth : Authorities, gen : Nat, roots : Nat] /\ unseen' \subseteq Sessions
    BY <1>5, <2>0 DEF WriteCheckpoint, Launch
  <2> QED BY <1>5, <2>1, <2>2 DEF WriteCheckpoint, TypeInv, TypeOK, bounds
<1>6. ASSUME NEW l \in Launches, Crash(l) PROVE TypeOK' /\ Goal
  BY <1>6, EndGood DEF Crash, TypeInv, TypeOK, ghosts
<1>7. ASSUME NEW l \in Launches, NEW s \in Sessions, NEW c \in Ids \union {NoCache}, ChildAdd(l, s, c)
      PROVE  TypeOK' /\ Goal
  <2>1. PICK T \in SUBSET Sessions : T = {s}
    OBVIOUS
  <2>2. launch' = [k \in Launches |-> IF k = l THEN launch[k] ELSE Tell(k, T)]
    BY <1>7, <2>1 DEF ChildAdd
  <2>3. Goal
    BY <2>2, TellGood, GoodLaunches DEF Good
  <2>4. PICK a \in Authorities : a = Authority(c)
    BY AuthorityTyped
  <2>5. sess' \in [Sessions -> Authorities \union {NoSession}] /\ projects' \subseteq Authorities
    BY <1>7, <2>4 DEF ChildAdd, TypeInv, TypeOK
  <2>6. gen' \in Nat \ {0} /\ writes' \in Nat /\ cache' = c
    BY <1>7 DEF ChildAdd, TypeInv, TypeOK
  <2> QED BY <1>7, <2>3, <2>5, <2>6 DEF ChildAdd, TypeInv, TypeOK, ghosts
<1>8. ASSUME NEW l \in Launches, NEW s \in Sessions, ChildDelete(l, s) PROVE TypeOK' /\ Goal
  <2>1. Goal
    BY <1>8, GoodLaunches DEF ChildDelete, TypeInv, TypeOK
  <2> QED BY <1>8, <2>1 DEF ChildDelete, TypeInv, TypeOK, ghosts
<1>9. ASSUME NEW s \in Sessions, NEW a \in Authorities, Merge(s, a) PROVE TypeOK' /\ Goal
  <2>1. PICK T \in SUBSET Sessions : T = {s}
    OBVIOUS
  <2>2. launch' = [k \in Launches |-> Tell(k, T)]
    BY <1>9, <2>1 DEF Merge
  <2>3. Goal
    BY <2>2, TellGood DEF Good
  <2>4. sess' \in [Sessions -> Authorities \union {NoSession}] /\ projects' \subseteq Authorities
    BY <1>9 DEF Merge, TypeInv, TypeOK
  <2>5. gen' \in Nat \ {0} /\ merges' \in Nat
    BY <1>9 DEF Merge, TypeInv, TypeOK
  <2> QED BY <1>9, <2>3, <2>4, <2>5 DEF Merge, TypeInv, TypeOK, ghosts
<1> HIDE DEF Goal
<1>10. TypeOK' /\ Goal
  BY <1>1, <1>2, <1>3, <1>4, <1>5, <1>6, <1>7, <1>8, <1>9 DEF Loud
<1> QED BY <1>10 DEF Goal

\* Launches, sessions and the checkpoint keep their shape, and a refresh is
\* attempted at most RefreshTries times (refresh_runtime_checkpoint).
THEOREM TypeCorrect == Spec => [](TypeOK /\ TriesLeft)
<1>1. Init => TypeInv
  <2> SUFFICES ASSUME Init PROVE TypeInv
    OBVIOUS
  <2>1. launch \in [Launches -> Launch] /\ TriesLeft
    BY IdleTyped, RepairAssumption DEF Init, TriesLeft
  <2>2. checkpoint \in [auth : Authorities, gen : Nat, roots : Nat]
    BY DEF Init, NoCheckpoint, Authorities
  <2> QED BY <2>1, <2>2 DEF Init, TypeInv, TypeOK, Authorities
<1>2. TypeInv /\ [Next]_vars => TypeInv'
  <2> SUFFICES ASSUME TypeInv, [Next]_vars PROVE TypeInv'
    OBVIOUS
  <2>1. CASE UNCHANGED vars
    BY <2>1 DEF vars, TypeInv, TypeOK, TriesLeft
  <2>2. ASSUME NEW l \in Launches, Quiet(l) PROVE TypeInv'
    <3>1. launch' \in [Launches -> Launch] /\ \A k \in Launches : Good(launch'[k])
      BY <2>2, QuietTyped
    <3>2. TypeOK'
      BY <2>2, <3>1, QuietFrame DEF TypeInv, TypeOK, bounds, ghosts
    <3> QED BY <3>1, <3>2 DEF TypeInv, TriesLeft, Good
  <2>3. CASE Loud
    BY <2>3, LoudTyped DEF TypeInv, TriesLeft, Good
  <2> QED BY <2>1, <2>2, <2>3, NextSplit
<1> QED BY <1>1, <1>2, PTL DEF Spec, TypeInv

-----------------------------------------------------------------------------
(* The roots a checkpoint carries. *)

\* The count a launch has taken is right for the generation it stamped.
CountRight(l) ==
    /\ launch[l].pc \in Refreshing => launch[l].stamp <= gen
    /\ launch[l].pc \in {"rafter", "rwrite"} /\ launch[l].stamp = gen
          => launch[l].roots = Cardinality(ValidRoots(launch[l].auth))

RootsInv == /\ checkpoint.gen <= gen
            /\ RootsCurrent
            /\ \A l \in Launches : CountRight(l)

\* No step changes a session without moving the generation.
LEMMA GenerationMoves ==
    ASSUME TypeInv, Next
    PROVE  gen' > gen \/ (gen' = gen /\ sess' = sess)
<1>0. gen \in Nat
  BY DEF TypeInv, TypeOK
<1>1. ASSUME NEW l \in Launches, Quiet(l) PROVE gen' = gen /\ sess' = sess
  BY <1>1, QuietFrame
<1>2. ASSUME NEW l \in Launches, Repair(l) PROVE gen' > gen \/ (gen' = gen /\ sess' = sess)
  <2>1. CASE Written(Repaired(l)) # {}
    BY <1>0, <1>2, <2>1 DEF Repair
  <2>2. CASE Written(Repaired(l)) = {}
    <3>1. \A s \in Sessions : Repaired(l)[s] = sess[s]
      BY <2>2 DEF Written
    <3>2. sess \in [Sessions -> Authorities \union {NoSession}]
      BY DEF TypeInv, TypeOK
    <3>3. PICK f : f = Repaired(l)
      OBVIOUS
    <3>4. f = [s \in Sessions |-> f[s]]
      BY <3>3 DEF Repaired
    <3>5. f = sess
      BY <3>1, <3>2, <3>3, <3>4
    <3> QED BY <1>2, <2>2, <3>3, <3>5 DEF Repair
  <2> QED BY <2>1, <2>2
<1>3. ASSUME NEW l \in Launches, Start(l) \/ VacuumInto(l) \/ WriteCheckpoint(l) \/ Crash(l)
      PROVE  gen' = gen /\ sess' = sess
  BY <1>3 DEF Start, VacuumInto, WriteCheckpoint, Crash
<1>4. ASSUME NEW l \in Launches, Probe(l) PROVE gen' > gen \/ (gen' = gen /\ sess' = sess)
  BY <1>0, <1>4 DEF Probe
<1>5. ASSUME NEW l \in Launches, NEW s \in Sessions, NEW c \in Ids \union {NoCache},
             ChildAdd(l, s, c) \/ ChildDelete(l, s)
      PROVE  gen' > gen
  BY <1>0, <1>5 DEF ChildAdd, ChildDelete
<1>6. ASSUME NEW s \in Sessions, NEW a \in Authorities, Merge(s, a) PROVE gen' > gen
  BY <1>0, <1>6 DEF Merge
<1> QED BY <1>1, <1>2, <1>3, <1>4, <1>5, <1>6, NextSplit DEF Loud

\* What a step makes of a launch that is counting roots afterwards.
Counted(l) ==
    \/ /\ launch'[l].pc = launch[l].pc /\ launch'[l].stamp = launch[l].stamp
       /\ launch'[l].roots = launch[l].roots /\ launch'[l].auth = launch[l].auth
    \/ launch'[l].pc \notin Refreshing
    \/ launch'[l].pc = "rread" /\ launch'[l].stamp = gen
    \/ /\ launch[l].pc = "rread" /\ launch'[l].stamp = launch[l].stamp /\ gen' = gen /\ sess' = sess
       /\ launch'[l].roots = Cardinality(ValidRoots(launch'[l].auth))
    \/ /\ launch[l].pc = "rafter" /\ launch'[l].stamp = launch[l].stamp
       /\ launch'[l].roots = launch[l].roots /\ launch'[l].auth = launch[l].auth

LEMMA SetCounted ==
    ASSUME TypeInv, NEW l \in Launches, NEW r, Set(l, r),
           \/ r.pc \notin Refreshing
           \/ r.pc = "rread" /\ r.stamp = gen
           \/ /\ launch[l].pc = "rread" /\ r.stamp = launch[l].stamp /\ gen' = gen /\ sess' = sess
              /\ r.roots = Cardinality(ValidRoots(r.auth))
           \/ /\ launch[l].pc = "rafter" /\ r.stamp = launch[l].stamp
              /\ r.roots = launch[l].roots /\ r.auth = launch[l].auth,
           NEW k \in Launches
    PROVE  Counted(k)
BY DEF Set, Counted, TypeInv, TypeOK

LEMMA EndCounted ==
    ASSUME TypeInv, NEW l \in Launches, End(l), NEW k \in Launches PROVE Counted(k)
BY IdleTyped, SetCounted DEF End, Refreshing

LEMMA GotoCounted ==
    ASSUME TypeInv, NEW l \in Launches, NEW pc, pc \notin Refreshing, Goto(l, pc), NEW k \in Launches
    PROVE  Counted(k)
<1>1. PICK r : r = [launch[l] EXCEPT !.pc = pc]
  OBVIOUS
<1>2. r.pc = pc
  BY <1>1 DEF TypeInv, TypeOK, Launch
<1> QED BY <1>1, <1>2, SetCounted DEF Goto

LEMMA CompleteCounted ==
    ASSUME TypeInv, NEW l \in Launches, NEW q, Complete(l, q), NEW k \in Launches
    PROVE  Counted(k)
<1>1. PICK r : r = [IdleLaunch EXCEPT !.pc = "ready", !.auth = q.auth, !.roots = q.roots, !.news = q.news]
  OBVIOUS
<1>2. r.pc = "ready"
  BY <1>1, IdleTyped DEF Launch
<1>3. Set(l, IdleLaunch) \/ Set(l, r)
  BY <1>1 DEF Complete
<1> QED BY <1>2, <1>3, IdleTyped, SetCounted DEF Refreshing

LEMMA TellCounted ==
    ASSUME TypeInv, NEW k \in Launches, NEW T, launch'[k] = Tell(k, T) PROVE Counted(k)
<1>1. PICK r : r = [launch[k] EXCEPT !.news = launch[k].news \union T]
  OBVIOUS
<1>2. launch[k] \in Launch
  BY DEF TypeInv, TypeOK
<1>3. r.pc = launch[k].pc /\ r.stamp = launch[k].stamp
  BY <1>1, <1>2 DEF Launch
<1>4. r.roots = launch[k].roots /\ r.auth = launch[k].auth
  BY <1>1, <1>2 DEF Launch
<1>5. launch'[k] = r \/ launch'[k] = launch[k]
  BY <1>1 DEF Tell
<1> QED BY <1>3, <1>4, <1>5 DEF Counted

LEMMA QuietCounted ==
    ASSUME TypeInv, NEW l \in Launches, Quiet(l), NEW k \in Launches PROVE Counted(k)
<1>0. launch[l] \in Launch
  BY DEF TypeInv, TypeOK
<1>1. CASE Stamp(l)
  <2>1. PICK r : r = [launch[l] EXCEPT !.pc = "checkpoint", !.stamp = gen]
    OBVIOUS
  <2>2. r.pc = "checkpoint"
    BY <1>0, <2>1 DEF Launch
  <2> QED BY <1>1, <2>1, <2>2, SetCounted DEF Stamp, Refreshing
<1>2. CASE CheckpointHit(l)
  BY <1>2, CompleteCounted DEF CheckpointHit
<1>3. CASE CheckpointMiss(l)
  <2>0. PICK p \in {"probe", "scan"} :
          p = IF launch[l].auth = Global /\ ~launch[l].probed THEN "probe" ELSE "scan"
    OBVIOUS
  <2>1. PICK r : r = [launch[l] EXCEPT !.stamp = 0, !.pc = p]
    OBVIOUS
  <2>2. r.pc = p
    BY <1>0, <2>1 DEF Launch
  <2>3. Set(l, r)
    BY <1>3, <2>0, <2>1 DEF CheckpointMiss
  <2> QED BY <2>2, <2>3, SetCounted DEF Refreshing
<1>4. CASE Scan(l)
  <2>0. PICK m : m = MalformedClosure(Present)
    OBVIOUS
  <2>1. PICK p \in {"repair", "name"} : p = IF m = {} THEN "repair" ELSE "name"
    OBVIOUS
  <2>2. PICK r : r = [launch[l] EXCEPT !.pc = p, !.malformed = m]
    OBVIOUS
  <2>3. r.pc = p
    BY <1>0, <2>2 DEF Launch
  <2>4. End(l) \/ Goto(l, "probe") \/ Set(l, r)
    BY <1>4, <2>0, <2>1, <2>2 DEF Scan
  <2> QED BY <2>3, <2>4, EndCounted, GotoCounted, SetCounted DEF Refreshing
<1>5. CASE NameArchive(l)
  <2>1. PICK r : r = [launch[l] EXCEPT !.pc = "vacuum", !.stamp = gen]
    OBVIOUS
  <2>2. r.pc = "vacuum"
    BY <1>0, <2>1 DEF Launch
  <2>3. Set(l, r) \/ Goto(l, "repair")
    BY <1>5, <2>1 DEF NameArchive
  <2> QED BY <2>2, <2>3, SetCounted, GotoCounted DEF Refreshing
<1>6. CASE RefreshStamp(l)
  <2>1. PICK r : r = [launch[l] EXCEPT !.pc = "rread", !.stamp = gen, !.tries = launch[l].tries + 1]
    OBVIOUS
  <2>2. r.pc = "rread"
    BY <1>0, <2>1 DEF Launch
  <2>3. r.stamp = gen
    BY <1>0, <2>1 DEF Launch
  <2> QED BY <1>6, <2>1, <2>2, <2>3, SetCounted DEF RefreshStamp
<1>7. CASE RefreshRead(l)
  <2>1. PICK n : n = Cardinality(ValidRoots(launch[l].auth))
    OBVIOUS
  <2>2. PICK r : r = [launch[l] EXCEPT !.pc = "rafter", !.roots = n]
    OBVIOUS
  <2>3. r.stamp = launch[l].stamp /\ r.auth = launch[l].auth
    BY <1>0, <2>2 DEF Launch
  <2>4. r.roots = n
    BY <1>0, <2>2 DEF Launch
  <2>5. End(l) \/ Set(l, r)
    BY <1>7, <2>1, <2>2 DEF RefreshRead
  <2>6. launch[l].pc = "rread" /\ gen' = gen /\ sess' = sess
    BY <1>7 DEF RefreshRead
  <2> QED BY <2>1, <2>3, <2>4, <2>5, <2>6, EndCounted, SetCounted
<1>8. CASE RefreshAfter(l)
  <2>1. PICK r : r = [launch[l] EXCEPT !.pc = "rwrite"]
    OBVIOUS
  <2>2. r.stamp = launch[l].stamp /\ r.auth = launch[l].auth
    BY <1>0, <2>1 DEF Launch
  <2>3. r.roots = launch[l].roots
    BY <1>0, <2>1 DEF Launch
  <2>4. Set(l, r) \/ Goto(l, "rstamp") \/ End(l)
    BY <1>8, <2>1 DEF RefreshAfter, Goto
  <2>5. launch[l].pc = "rafter"
    BY <1>8 DEF RefreshAfter
  <2> QED BY <2>2, <2>3, <2>4, <2>5, EndCounted, GotoCounted, SetCounted DEF Refreshing
<1>9. ASSUME NEW continue \in BOOLEAN, StartChild(l, continue) PROVE Counted(k)
  BY <1>9, EndCounted, GotoCounted DEF StartChild, Refreshing
<1>10. ASSUME NEW ok \in BOOLEAN, ChildExit(l, ok) PROVE Counted(k)
  <2>1. PICK r : r = [launch[l] EXCEPT !.pc = "rstamp", !.ran = TRUE, !.tries = 0]
    OBVIOUS
  <2>2. r.pc = "rstamp"
    BY <1>0, <2>1 DEF Launch
  <2>3. End(l) \/ Set(l, r)
    BY <1>10, <2>1 DEF ChildExit
  <2> QED BY <2>2, <2>3, EndCounted, SetCounted DEF Refreshing
<1> QED BY <1>1, <1>2, <1>3, <1>4, <1>5, <1>6, <1>7, <1>8, <1>9, <1>10 DEF Quiet

LEMMA LoudCounted ==
    ASSUME TypeInv, Loud, NEW k \in Launches PROVE Counted(k)
<1>1. ASSUME NEW l \in Launches, Start(l) PROVE Counted(k)
  <2>1. PICK r : r = [IdleLaunch EXCEPT !.pc = "stamp", !.auth = Authority(cache)]
    OBVIOUS
  <2>2. r.pc = "stamp"
    BY <2>1, IdleTyped DEF Launch
  <2> QED BY <1>1, <2>1, <2>2, SetCounted DEF Start, Refreshing
<1>2. ASSUME NEW l \in Launches, Probe(l) PROVE Counted(k)
  <2>0. launch[l] \in Launch
    BY DEF TypeInv, TypeOK
  <2>1. PICK c, ok :
          End(l) \/ Set(l, [launch[l] EXCEPT !.pc = "stamp", !.auth = Authority(c),
                                          !.probed = TRUE, !.probeOk = ok])
    BY <1>2 DEF Probe
  <2>2. PICK r : r = [launch[l] EXCEPT !.pc = "stamp", !.auth = Authority(c), !.probed = TRUE, !.probeOk = ok]
    OBVIOUS
  <2>3. r.pc = "stamp"
    BY <2>0, <2>2 DEF Launch
  <2> QED BY <2>1, <2>2, <2>3, EndCounted, SetCounted DEF Refreshing
<1>3. ASSUME NEW l \in Launches, VacuumInto(l) PROVE Counted(k)
  <2>0. launch[l] \in Launch
    BY DEF TypeInv, TypeOK
  <2>1. PICK r : r = [launch[l] EXCEPT !.pc = "repair", !.stamp = 0]
    OBVIOUS
  <2>2. r.pc = "repair"
    BY <2>0, <2>1 DEF Launch
  <2> QED BY <1>3, <2>1, <2>2, SetCounted DEF VacuumInto, Refreshing
<1>4. ASSUME NEW l \in Launches, Repair(l) PROVE Counted(k)
  <2>1. CASE k = l
    <3>0. launch[l] \in Launch
      BY DEF TypeInv, TypeOK
    <3>1. PICK r : r = [launch[l] EXCEPT !.pc = "rstamp"]
      OBVIOUS
    <3>2. r.pc = "rstamp"
      BY <3>0, <3>1 DEF Launch
    <3>3. launch'[k] = r
      BY <1>4, <2>1, <3>1 DEF Repair
    <3> QED BY <3>2, <3>3 DEF Counted, Refreshing
  <2>2. CASE k # l
    BY <1>4, <2>2, TellCounted DEF Repair
  <2> QED BY <2>1, <2>2
<1>5. ASSUME NEW l \in Launches, WriteCheckpoint(l) PROVE Counted(k)
  BY <1>5, EndCounted, CompleteCounted DEF WriteCheckpoint
<1>6. ASSUME NEW l \in Launches, Crash(l) PROVE Counted(k)
  BY <1>6, EndCounted DEF Crash
<1>7. ASSUME NEW l \in Launches, NEW s \in Sessions, NEW c \in Ids \union {NoCache}, ChildAdd(l, s, c)
      PROVE  Counted(k)
  <2>1. CASE k = l
    BY <1>7, <2>1 DEF ChildAdd, Counted
  <2>2. CASE k # l
    BY <1>7, <2>2, TellCounted DEF ChildAdd
  <2> QED BY <2>1, <2>2
<1>8. ASSUME NEW l \in Launches, NEW s \in Sessions, ChildDelete(l, s) PROVE Counted(k)
  BY <1>8 DEF ChildDelete, Counted
<1>9. ASSUME NEW s \in Sessions, NEW a \in Authorities, Merge(s, a) PROVE Counted(k)
  BY <1>9, TellCounted DEF Merge
<1> QED BY <1>1, <1>2, <1>3, <1>4, <1>5, <1>6, <1>7, <1>8, <1>9 DEF Loud

\* Only WriteCheckpoint touches the checkpoint.
LEMMA CheckpointFrame ==
    ASSUME Next
    PROVE  checkpoint' = checkpoint \/ \E l \in Launches : WriteCheckpoint(l)
<1>1. ASSUME NEW l \in Launches, Quiet(l) PROVE checkpoint' = checkpoint
  BY <1>1, QuietFrame
<1>2. ASSUME Loud PROVE checkpoint' = checkpoint \/ \E l \in Launches : WriteCheckpoint(l)
  BY <1>2 DEF Loud, Start, Probe, VacuumInto, Repair, Crash, ChildAdd, ChildDelete, Merge
<1> QED BY <1>1, <1>2, NextSplit

\* The counts of the launches that refresh the checkpoint are right for the
\* generations they stamped (refresh_runtime_checkpoint).
THEOREM RootsInvariance == Spec => []RootsInv
<1>1. Init => RootsInv
  BY IdleTyped DEF Init, RootsInv, RootsCurrent, CountRight, NoCheckpoint, Refreshing
<1>2. TypeInv /\ TypeInv' /\ RootsInv /\ [Next]_vars => RootsInv'
  <2> SUFFICES ASSUME TypeInv, TypeInv', RootsInv, [Next]_vars PROVE RootsInv'
    OBVIOUS
  <2>1. CASE UNCHANGED vars
    BY <2>1 DEF vars, RootsInv, RootsCurrent, CountRight, ValidRoots
  <2>2. CASE Next
    <3>0. gen \in Nat /\ gen' \in Nat /\ checkpoint.gen \in Nat
      BY DEF TypeInv, TypeOK
    <3>1. gen' > gen \/ (gen' = gen /\ sess' = sess)
      BY <2>2, GenerationMoves
    <3>2. sess' = sess => \A a : ValidRoots(a)' = ValidRoots(a)
      BY DEF ValidRoots
    <3>3. ASSUME NEW k \in Launches PROVE CountRight(k)'
      <4>1. Counted(k)
        BY <2>2, NextSplit, QuietCounted, LoudCounted
      <4>2. CountRight(k) /\ launch[k].stamp \in Nat
        BY DEF RootsInv, TypeInv, TypeOK, Launch
      <4> QED BY <3>0, <3>1, <3>2, <4>1, <4>2 DEF Counted, CountRight, Refreshing, ValidRoots
    <3>4. CASE checkpoint' = checkpoint
      BY <3>0, <3>1, <3>2, <3>3, <3>4 DEF RootsInv, RootsCurrent, ValidRoots
    <3>5. ASSUME NEW l \in Launches, WriteCheckpoint(l) PROVE RootsInv'
      <4>1. CountRight(l) /\ launch[l].pc = "rwrite" /\ gen' = gen /\ sess' = sess
        BY <3>5 DEF RootsInv, WriteCheckpoint
      <4>2. /\ checkpoint'.gen = launch[l].stamp
            /\ checkpoint'.roots = launch[l].roots
            /\ checkpoint'.auth = launch[l].auth
        BY <3>5 DEF WriteCheckpoint
      <4> QED BY <3>2, <3>3, <4>1, <4>2 DEF RootsInv, RootsCurrent, CountRight, Refreshing, ValidRoots
    <3> QED BY <2>2, <3>4, <3>5, CheckpointFrame
  <2> QED BY <2>1, <2>2
<1> QED BY <1>1, <1>2, TypeCorrect, PTL DEF Spec, TypeInv

\* A checkpoint that a launch would accept carries the number of root
\* sessions the store has, however children, repairs and migrations of any
\* number of launches interleave (refresh_runtime_checkpoint).
THEOREM RootsRight == Spec => []RootsCurrent
<1>1. RootsInv => RootsCurrent
  BY DEF RootsInv
<1> QED BY <1>1, RootsInvariance, PTL

-----------------------------------------------------------------------------
(* The steps of a launch, once more: what they do to what it has found. *)

Before == {"idle", "stamp", "checkpoint", "probe", "scan"}
Finding == {"name", "vacuum", "repair"}
Repairing == {"rstamp", "rread", "rafter", "rwrite"}

\* Authority, findings and news of a launch are as they were.
SameFound(k) ==
    /\ launch'[k].auth = launch[k].auth /\ launch'[k].malformed = launch[k].malformed
    /\ launch'[k].news = launch[k].news

Move(k) ==
    \/ launch'[k] = launch[k]
    \/ launch'[k].pc \in Before /\ (launch'[k].auth = Global \/ launch'[k].auth = launch[k].auth)
    \/ /\ Hit(k) /\ launch'[k].pc = "ready"
       /\ launch'[k].auth = launch[k].auth /\ launch'[k].news = unseen
    \/ /\ launch'[k].pc = IF MalformedClosure(Present) = {} THEN "repair" ELSE "name"
       /\ launch'[k].malformed = MalformedClosure(Present) /\ launch'[k].auth = launch[k].auth
    \/ /\ launch[k].pc = "name" /\ SameFound(k)
       /\ \/ launch'[k].pc = "vacuum" /\ launch'[k].stamp = gen /\ Named(gen) = {}
          \/ launch'[k].pc = "repair" /\ Named(gen) # {}
    \/ launch[k].pc \in Repairing /\ launch'[k].pc \in Repairing /\ SameFound(k)
    \/ launch[k].pc = "ready" /\ launch'[k].pc = "child" /\ SameFound(k)
    \/ /\ launch[k].pc = "child" /\ launch'[k].pc = "rstamp" /\ SameFound(k)
       /\ Authority(cache) = launch[k].auth

LEMMA SetShape ==
    ASSUME TypeInv, NEW l \in Launches, NEW r, Set(l, r), NEW k \in Launches
    PROVE  launch'[k] = IF k = l THEN r ELSE launch[k]
BY DEF Set, TypeInv, TypeOK

\* A launch that ends has found nothing.
LEMMA EndMoves ==
    ASSUME TypeInv, NEW l \in Launches, End(l), NEW k \in Launches
    PROVE  launch'[k] = launch[k] \/ (launch'[k].pc = "idle" /\ launch'[k].auth = Global)
<1>1. IdleLaunch.pc = "idle" /\ IdleLaunch.auth = Global
  BY DEF IdleLaunch
<1> QED BY <1>1, SetShape DEF End

LEMMA GotoMoves ==
    ASSUME TypeInv, NEW l \in Launches, NEW pc, Goto(l, pc), NEW k \in Launches
    PROVE  launch'[k] = launch[k] \/ (k = l /\ launch'[k].pc = pc /\ SameFound(k))
<1>0. launch[l] \in Launch
  BY DEF TypeInv, TypeOK
<1>1. PICK r : r = [launch[l] EXCEPT !.pc = pc]
  OBVIOUS
<1>2. r.pc = pc /\ r.auth = launch[l].auth
  BY <1>0, <1>1 DEF Launch
<1>3. r.malformed = launch[l].malformed /\ r.news = launch[l].news
  BY <1>0, <1>1 DEF Launch
<1> QED BY <1>1, <1>2, <1>3, SetShape DEF Goto, SameFound

\* A launch whose store is in line keeps its authority and its news.
LEMMA CompleteMoves ==
    ASSUME TypeInv, NEW l \in Launches, NEW q, Complete(l, q), NEW k \in Launches
    PROVE  \/ launch'[k] = launch[k]
           \/ launch'[k].pc = "idle" /\ launch'[k].auth = Global
           \/ k = l /\ launch'[k].pc = "ready" /\ launch'[k].auth = q.auth /\ launch'[k].news = q.news
<1>1. PICK r : r = [IdleLaunch EXCEPT !.pc = "ready", !.auth = q.auth, !.roots = q.roots, !.news = q.news]
  OBVIOUS
<1>2. r.pc = "ready" /\ r.auth = q.auth
  BY <1>1, IdleTyped DEF Launch
<1>3. r.news = q.news
  BY <1>1, IdleTyped DEF Launch
<1>4. End(l) \/ Set(l, r)
  BY <1>1 DEF Complete, End
<1>5. CASE End(l)
  BY <1>5, EndMoves
<1>6. CASE Set(l, r)
  BY <1>2, <1>3, <1>6, SetShape
<1> QED BY <1>4, <1>5, <1>6

LEMMA QuietMoves ==
    ASSUME TypeInv, NEW l \in Launches, Quiet(l), NEW k \in Launches
    PROVE  Move(k)
<1>0. launch[l] \in Launch
  BY DEF TypeInv, TypeOK
<1>e. ASSUME End(l) PROVE Move(k)
  BY <1>e, EndMoves DEF Move, Before
<1>1. CASE Stamp(l)
  <2>1. PICK r : r = [launch[l] EXCEPT !.pc = "checkpoint", !.stamp = gen]
    OBVIOUS
  <2>2. r.pc = "checkpoint" /\ r.auth = launch[l].auth
    BY <1>0, <2>1 DEF Launch
  <2>3. Set(l, r)
    BY <1>1, <2>1 DEF Stamp
  <2> QED BY <2>2, <2>3, SetShape DEF Move, Before
<1>2. CASE CheckpointHit(l)
  <2>1. PICK q : q = [launch[l] EXCEPT !.roots = checkpoint.roots, !.news = unseen]
    OBVIOUS
  <2>2. q.auth = launch[l].auth /\ q.news = unseen
    BY <1>0, <2>1 DEF Launch
  <2>3. Complete(l, q) /\ Hit(l)
    BY <1>2, <2>1 DEF CheckpointHit
  <2> QED BY <2>2, <2>3, CompleteMoves DEF Move, Before
<1>3. CASE CheckpointMiss(l)
  <2>0. PICK p \in {"probe", "scan"} :
          p = IF launch[l].auth = Global /\ ~launch[l].probed THEN "probe" ELSE "scan"
    OBVIOUS
  <2>1. PICK r : r = [launch[l] EXCEPT !.stamp = 0, !.pc = p]
    OBVIOUS
  <2>2. r.pc = p /\ r.auth = launch[l].auth
    BY <1>0, <2>1 DEF Launch
  <2>3. Set(l, r)
    BY <1>3, <2>0, <2>1 DEF CheckpointMiss
  <2> QED BY <2>2, <2>3, SetShape DEF Move, Before
<1>4. CASE Scan(l)
  <2>0. PICK m : m = MalformedClosure(Present)
    OBVIOUS
  <2>1. PICK p : p = IF m = {} THEN "repair" ELSE "name"
    OBVIOUS
  <2>2. PICK r : r = [launch[l] EXCEPT !.pc = p, !.malformed = m]
    OBVIOUS
  <2>3. r.pc = p /\ r.malformed = m
    BY <1>0, <2>2 DEF Launch
  <2>4. r.auth = launch[l].auth
    BY <1>0, <2>2 DEF Launch
  <2>5. End(l) \/ Goto(l, "probe") \/ Set(l, r)
    BY <1>4, <2>0, <2>1, <2>2 DEF Scan
  <2>6. CASE Goto(l, "probe")
    BY <2>6, GotoMoves DEF Move, Before, SameFound
  <2>7. CASE Set(l, r)
    BY <2>0, <2>1, <2>3, <2>4, <2>7, SetShape DEF Move
  <2> QED BY <1>e, <2>5, <2>6, <2>7
<1>5. CASE NameArchive(l)
  <2>1. PICK r : r = [launch[l] EXCEPT !.pc = "vacuum", !.stamp = gen]
    OBVIOUS
  <2>2. r.pc = "vacuum" /\ r.stamp = gen
    BY <1>0, <2>1 DEF Launch
  <2>3. r.auth = launch[l].auth /\ r.malformed = launch[l].malformed
    BY <1>0, <2>1 DEF Launch
  <2>4. r.news = launch[l].news
    BY <1>0, <2>1 DEF Launch
  <2>5. launch[l].pc = "name"
    BY <1>5 DEF NameArchive
  <2>6. (Named(gen) = {} /\ Set(l, r)) \/ (Named(gen) # {} /\ Goto(l, "repair"))
    BY <1>5, <2>1 DEF NameArchive
  <2>7. CASE Named(gen) = {} /\ Set(l, r)
    BY <2>2, <2>3, <2>4, <2>5, <2>7, SetShape DEF Move, SameFound
  <2>8. CASE Named(gen) # {} /\ Goto(l, "repair")
    BY <2>5, <2>8, GotoMoves DEF Move
  <2> QED BY <2>6, <2>7, <2>8
<1>6. CASE RefreshStamp(l)
  <2>1. PICK r : r = [launch[l] EXCEPT !.pc = "rread", !.stamp = gen, !.tries = launch[l].tries + 1]
    OBVIOUS
  <2>2. r.pc = "rread" /\ r.auth = launch[l].auth
    BY <1>0, <2>1 DEF Launch
  <2>3. r.malformed = launch[l].malformed /\ r.news = launch[l].news
    BY <1>0, <2>1 DEF Launch
  <2>4. Set(l, r) /\ launch[l].pc = "rstamp"
    BY <1>6, <2>1 DEF RefreshStamp
  <2> QED BY <2>2, <2>3, <2>4, SetShape DEF Move, SameFound, Repairing
<1>7. CASE RefreshRead(l)
  <2>1. PICK r : r = [launch[l] EXCEPT !.pc = "rafter", !.roots = Cardinality(ValidRoots(launch[l].auth))]
    OBVIOUS
  <2>2. r.pc = "rafter" /\ r.auth = launch[l].auth
    BY <1>0, <2>1 DEF Launch
  <2>3. r.malformed = launch[l].malformed /\ r.news = launch[l].news
    BY <1>0, <2>1 DEF Launch
  <2>4. (End(l) \/ Set(l, r)) /\ launch[l].pc = "rread"
    BY <1>7, <2>1 DEF RefreshRead
  <2>5. CASE Set(l, r)
    BY <2>2, <2>3, <2>4, <2>5, SetShape DEF Move, SameFound, Repairing
  <2> QED BY <1>e, <2>4, <2>5
<1>8. CASE RefreshAfter(l)
  <2>1. (Goto(l, "rwrite") \/ Goto(l, "rstamp") \/ End(l)) /\ launch[l].pc = "rafter"
    BY <1>8 DEF RefreshAfter
  <2> QED BY <1>e, <2>1, GotoMoves DEF Move, Repairing
<1>9. ASSUME NEW continue \in BOOLEAN, StartChild(l, continue) PROVE Move(k)
  <2>1. (Goto(l, "child") \/ End(l)) /\ launch[l].pc = "ready"
    BY <1>9 DEF StartChild
  <2> QED BY <1>e, <2>1, GotoMoves DEF Move
<1>10. ASSUME NEW ok \in BOOLEAN, ChildExit(l, ok) PROVE Move(k)
  <2>1. PICK r : r = [launch[l] EXCEPT !.pc = "rstamp", !.ran = TRUE, !.tries = 0]
    OBVIOUS
  <2>2. r.pc = "rstamp" /\ r.auth = launch[l].auth
    BY <1>0, <2>1 DEF Launch
  <2>3. r.malformed = launch[l].malformed /\ r.news = launch[l].news
    BY <1>0, <2>1 DEF Launch
  <2>4. (End(l) \/ (Set(l, r) /\ Authority(cache) = launch[l].auth)) /\ launch[l].pc = "child"
    BY <1>10, <2>1 DEF ChildExit
  <2>5. CASE Set(l, r) /\ Authority(cache) = launch[l].auth
    BY <2>2, <2>3, <2>4, <2>5, SetShape DEF Move, SameFound
  <2> QED BY <1>e, <2>4, <2>5
<1> QED BY <1>1, <1>2, <1>3, <1>4, <1>5, <1>6, <1>7, <1>8, <1>9, <1>10 DEF Quiet

\* What it means for a launch to be told.
LEMMA TellFields ==
    ASSUME TypeInv, NEW k \in Launches, NEW T \in SUBSET Sessions, launch'[k] = Tell(k, T)
    PROVE  /\ launch'[k].pc = launch[k].pc /\ launch'[k].auth = launch[k].auth
           /\ launch'[k].malformed = launch[k].malformed /\ launch'[k].stamp = launch[k].stamp
           /\ launch[k].pc \notin Before => launch'[k].news = launch[k].news \union T
<1>0. launch[k] \in Launch
  BY DEF TypeInv, TypeOK
<1>1. PICK r : r = [launch[k] EXCEPT !.news = launch[k].news \union T]
  OBVIOUS
<1>2. r.pc = launch[k].pc /\ r.auth = launch[k].auth
  BY <1>0, <1>1 DEF Launch
<1>3. r.malformed = launch[k].malformed /\ r.stamp = launch[k].stamp
  BY <1>0, <1>1 DEF Launch
<1>4. r.news = launch[k].news \union T
  BY <1>0, <1>1 DEF Launch
<1>5. launch'[k] = IF launch[k].pc \notin Before THEN r ELSE launch[k]
  BY <1>1 DEF Tell, Scanned, Before
<1> QED BY <1>2, <1>3, <1>4, <1>5

-----------------------------------------------------------------------------
(* Archives. *)

\* What a launch is going to remove is still there or archived, or deleted by
\* a child; once it stops looking it is archived, or was deleted.
Covered(l) ==
    /\ launch[l].pc \in {"name", "vacuum"}
         => launch[l].malformed \subseteq Present \union Archived \union deleted
    /\ launch[l].pc = "vacuum" =>
         /\ launch[l].stamp <= gen
         /\ Named(launch[l].stamp) # {} => launch[l].malformed \subseteq Archived \union deleted
    /\ launch[l].pc = "repair" => launch[l].malformed \subseteq Archived \union deleted

\* An archive named for the current generation holds the whole store.
ArchivesNamed ==
    \A a \in archives : a.name <= gen /\ (a.name = gen => Present \subseteq a.held)

ArchiveInv == ArchivedBeforeRemoved /\ ArchivesNamed /\ \A l \in Launches : Covered(l)

\* A step of another launch, of a child or of a migration: sessions leave the
\* store only into a repair's or a child's hands.
LEMMA CoveredKept ==
    ASSUME TypeInv, TypeInv', NEW k \in Launches, Covered(k), gen' >= gen,
           launch'[k].pc = launch[k].pc, launch'[k].malformed = launch[k].malformed,
           launch'[k].stamp = launch[k].stamp, archives' = archives, deleted \subseteq deleted',
           Present \subseteq Present' \union Archived \union deleted'
    PROVE  Covered(k)'
<1>1. Archived' = Archived
  BY DEF Archived
<1>2. launch[k].stamp \in Nat /\ gen \in Nat /\ gen' \in Nat
  BY DEF TypeInv, TypeOK, Launch
<1>3. (launch[k].stamp <= gen) => launch[k].stamp <= gen'
  BY <1>2
<1>4. Named(launch[k].stamp)' = Named(launch[k].stamp)
  BY DEF Named
<1> QED BY <1>1, <1>3, <1>4 DEF Covered

\* Archives only have to be looked at again when the store has changed.
LEMMA NamedKept ==
    ASSUME TypeInv, TypeInv', ArchivesNamed, archives' = archives,
           gen' > gen \/ (gen' = gen /\ sess' = sess)
    PROVE  ArchivesNamed'
<1>1. \A a \in archives : a.name \in Nat
  BY DEF TypeInv, TypeOK
<1>2. gen \in Nat /\ gen' \in Nat
  BY DEF TypeInv, TypeOK
<1>3. sess' = sess => Present' = Present
  BY DEF Present
<1> QED BY <1>1, <1>2, <1>3 DEF ArchivesNamed

LEMMA QuietArchived ==
    ASSUME TypeInv, TypeInv', ArchiveInv, NEW l \in Launches, Quiet(l)
    PROVE  ArchiveInv'
<1>f. UNCHANGED <<sess, gen, archives, removed, deleted>>
  BY QuietFrame DEF ghosts
<1>p. Present' = Present /\ Archived' = Archived
  BY <1>f DEF Present, Archived
<1>1. ArchivedBeforeRemoved'
  BY <1>f, <1>p DEF ArchiveInv, ArchivedBeforeRemoved
<1>2. ArchivesNamed'
  BY <1>f, <1>p DEF ArchiveInv, ArchivesNamed
<1>3. ASSUME NEW k \in Launches PROVE Covered(k)'
  <2>0. Covered(k) /\ Move(k)
    BY QuietMoves DEF ArchiveInv
  <2>g. gen \in Nat
    BY DEF TypeInv, TypeOK
  <2>1. CASE launch'[k] = launch[k]
    <3>1. Named(launch[k].stamp)' = Named(launch[k].stamp)
      BY <1>f, <2>1 DEF Named
    <3> QED BY <1>f, <1>p, <2>0, <2>1, <3>1 DEF Covered
  <2>2. CASE launch'[k].pc \notin Finding
    BY <2>2 DEF Covered, Finding
  <2>3. CASE /\ launch'[k].pc = IF MalformedClosure(Present) = {} THEN "repair" ELSE "name"
             /\ launch'[k].malformed = MalformedClosure(Present)
    <3>1. MalformedClosure(Present) \subseteq Present
      BY DEF MalformedClosure
    <3> QED BY <1>p, <2>3, <3>1 DEF Covered
  <2>4. CASE launch[k].pc = "name" /\ SameFound(k) /\ launch'[k].pc = "vacuum"
             /\ launch'[k].stamp = gen /\ Named(gen) = {}
    <3>1. Named(launch[k].stamp)' = {}
      BY <1>f, <2>4 DEF Named
    <3> QED BY <1>f, <1>p, <2>0, <2>4, <2>g, <3>1 DEF Covered, SameFound
  <2>5. CASE launch[k].pc = "name" /\ SameFound(k) /\ launch'[k].pc = "repair" /\ Named(gen) # {}
    <3>1. PICK a \in archives : a.name = gen
      BY <2>5 DEF Named
    <3>2. Present \subseteq a.held
      BY <3>1 DEF ArchiveInv, ArchivesNamed
    <3>3. Present \subseteq Archived
      BY <3>2 DEF Archived
    <3> QED BY <1>f, <1>p, <2>0, <2>5, <3>3 DEF Covered, SameFound
  <2> QED BY <2>0, <2>1, <2>2, <2>3, <2>4, <2>5 DEF Move, Before, Finding, Repairing
<1> QED BY <1>1, <1>2, <1>3 DEF ArchiveInv

\* The archive a launch makes, or finds made under its name, covers it.
LEMMA VacuumArchived ==
    ASSUME TypeInv, TypeInv', ArchiveInv, NEW l \in Launches, VacuumInto(l)
    PROVE  ArchiveInv'
<1>f. UNCHANGED <<sess, gen, removed, deleted>> /\ launch[l].pc = "vacuum"
  BY DEF VacuumInto, ghosts
<1>p. Present' = Present
  BY <1>f DEF Present
<1>a. archives' = IF Named(launch[l].stamp) = {}
                  THEN archives \union {[name |-> launch[l].stamp, held |-> Present]} ELSE archives
  BY DEF VacuumInto
<1>t. launch[l].stamp \in Nat /\ launch[l].stamp <= gen /\ gen \in Nat
  BY <1>f DEF TypeInv, TypeOK, Launch, ArchiveInv, Covered
<1>i. ArchivesNamed /\ \A k \in Launches : Covered(k)
  BY DEF ArchiveInv
<1>1. Archived \subseteq Archived'
  BY <1>a DEF Archived
<1>2. ArchivedBeforeRemoved'
  BY <1>f, <1>1 DEF ArchiveInv, ArchivedBeforeRemoved
<1>3. ArchivesNamed'
  BY <1>f, <1>p, <1>a, <1>t, <1>i DEF ArchivesNamed
<1>4. Named(launch[l].stamp) = {} => Present \subseteq Archived'
  <2> SUFFICES ASSUME Named(launch[l].stamp) = {} PROVE Present \subseteq Archived'
    OBVIOUS
  <2>1. PICK a : a = [name |-> launch[l].stamp, held |-> Present]
    OBVIOUS
  <2>2. a \in archives' /\ a.held = Present
    BY <1>a, <2>1
  <2> QED BY <2>2 DEF Archived
<1>5. launch[l].malformed \subseteq Archived' \union deleted'
  BY <1>f, <1>i, <1>1, <1>4 DEF Covered
<1>6. ASSUME NEW k \in Launches PROVE Covered(k)'
  <2>0. launch[l] \in Launch
    BY DEF TypeInv, TypeOK
  <2>1. PICK r : r = [launch[l] EXCEPT !.pc = "repair", !.stamp = 0]
    OBVIOUS
  <2>2. r.pc = "repair" /\ r.malformed = launch[l].malformed
    BY <2>0, <2>1 DEF Launch
  <2>3. launch'[k] = IF k = l THEN r ELSE launch[k]
    BY <2>1, SetShape DEF VacuumInto
  <2>4. CASE k = l
    BY <1>5, <2>2, <2>3, <2>4 DEF Covered
  <2>5. CASE k # l
    <3>0. launch'[k] = launch[k] /\ Covered(k)
      BY <1>i, <2>3, <2>5
    <3>1. ASSUME launch[k].pc = "vacuum", Named(launch[k].stamp)' # {}
          PROVE  launch[k].malformed \subseteq Archived' \union deleted'
      <4>1. CASE Named(launch[k].stamp) # {}
        BY <1>f, <1>1, <3>0, <3>1, <4>1 DEF Covered
      <4>2. CASE Named(launch[k].stamp) = {}
        <5>1. PICK a \in archives' : a.name = launch[k].stamp
          BY <3>0, <3>1 DEF Named
        <5>2. a \notin archives
          BY <4>2, <5>1 DEF Named
        <5>3. Named(launch[l].stamp) = {}
          BY <1>a, <5>1, <5>2
        <5> QED BY <1>f, <1>1, <1>4, <3>0, <3>1, <5>3 DEF Covered
      <4> QED BY <4>1, <4>2
    <3>2. launch[k].pc \in {"name", "vacuum"}
            => launch[k].malformed \subseteq Present' \union Archived' \union deleted'
      BY <1>f, <1>p, <1>1, <3>0 DEF Covered
    <3>3. launch[k].pc = "repair" => launch[k].malformed \subseteq Archived' \union deleted'
      BY <1>f, <1>1, <3>0 DEF Covered
    <3> QED BY <1>f, <3>0, <3>1, <3>2, <3>3 DEF Covered
  <2> QED BY <2>4, <2>5
<1> QED BY <1>2, <1>3, <1>6 DEF ArchiveInv

\* What a repair removes is among what its launch found.
LEMMA RepairArchived ==
    ASSUME TypeInv, TypeInv', ArchiveInv, NEW l \in Launches, Repair(l),
           gen' > gen \/ (gen' = gen /\ sess' = sess)
    PROVE  ArchiveInv'
<1>f. /\ launch[l].pc = "repair" /\ UNCHANGED <<archives, deleted>>
      /\ sess' = Repaired(l) /\ removed' = removed \union {s \in Present : Repaired(l)[s] = NoSession}
  BY DEF Repair
<1>t. gen \in Nat /\ gen' \in Nat /\ launch[l] \in Launch
  BY DEF TypeInv, TypeOK
<1>i. ArchivesNamed /\ ArchivedBeforeRemoved /\ \A k \in Launches : Covered(k)
  BY DEF ArchiveInv
<1>a. Archived' = Archived
  BY <1>f DEF Archived
<1>1. launch[l].malformed \subseteq Archived \union deleted
  BY <1>f, <1>i DEF Covered
<1>2. \A s \in Present : Repaired(l)[s] = NoSession => s \in launch[l].malformed
  <2>1. launch[l].auth # NoSession
    BY <1>t, RepairAssumption DEF Launch, Authorities
  <2> QED BY <2>1 DEF Repaired, Present
<1>3. ArchivedBeforeRemoved'
  BY <1>f, <1>i, <1>a, <1>1, <1>2 DEF ArchivedBeforeRemoved
<1>4. Present \subseteq Present' \union Archived \union deleted'
  <2> SUFFICES ASSUME NEW s \in Present, s \notin Present' PROVE s \in Archived \union deleted'
    OBVIOUS
  <2>1. Repaired(l)[s] = NoSession
    BY <1>f DEF Present
  <2> QED BY <1>f, <1>1, <1>2, <2>1
<1>5. ArchivesNamed'
  BY <1>f, <1>i, NamedKept
<1>6. ASSUME NEW k \in Launches PROVE Covered(k)'
  <2>1. CASE k = l
    <3>1. PICK r : r = [launch[l] EXCEPT !.pc = "rstamp"]
      OBVIOUS
    <3>2. r.pc = "rstamp"
      BY <1>t, <3>1 DEF Launch
    <3>3. launch'[k] = r
      BY <2>1, <3>1 DEF Repair
    <3> QED BY <3>2, <3>3 DEF Covered
  <2>2. CASE k # l
    <3>1. PICK T \in SUBSET Sessions : T = Written(Repaired(l))
      BY DEF Written
    <3>2. launch'[k] = Tell(k, T)
      BY <2>2, <3>1 DEF Repair
    <3>3. /\ launch'[k].pc = launch[k].pc /\ launch'[k].malformed = launch[k].malformed
          /\ launch'[k].stamp = launch[k].stamp
      BY <3>2, TellFields
    <3>4. gen' >= gen
      BY <1>t
    <3> QED BY <1>f, <1>i, <1>4, <3>3, <3>4, CoveredKept
  <2> QED BY <2>1, <2>2
<1> QED BY <1>3, <1>5, <1>6 DEF ArchiveInv

\* The other steps archive and repair nothing.
LEMMA OtherArchived ==
    ASSUME TypeInv, TypeInv', ArchiveInv, gen' > gen \/ (gen' = gen /\ sess' = sess),
           UNCHANGED <<archives, removed>>, deleted \subseteq deleted',
           Present \subseteq Present' \union deleted',
           \A k \in Launches :
             \/ launch'[k].pc \in Before \union {"ready"}
             \/ /\ launch'[k].pc = launch[k].pc /\ launch'[k].malformed = launch[k].malformed
                /\ launch'[k].stamp = launch[k].stamp
    PROVE  ArchiveInv'
<1>t. gen \in Nat /\ gen' \in Nat
  BY DEF TypeInv, TypeOK
<1>i. ArchivesNamed /\ ArchivedBeforeRemoved /\ \A k \in Launches : Covered(k)
  BY DEF ArchiveInv
<1>1. ArchivesNamed'
  BY <1>i, NamedKept
<1>2. ArchivedBeforeRemoved'
  BY <1>i DEF ArchivedBeforeRemoved, Archived
<1>3. ASSUME NEW k \in Launches PROVE Covered(k)'
  <2>1. CASE launch'[k].pc \in Before \union {"ready"}
    BY <2>1 DEF Covered, Before
  <2>2. CASE /\ launch'[k].pc = launch[k].pc /\ launch'[k].malformed = launch[k].malformed
             /\ launch'[k].stamp = launch[k].stamp
    <3>1. gen' >= gen
      BY <1>t
    <3> QED BY <1>i, <2>2, <3>1, CoveredKept
  <2> QED BY <2>1, <2>2
<1> QED BY <1>1, <1>2, <1>3 DEF ArchiveInv

LEMMA LoudArchived ==
    ASSUME TypeInv, TypeInv', ArchiveInv, Loud, Next
    PROVE  ArchiveInv'
<1>g. gen' > gen \/ (gen' = gen /\ sess' = sess)
  BY GenerationMoves
<1> DEFINE Free(k) == \/ launch'[k].pc \in Before \union {"ready"}
                      \/ /\ launch'[k].pc = launch[k].pc /\ launch'[k].malformed = launch[k].malformed
                         /\ launch'[k].stamp = launch[k].stamp
<1>1. ASSUME NEW l \in Launches, Start(l) PROVE ArchiveInv'
  <2>1. PICK r : r = [IdleLaunch EXCEPT !.pc = "stamp", !.auth = Authority(cache)]
    OBVIOUS
  <2>2. r.pc = "stamp"
    BY <2>1, IdleTyped DEF Launch
  <2>3. \A k \in Launches : Free(k)
    BY <1>1, <2>1, <2>2, SetShape DEF Start, Before
  <2> QED BY <1>1, <1>g, <2>3, OtherArchived DEF Start, ghosts, Present
<1>2. ASSUME NEW l \in Launches, Probe(l) PROVE ArchiveInv'
  <2>0. launch[l] \in Launch
    BY DEF TypeInv, TypeOK
  <2>1. PICK c, ok :
          End(l) \/ Set(l, [launch[l] EXCEPT !.pc = "stamp", !.auth = Authority(c),
                                          !.probed = TRUE, !.probeOk = ok])
    BY <1>2 DEF Probe
  <2>2. PICK r : r = [launch[l] EXCEPT !.pc = "stamp", !.auth = Authority(c), !.probed = TRUE, !.probeOk = ok]
    OBVIOUS
  <2>3. r.pc = "stamp"
    BY <2>0, <2>2 DEF Launch
  <2>4. CASE End(l)
    <3>1. \A k \in Launches : Free(k)
      BY <2>4, EndMoves DEF Before
    <3> QED BY <1>2, <1>g, <3>1, OtherArchived DEF Probe, ghosts, Present
  <2>5. CASE Set(l, r)
    <3>1. \A k \in Launches : Free(k)
      BY <2>3, <2>5, SetShape DEF Before
    <3> QED BY <1>2, <1>g, <3>1, OtherArchived DEF Probe, ghosts, Present
  <2> QED BY <2>1, <2>2, <2>4, <2>5
<1>3. ASSUME NEW l \in Launches, WriteCheckpoint(l) PROVE ArchiveInv'
  <2>1. End(l) \/ Complete(l, launch[l])
    BY <1>3 DEF WriteCheckpoint
  <2>2. \A k \in Launches : Free(k)
    BY <2>1, EndMoves, CompleteMoves DEF Before
  <2> QED BY <1>3, <1>g, <2>2, OtherArchived DEF WriteCheckpoint, Present
<1>4. ASSUME NEW l \in Launches, Crash(l) PROVE ArchiveInv'
  <2>1. \A k \in Launches : Free(k)
    BY <1>4, EndMoves DEF Crash, Before
  <2> QED BY <1>4, <1>g, <2>1, OtherArchived DEF Crash, ghosts, Present
<1>5. ASSUME NEW l \in Launches, NEW s \in Sessions, NEW c \in Ids \union {NoCache}, ChildAdd(l, s, c)
      PROVE  ArchiveInv'
  <2>1. {s} \in SUBSET Sessions
    OBVIOUS
  <2>2. ASSUME NEW k \in Launches PROVE Free(k)
    <3>1. launch'[k] = launch[k] \/ launch'[k] = Tell(k, {s})
      BY <1>5 DEF ChildAdd
    <3> QED BY <2>1, <3>1, TellFields
  <2>3. Present \subseteq Present' \union deleted'
    <3>1. sess' = [sess EXCEPT ![s] = Authority(c)] /\ s \notin Present
      BY <1>5 DEF ChildAdd
    <3> QED BY <3>1 DEF TypeInv, TypeOK, Present
  <2> QED BY <1>5, <1>g, <2>2, <2>3, OtherArchived DEF ChildAdd, ghosts
<1>6. ASSUME NEW l \in Launches, NEW s \in Sessions, ChildDelete(l, s) PROVE ArchiveInv'
  <2>1. \A k \in Launches : Free(k)
    BY <1>6 DEF ChildDelete
  <2>2. Present \subseteq Present' \union deleted' /\ deleted \subseteq deleted'
    <3>1. sess' = [sess EXCEPT ![s] = NoSession] /\ deleted' = deleted \union {s}
      BY <1>6 DEF ChildDelete
    <3> QED BY <3>1 DEF TypeInv, TypeOK, Present
  <2> QED BY <1>6, <1>g, <2>1, <2>2, OtherArchived DEF ChildDelete
<1>7. ASSUME NEW s \in Sessions, NEW a \in Authorities, Merge(s, a) PROVE ArchiveInv'
  <2>1. {s} \in SUBSET Sessions
    OBVIOUS
  <2>2. ASSUME NEW k \in Launches PROVE Free(k)
    <3>1. launch'[k] = Tell(k, {s})
      BY <1>7 DEF Merge
    <3> QED BY <2>1, <3>1, TellFields
  <2>3. Present \subseteq Present' \union deleted'
    <3>1. sess' = [sess EXCEPT ![s] = a] /\ s \notin Present
      BY <1>7 DEF Merge
    <3> QED BY <3>1 DEF TypeInv, TypeOK, Present
  <2> QED BY <1>7, <1>g, <2>2, <2>3, OtherArchived DEF Merge, ghosts
<1> QED BY <1>g, <1>1, <1>2, <1>3, <1>4, <1>5, <1>6, <1>7, VacuumArchived, RepairArchived DEF Loud

\* Whatever launches, children and migrations do in between, a repair removes
\* only sessions an archive has a copy of, or that a child had deleted
\* (archive_private_database, remove_malformed_graph).
THEOREM ArchivedFirst == Spec => []ArchivedBeforeRemoved
<1>1. Init => ArchiveInv
  BY IdleTyped DEF Init, ArchiveInv, ArchivedBeforeRemoved, ArchivesNamed, Covered
<1>2. TypeInv /\ TypeInv' /\ ArchiveInv /\ [Next]_vars => ArchiveInv'
  <2> SUFFICES ASSUME TypeInv, TypeInv', ArchiveInv, [Next]_vars PROVE ArchiveInv'
    OBVIOUS
  <2>1. CASE UNCHANGED vars
    BY <2>1 DEF vars, ArchiveInv, ArchivedBeforeRemoved, ArchivesNamed, Covered, Present, Archived, Named
  <2>2. CASE Next
    BY <2>2, NextSplit, QuietArchived, LoudArchived
  <2> QED BY <2>1, <2>2
<1>3. ArchiveInv => ArchivedBeforeRemoved
  BY DEF ArchiveInv
<1> QED BY <1>1, <1>2, <1>3, TypeCorrect, PTL DEF Spec, TypeInv

-----------------------------------------------------------------------------
(* Malformed sessions and what was started from a session. *)

Seeded(s) == s \notin WellFormed \/ Parent[s] \in Sessions \ WellFormed
ClosedIn(S, T) == \A s \in S : Seeded(s) \/ Parent[s] \in T => s \in T

\* The closure is the least closed set.
LEMMA ClosureLeast ==
    ASSUME NEW S, NEW T \in SUBSET S, ClosedIn(S, T)
    PROVE  MalformedClosure(S) \subseteq T
BY DEF MalformedClosure, ClosedIn, Seeded

LEMMA ClosureClosed ==
    ASSUME NEW S
    PROVE  MalformedClosure(S) \subseteq S /\ ClosedIn(S, MalformedClosure(S))
<1>1. MalformedClosure(S) \subseteq S
  BY DEF MalformedClosure
<1>2. ASSUME NEW s \in S, Seeded(s) \/ Parent[s] \in MalformedClosure(S)
      PROVE  s \in MalformedClosure(S)
  <2>1. ASSUME NEW T \in SUBSET S, ClosedIn(S, T) PROVE s \in T
    BY <1>2, <2>1, ClosureLeast DEF ClosedIn
  <2> QED BY <2>1 DEF MalformedClosure, ClosedIn, Seeded
<1> QED BY <1>1, <1>2 DEF ClosedIn

\* What was started from a set of sessions has them and is closed.
LEMMA StartedClosed ==
    ASSUME NEW T \in SUBSET Sessions
    PROVE  /\ T \subseteq StartedFrom(T) /\ StartedFrom(T) \subseteq Sessions
           /\ \A c \in Sessions : Parent[c] \in StartedFrom(T) => c \in StartedFrom(T)
BY DEF StartedFrom

LEMMA StartedGrows ==
    ASSUME NEW T, NEW U, T \subseteq U
    PROVE  StartedFrom(T) \subseteq StartedFrom(U)
BY DEF StartedFrom

\* Sessions that come into a store make malformed only themselves and what was
\* started from them.
LEMMA ClosureGrows ==
    ASSUME NEW S \in SUBSET Sessions, NEW W \in SUBSET Sessions, NEW R \in SUBSET (S \union W)
    PROVE  MalformedClosure(R) \subseteq MalformedClosure(S) \union StartedFrom(W)
<1> DEFINE T == (MalformedClosure(S) \union StartedFrom(W)) \intersect R
<1>1. MalformedClosure(S) \subseteq S /\ ClosedIn(S, MalformedClosure(S))
  BY ClosureClosed
<1>2. /\ W \subseteq StartedFrom(W) /\ StartedFrom(W) \subseteq Sessions
      /\ \A c \in Sessions : Parent[c] \in StartedFrom(W) => c \in StartedFrom(W)
  BY StartedClosed
<1>3. ASSUME NEW x \in R, Seeded(x) \/ Parent[x] \in T PROVE x \in T
  <2>1. CASE x \in W
    BY <1>2, <1>3, <2>1
  <2>2. CASE x \in S
    BY <1>1, <1>2, <1>3, <2>2 DEF ClosedIn
  <2> QED BY <1>3, <2>1, <2>2
<1>4. T \in SUBSET R /\ ClosedIn(R, T)
  BY <1>3 DEF ClosedIn
<1> HIDE DEF T
<1>5. MalformedClosure(R) \subseteq T
  BY <1>4, ClosureLeast
<1> QED BY <1>5 DEF T

\* A session that starts from a sound one, or from none, makes none malformed.
LEMMA ClosureOwn ==
    ASSUME NEW S \in SUBSET Sessions, NEW s \in WellFormed,
           Parent[s] \in (S \ MalformedClosure(S)) \union {NoParent}
    PROVE  MalformedClosure(S \union {s}) \subseteq MalformedClosure(S)
<1>1. MalformedClosure(S) \subseteq S /\ ClosedIn(S, MalformedClosure(S))
  BY ClosureClosed
<1>2. Parent[s] \notin MalformedClosure(S)
  BY <1>1, RepairAssumption
<1>3. ~Seeded(s)
  <2> SUFFICES ASSUME Seeded(s) PROVE FALSE
    OBVIOUS
  <2>1. Parent[s] \in Sessions \ WellFormed /\ Parent[s] \in S
    BY RepairAssumption DEF Seeded
  <2>2. Seeded(Parent[s])
    BY <2>1 DEF Seeded
  <2> QED BY <1>1, <1>2, <2>1, <2>2 DEF ClosedIn
<1>4. ClosedIn(S \union {s}, MalformedClosure(S))
  BY <1>1, <1>2, <1>3 DEF ClosedIn
<1> QED BY <1>1, <1>4, ClosureLeast

-----------------------------------------------------------------------------
(* What a checkpoint vouches for. *)

PresentIn(f) == {s \in Sessions : f[s] # NoSession}

\* In the store f everything is sound and a's, but for what was started from N.
CleanIn(f, a, N) ==
    \A s \in Sessions :
        s \in MalformedClosure(PresentIn(f)) \/ (s \in PresentIn(f) /\ f[s] # a) => s \in StartedFrom(N)

\* Writes of others are among the news; what disappears does no harm.
LEMMA WritesClean ==
    ASSUME NEW f, NEW g, NEW a, NEW N \in SUBSET Sessions, NEW W \in SUBSET Sessions,
           \A s \in Sessions \ W : g[s] = f[s] \/ g[s] = NoSession,
           CleanIn(f, a, N)
    PROVE  CleanIn(g, a, N \union W)
<1>1. MalformedClosure(PresentIn(g)) \subseteq MalformedClosure(PresentIn(f)) \union StartedFrom(W)
  <2>1. PresentIn(f) \in SUBSET Sessions /\ PresentIn(g) \in SUBSET (PresentIn(f) \union W)
    BY DEF PresentIn
  <2> QED BY <2>1, ClosureGrows
<1>2. /\ StartedFrom(W) \subseteq StartedFrom(N \union W)
      /\ StartedFrom(N) \subseteq StartedFrom(N \union W)
  BY StartedGrows
<1>3. W \subseteq StartedFrom(W)
  BY StartedClosed
<1>4. ASSUME NEW s \in PresentIn(g), g[s] # a, s \notin W PROVE s \in StartedFrom(N)
  BY <1>4 DEF CleanIn, PresentIn
<1>5. MalformedClosure(PresentIn(f)) \subseteq StartedFrom(N)
  <2>1. MalformedClosure(PresentIn(f)) \subseteq Sessions
    BY ClosureClosed DEF PresentIn
  <2> QED BY <2>1 DEF CleanIn
<1> QED BY <1>1, <1>2, <1>3, <1>4, <1>5 DEF CleanIn

\* The same of what a launch has found.
LEMMA WritesFound ==
    ASSUME NEW f, NEW g, NEW M, NEW N \in SUBSET Sessions, NEW W \in SUBSET Sessions,
           \A s \in Sessions \ W : g[s] = f[s] \/ g[s] = NoSession,
           MalformedClosure(PresentIn(f)) \subseteq M \union StartedFrom(N)
    PROVE  MalformedClosure(PresentIn(g)) \subseteq M \union StartedFrom(N \union W)
<1>1. MalformedClosure(PresentIn(g)) \subseteq MalformedClosure(PresentIn(f)) \union StartedFrom(W)
  <2>1. PresentIn(f) \in SUBSET Sessions /\ PresentIn(g) \in SUBSET (PresentIn(f) \union W)
    BY DEF PresentIn
  <2> QED BY <2>1, ClosureGrows
<1>2. /\ StartedFrom(W) \subseteq StartedFrom(N \union W)
      /\ StartedFrom(N) \subseteq StartedFrom(N \union W)
  BY StartedGrows
<1> QED BY <1>1, <1>2

\* A repair of what was found leaves a store that is clean but for the news.
LEMMA RepairCleans ==
    ASSUME NEW f, NEW g, NEW a, NEW M, NEW N \in SUBSET Sessions,
           MalformedClosure(PresentIn(f)) \subseteq M \union StartedFrom(N),
           \A s \in Sessions : g[s] = IF s \in M THEN NoSession
                                      ELSE IF s \in PresentIn(f) \intersect WellFormed THEN a ELSE f[s]
    PROVE  CleanIn(g, a, N)
<1>1. PresentIn(g) \subseteq PresentIn(f) /\ PresentIn(g) \intersect M = {}
  BY DEF PresentIn
<1>2. MalformedClosure(PresentIn(g)) \subseteq MalformedClosure(PresentIn(f)) \union StartedFrom({})
  <2>1. PresentIn(f) \in SUBSET Sessions /\ PresentIn(g) \in SUBSET (PresentIn(f) \union {})
    BY <1>1 DEF PresentIn
  <2> QED BY <2>1, ClosureGrows
<1>3. StartedFrom({}) \subseteq StartedFrom(N)
  BY StartedGrows
<1>4. MalformedClosure(PresentIn(g)) \subseteq PresentIn(g)
  BY ClosureClosed
<1>5. ASSUME NEW s \in PresentIn(g), g[s] # a PROVE s \in StartedFrom(N)
  <2>1. s \notin WellFormed /\ s \in PresentIn(f) /\ s \notin M
    BY <1>1, <1>5 DEF PresentIn
  <2>2. s \in MalformedClosure(PresentIn(f))
    BY <2>1, ClosureClosed DEF ClosedIn, Seeded
  <2> QED BY <2>1, <2>2
<1> QED BY <1>1, <1>2, <1>3, <1>4, <1>5 DEF CleanIn

\* A launch has found all that is malformed but for its news; after its repair
\* all is clean but for its news, as long as OpenCode takes the checkout for
\* the project the launch does; and an id, once cached, stays.
Vouched(l) ==
    /\ launch[l].auth = Global \/ launch[l].auth = cache
    /\ launch[l].pc \in Finding
         => MalformedClosure(PresentIn(sess)) \subseteq launch[l].malformed \union StartedFrom(launch[l].news)
    /\ launch[l].pc \in Repairing => CleanIn(sess, launch[l].auth, launch[l].news)
    /\ launch[l].pc \in {"ready", "child"} /\ Authority(cache) = launch[l].auth
         => CleanIn(sess, launch[l].auth, launch[l].news)

Vouching == checkpoint.gen = gen => CleanIn(sess, checkpoint.auth, unseen)

VouchInv == Vouching /\ checkpoint.gen <= gen /\ \A l \in Launches : Vouched(l)

LEMMA PresentSame == Present = PresentIn(sess) /\ Present' = PresentIn(sess')
BY DEF Present, PresentIn

LEMMA VouchingMeans == Vouching => CheckpointVouches
BY PresentSame DEF Vouching, CheckpointVouches, CleanIn, Bad

\* A step that leaves a launch alone, or tells it what it writes.
LEMMA VouchedTold ==
    ASSUME TypeInv, TypeInv', NEW k \in Launches, Vouched(k), NEW W \in SUBSET Sessions,
           \A s \in Sessions \ W : sess'[s] = sess[s] \/ sess'[s] = NoSession,
           \/ launch'[k] = Tell(k, W)
           \/ W = {} /\ launch'[k] = launch[k],
           cache' = cache \/ (cache = NoCache /\ cache' \in Ids)
    PROVE  Vouched(k)'
<1>1. /\ launch'[k].pc = launch[k].pc /\ launch'[k].auth = launch[k].auth
      /\ launch'[k].malformed = launch[k].malformed
      /\ launch[k].pc \notin Before => launch'[k].news = launch[k].news \union W
  BY TellFields
<1>2. launch[k].news \in SUBSET Sessions /\ launch[k].auth \in Authorities
  BY DEF TypeInv, TypeOK, Launch
<1>3. launch[k].auth = Global \/ launch[k].auth = cache'
  BY <1>2, RepairAssumption DEF Vouched, Authorities
<1>4. launch[k].pc \in Finding => MalformedClosure(PresentIn(sess'))
        \subseteq launch[k].malformed \union StartedFrom(launch[k].news \union W)
  BY <1>2, WritesFound DEF Vouched
<1>5. CleanIn(sess, launch[k].auth, launch[k].news)
        => CleanIn(sess', launch[k].auth, launch[k].news \union W)
  BY <1>2, WritesClean
<1>6. Authority(cache') = launch[k].auth => Authority(cache) = launch[k].auth
  BY <1>2, RepairAssumption DEF Vouched, Authority, Authorities
<1>7. launch[k].pc \in Finding \union Repairing \union {"ready", "child"} => launch[k].pc \notin Before
  BY DEF Finding, Repairing, Before
<1> QED BY <1>1, <1>3, <1>4, <1>5, <1>6, <1>7 DEF Vouched

LEMMA QuietVouched ==
    ASSUME TypeInv, TypeInv', VouchInv, NEW l \in Launches, Quiet(l)
    PROVE  VouchInv'
<1>f. UNCHANGED <<sess, gen, cache, checkpoint, unseen>>
  BY QuietFrame DEF ghosts
<1>1. Vouching' /\ checkpoint'.gen <= gen'
  BY <1>f DEF VouchInv, Vouching
<1>2. ASSUME NEW k \in Launches PROVE Vouched(k)'
  <2>0. Vouched(k) /\ Move(k)
    BY QuietMoves DEF VouchInv
  <2>1. CASE launch'[k] = launch[k]
    BY <1>f, <2>0, <2>1 DEF Vouched
  <2>2. CASE launch'[k].pc \in Before /\ (launch'[k].auth = Global \/ launch'[k].auth = launch[k].auth)
    BY <1>f, <2>0, <2>2 DEF Vouched, Before, Finding, Repairing
  <2>3. CASE /\ Hit(k) /\ launch'[k].pc = "ready"
             /\ launch'[k].auth = launch[k].auth /\ launch'[k].news = unseen
    <3>1. checkpoint.gen = gen /\ checkpoint.auth = launch[k].auth
      BY <2>3 DEF Hit
    <3>2. CleanIn(sess, launch[k].auth, unseen)
      BY <3>1 DEF VouchInv, Vouching
    <3> QED BY <1>f, <2>0, <2>3, <3>2 DEF Vouched, Finding, Repairing
  <2>4. CASE /\ launch'[k].pc = IF MalformedClosure(Present) = {} THEN "repair" ELSE "name"
             /\ launch'[k].malformed = MalformedClosure(Present) /\ launch'[k].auth = launch[k].auth
    <3>1. launch'[k].pc \in {"repair", "name"}
      BY <2>4
    <3> QED BY <1>f, <2>0, <2>4, <3>1, PresentSame DEF Vouched, Repairing
  <2>5. CASE launch[k].pc = "name" /\ SameFound(k) /\ launch'[k].pc \in {"vacuum", "repair"}
    BY <1>f, <2>0, <2>5 DEF Vouched, SameFound, Finding, Repairing
  <2>6. CASE launch[k].pc \in Repairing /\ launch'[k].pc \in Repairing /\ SameFound(k)
    BY <1>f, <2>0, <2>6 DEF Vouched, SameFound, Finding, Repairing
  <2>7. CASE launch[k].pc = "ready" /\ launch'[k].pc = "child" /\ SameFound(k)
    BY <1>f, <2>0, <2>7 DEF Vouched, SameFound, Finding, Repairing
  <2>8. CASE /\ launch[k].pc = "child" /\ launch'[k].pc = "rstamp" /\ SameFound(k)
             /\ Authority(cache) = launch[k].auth
    BY <1>f, <2>0, <2>8 DEF Vouched, SameFound, Finding, Repairing
  <2> QED BY <2>0, <2>1, <2>2, <2>3, <2>4, <2>5, <2>6, <2>7, <2>8 DEF Move
<1> QED BY <1>1, <1>2 DEF VouchInv

\* A checkpoint that stays is accepted only while the store does.
LEMMA VouchingKept ==
    ASSUME TypeInv, TypeInv', VouchInv, gen' > gen \/ (gen' = gen /\ sess' = sess),
           UNCHANGED <<checkpoint, unseen>>
    PROVE  Vouching' /\ checkpoint'.gen <= gen'
<1>1. gen \in Nat /\ gen' \in Nat /\ checkpoint.gen \in Nat
  BY DEF TypeInv, TypeOK
<1> QED BY <1>1 DEF VouchInv, Vouching

\* A step that changes the records of at most one launch.
LEMMA OneVouched ==
    ASSUME TypeInv, TypeInv', VouchInv, NEW l \in Launches, sess' = sess,
           cache' = cache \/ (cache = NoCache /\ cache' \in Ids),
           \A k \in Launches \ {l} : launch'[k] = launch[k],
           Vouched(l)', NEW k \in Launches
    PROVE  Vouched(k)'
<1>1. CASE k = l
  BY <1>1
<1>2. CASE k # l
  <2>1. {} \in SUBSET Sessions /\ launch'[k] = launch[k] /\ Vouched(k)
    BY <1>2 DEF VouchInv
  <2>2. \A s \in Sessions \ {} : sess'[s] = sess[s] \/ sess'[s] = NoSession
    OBVIOUS
  <2> QED BY <2>1, <2>2, VouchedTold
<1> QED BY <1>1, <1>2

\* A launch that is before its scan vouches for nothing.
LEMMA BeforeVouched ==
    ASSUME NEW l \in Launches, launch'[l].pc \in Before,
           launch'[l].auth = Global \/ launch'[l].auth = cache'
    PROVE  Vouched(l)'
BY DEF Vouched, Before, Finding, Repairing

LEMMA AuthorityCached ==
    ASSUME NEW c PROVE Authority(c) = Global \/ Authority(c) = c
BY DEF Authority

LEMMA LaunchVouched ==
    ASSUME TypeInv, TypeInv', VouchInv, RootsInv, NEW l \in Launches,
           Start(l) \/ Probe(l) \/ VacuumInto(l) \/ WriteCheckpoint(l) \/ Crash(l)
    PROVE  \A k \in Launches : Vouched(k)'
<1>0. launch[l] \in Launch /\ Vouched(l)
  BY DEF TypeInv, TypeOK, VouchInv
<1>1. CASE Start(l)
  <2>1. PICK r : r = [IdleLaunch EXCEPT !.pc = "stamp", !.auth = Authority(cache)]
    OBVIOUS
  <2>2. r.pc = "stamp" /\ r.auth = Authority(cache)
    BY <2>1, IdleTyped DEF Launch
  <2>3. UNCHANGED <<sess, cache>> /\ Set(l, r)
    BY <1>1, <2>1 DEF Start
  <2>4. launch'[l] = r /\ \A k \in Launches \ {l} : launch'[k] = launch[k]
    BY <2>3, SetShape
  <2>5. Vouched(l)'
    BY <2>2, <2>3, <2>4, AuthorityCached, BeforeVouched DEF Before
  <2> QED BY <2>3, <2>4, <2>5, OneVouched
<1>2. CASE Probe(l)
  <2>1. PICK c \in {cache} \union (IF cache = NoCache THEN Ids ELSE {}), ok \in BOOLEAN :
          /\ cache' = c
          /\ End(l) \/ Set(l, [launch[l] EXCEPT !.pc = "stamp", !.auth = Authority(c),
                                               !.probed = TRUE, !.probeOk = ok])
    BY <1>2 DEF Probe
  <2>2. PICK r : r = [launch[l] EXCEPT !.pc = "stamp", !.auth = Authority(c),
                                      !.probed = TRUE, !.probeOk = ok]
    OBVIOUS
  <2>3. r.pc = "stamp" /\ r.auth = Authority(c)
    BY <1>0, <2>2 DEF Launch
  <2>4. sess' = sess /\ (cache' = cache \/ (cache = NoCache /\ cache' \in Ids))
    BY <1>2, <2>1 DEF Probe
  <2>5. PICK q : Set(l, q) /\ q.pc \in Before /\ (q.auth = Global \/ q.auth = cache')
    <3>1. CASE End(l)
      BY <3>1 DEF End, IdleLaunch, Before
    <3>2. CASE ~End(l)
      BY <2>1, <2>2, <2>3, <3>2, AuthorityCached DEF Before
    <3> QED BY <3>1, <3>2
  <2>6. launch'[l] = q /\ \A k \in Launches \ {l} : launch'[k] = launch[k]
    BY <2>5, SetShape
  <2>7. Vouched(l)'
    BY <2>5, <2>6, BeforeVouched
  <2> QED BY <2>4, <2>6, <2>7, OneVouched
<1>3. CASE VacuumInto(l)
  <2>1. PICK r : r = [launch[l] EXCEPT !.pc = "repair", !.stamp = 0]
    OBVIOUS
  <2>2. r.pc = "repair" /\ r.auth = launch[l].auth
    BY <1>0, <2>1 DEF Launch
  <2>3. r.malformed = launch[l].malformed /\ r.news = launch[l].news
    BY <1>0, <2>1 DEF Launch
  <2>4. UNCHANGED <<sess, cache>> /\ Set(l, r) /\ launch[l].pc = "vacuum"
    BY <1>3, <2>1 DEF VacuumInto
  <2>5. launch'[l] = r /\ \A k \in Launches \ {l} : launch'[k] = launch[k]
    BY <2>4, SetShape
  <2>6. Vouched(l)'
    BY <1>0, <2>2, <2>3, <2>4, <2>5 DEF Vouched, Finding, Repairing
  <2> QED BY <2>4, <2>5, <2>6, OneVouched
<1>4. CASE WriteCheckpoint(l)
  <2>1. UNCHANGED <<sess, cache>> /\ launch[l].pc = "rwrite" /\ (End(l) \/ Complete(l, launch[l]))
    BY <1>4 DEF WriteCheckpoint
  <2>2. \/ launch'[l] = launch[l]
        \/ launch'[l].pc = "idle" /\ launch'[l].auth = Global
        \/ launch'[l].pc = "ready" /\ launch'[l].auth = launch[l].auth /\ launch'[l].news = launch[l].news
    BY <2>1, EndMoves, CompleteMoves
  <2>3. Vouched(l)'
    BY <1>0, <2>1, <2>2 DEF Vouched, Finding, Repairing
  <2>4. \A k \in Launches \ {l} : launch'[k] = launch[k]
    <3>1. PICK q : Set(l, q)
      BY <2>1 DEF End, Complete
    <3> QED BY <3>1, SetShape
  <2> QED BY <2>1, <2>3, <2>4, OneVouched
<1>5. CASE Crash(l)
  <2>1. UNCHANGED <<sess, cache>> /\ Set(l, IdleLaunch)
    BY <1>5 DEF Crash, End
  <2>2. launch'[l] = IdleLaunch /\ \A k \in Launches \ {l} : launch'[k] = launch[k]
    BY <2>1, SetShape
  <2>3. Vouched(l)'
    BY <2>2, BeforeVouched DEF IdleLaunch, Before
  <2> QED BY <2>1, <2>2, <2>3, OneVouched
<1> QED BY <1>1, <1>2, <1>3, <1>4, <1>5

LEMMA RepairVouched ==
    ASSUME TypeInv, TypeInv', VouchInv, NEW l \in Launches, Repair(l)
    PROVE  \A k \in Launches : Vouched(k)'
<1>0. launch[l] \in Launch /\ Vouched(l) /\ launch[l].pc = "repair"
  BY DEF TypeInv, TypeOK, VouchInv, Repair
<1>1. PICK W \in SUBSET Sessions : W = Written(Repaired(l))
  BY DEF Written
<1>2. PICK r : r = [launch[l] EXCEPT !.pc = "rstamp"]
  OBVIOUS
<1>3. r.pc = "rstamp" /\ r.auth = launch[l].auth
  BY <1>0, <1>2 DEF Launch
<1>4. r.news = launch[l].news /\ launch[l].news \in SUBSET Sessions
  BY <1>0, <1>2 DEF Launch
<1>5. launch'[l] = r /\ (\A k \in Launches \ {l} : launch'[k] = Tell(k, W)) /\ UNCHANGED cache
  BY <1>1, <1>2 DEF Repair
<1>6. CleanIn(sess', launch[l].auth, launch[l].news)
  <2>1. \A s \in Sessions :
          sess'[s] = IF s \in launch[l].malformed THEN NoSession
                     ELSE IF s \in PresentIn(sess) \intersect WellFormed THEN launch[l].auth ELSE sess[s]
    BY PresentSame DEF Repair, Repaired
  <2>2. MalformedClosure(PresentIn(sess)) \subseteq launch[l].malformed \union StartedFrom(launch[l].news)
    BY <1>0 DEF Vouched, Finding
  <2> QED BY <1>4, <2>1, <2>2, RepairCleans
<1>7. Vouched(l)'
  BY <1>0, <1>3, <1>4, <1>5, <1>6 DEF Vouched, Finding, Repairing
<1>8. ASSUME NEW k \in Launches \ {l} PROVE Vouched(k)'
  <2>1. \A s \in Sessions \ W : sess'[s] = sess[s] \/ sess'[s] = NoSession
    BY <1>1 DEF Written, Repair
  <2>2. Vouched(k) /\ launch'[k] = Tell(k, W)
    BY <1>5 DEF VouchInv
  <2> QED BY <1>5, <2>1, <2>2, VouchedTold
<1> QED BY <1>7, <1>8

LEMMA OutsideVouched ==
    ASSUME TypeInv, TypeInv', VouchInv,
           \/ \E l \in Launches, s \in Sessions, c \in Ids \union {NoCache} : ChildAdd(l, s, c)
           \/ \E l \in Launches, s \in Sessions : ChildDelete(l, s)
           \/ \E s \in Sessions, a \in Authorities : Merge(s, a)
    PROVE  \A k \in Launches : Vouched(k)'
<1>f. sess \in [Sessions -> Authorities \union {NoSession}]
  BY DEF TypeInv, TypeOK
<1>1. ASSUME NEW l \in Launches, NEW s \in Sessions, NEW c \in Ids \union {NoCache}, ChildAdd(l, s, c),
             NEW k \in Launches
      PROVE  Vouched(k)'
  <2>0. /\ launch[l].pc = "child" /\ s \in WellFormed \ Present
        /\ Parent[s] \in (Present \ MalformedClosure(Present)) \union {NoParent}
        /\ cache' = c /\ sess' = [sess EXCEPT ![s] = Authority(c)]
        /\ cache' = cache \/ (cache = NoCache /\ cache' \in Ids)
    BY <1>1 DEF ChildAdd
  <2>1. {s} \in SUBSET Sessions /\ \A x \in Sessions \ {s} : sess'[x] = sess[x] \/ sess'[x] = NoSession
    BY <1>f, <2>0
  <2>2. Vouched(k) /\ launch'[k] = IF k = l THEN launch[k] ELSE Tell(k, {s})
    BY <1>1 DEF ChildAdd, VouchInv
  <2>3. CASE k # l
    BY <2>0, <2>1, <2>2, <2>3, VouchedTold
  <2>4. CASE k = l
    <3>1. launch[k].auth \in Authorities /\ launch'[k] = launch[k]
      BY <2>2, <2>4 DEF TypeInv, TypeOK, Launch
    <3>2. launch[k].auth = Global \/ launch[k].auth = cache'
      BY <2>0, <2>2, <3>1, RepairAssumption DEF Vouched, Authorities
    <3>3. ASSUME Authority(cache') = launch[k].auth
          PROVE  CleanIn(sess', launch[k].auth, launch[k].news)
      <4>1. Authority(cache) = launch[k].auth
        BY <2>0, <2>2, <3>1, <3>3, RepairAssumption DEF Vouched, Authority, Authorities
      <4>2. CleanIn(sess, launch[k].auth, launch[k].news)
        BY <2>0, <2>2, <2>4, <4>1 DEF Vouched
      <4>3. /\ sess'[s] = launch[k].auth /\ \A x \in Sessions \ {s} : sess'[x] = sess[x]
        BY <1>f, <2>0, <3>3
      <4>4. PresentIn(sess') = PresentIn(sess) \union {s}
        <5>1. launch[k].auth # NoSession
          BY <3>1, RepairAssumption DEF Authorities
        <5> QED BY <4>3, <5>1 DEF PresentIn
      <4>5. MalformedClosure(PresentIn(sess')) \subseteq MalformedClosure(PresentIn(sess))
        <5>1. PresentIn(sess) \in SUBSET Sessions
          BY DEF PresentIn
        <5> QED BY <2>0, <4>4, <5>1, PresentSame, ClosureOwn
      <4> QED BY <4>2, <4>3, <4>4, <4>5 DEF CleanIn
    <3> QED BY <2>0, <2>4, <3>1, <3>2, <3>3 DEF Vouched, Finding, Repairing
  <2> QED BY <2>3, <2>4
<1>2. ASSUME NEW l \in Launches, NEW s \in Sessions, ChildDelete(l, s), NEW k \in Launches
      PROVE  Vouched(k)'
  <2>1. {} \in SUBSET Sessions /\ launch'[k] = launch[k] /\ Vouched(k) /\ cache' = cache
    BY <1>2 DEF ChildDelete, VouchInv
  <2>2. \A x \in Sessions \ {} : sess'[x] = sess[x] \/ sess'[x] = NoSession
    BY <1>f, <1>2 DEF ChildDelete
  <2> QED BY <2>1, <2>2, VouchedTold
<1>3. ASSUME NEW s \in Sessions, NEW a \in Authorities, Merge(s, a), NEW k \in Launches
      PROVE  Vouched(k)'
  <2>1. {s} \in SUBSET Sessions /\ launch'[k] = Tell(k, {s}) /\ Vouched(k) /\ cache' = cache
    BY <1>3 DEF Merge, VouchInv
  <2>2. \A x \in Sessions \ {s} : sess'[x] = sess[x] \/ sess'[x] = NoSession
    BY <1>f, <1>3 DEF Merge
  <2> QED BY <2>1, <2>2, VouchedTold
<1> QED BY <1>1, <1>2, <1>3

\* A checkpoint is written for the generation stamped before the query.
LEMMA WriteVouches ==
    ASSUME TypeInv, TypeInv', VouchInv, RootsInv, NEW l \in Launches, WriteCheckpoint(l)
    PROVE  Vouching' /\ checkpoint'.gen <= gen'
<1>1. /\ launch[l].pc = "rwrite" /\ UNCHANGED <<sess, gen>> /\ unseen' = launch[l].news
      /\ checkpoint'.gen = launch[l].stamp /\ checkpoint'.auth = launch[l].auth
  BY DEF WriteCheckpoint
<1>2. launch[l].stamp <= gen
  BY <1>1 DEF RootsInv, CountRight, Refreshing
<1>3. CleanIn(sess, launch[l].auth, launch[l].news)
  BY <1>1 DEF VouchInv, Vouched, Repairing
<1> QED BY <1>1, <1>2, <1>3 DEF Vouching

\* An accepted checkpoint vouches for everything the repair it rests on could
\* see: what it hides was written since by others, or was started from that,
\* for any launches, sessions and interleavings.
THEOREM VouchesRight == Spec => []CheckpointVouches
<1>1. Init => VouchInv
  BY DEF Init, VouchInv, Vouching, Vouched, NoCheckpoint, IdleLaunch, Finding, Repairing
<1>2. TypeInv /\ TypeInv' /\ RootsInv /\ VouchInv /\ [Next]_vars => VouchInv'
  <2> SUFFICES ASSUME TypeInv, TypeInv', RootsInv, VouchInv, [Next]_vars PROVE VouchInv'
    OBVIOUS
  <2>1. CASE UNCHANGED vars
    BY <2>1 DEF vars, VouchInv, Vouching, Vouched
  <2>2. CASE Next
    <3>1. ASSUME NEW l \in Launches, Quiet(l) PROVE VouchInv'
      BY <3>1, QuietVouched
    <3>2. ASSUME Loud PROVE VouchInv'
      <4>1. \A k \in Launches : Vouched(k)'
        BY <3>2, LaunchVouched, RepairVouched, OutsideVouched DEF Loud
      <4>2. Vouching' /\ checkpoint'.gen <= gen'
        <5>1. CASE \E l \in Launches : WriteCheckpoint(l)
          BY <5>1, WriteVouches
        <5>2. CASE ~\E l \in Launches : WriteCheckpoint(l)
          <6>1. UNCHANGED <<checkpoint, unseen>>
            BY <3>2, <5>2 DEF Loud, Start, Probe, VacuumInto, Repair, Crash, ChildAdd, ChildDelete,
                              Merge, ghosts
          <6> QED BY <2>2, <6>1, GenerationMoves, VouchingKept
        <5> QED BY <5>1, <5>2
      <4> QED BY <4>1, <4>2 DEF VouchInv
    <3> QED BY <2>2, <3>1, <3>2, NextSplit
  <2> QED BY <2>1, <2>2
<1>3. VouchInv => CheckpointVouches
  BY VouchingMeans DEF VouchInv
<1> QED BY <1>1, <1>2, <1>3, TypeCorrect, RootsInvariance, PTL DEF Spec, TypeInv

=============================================================================
