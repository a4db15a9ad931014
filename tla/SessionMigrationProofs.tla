------------------------ MODULE SessionMigrationProofs ------------------------
(***************************************************************************)
(* Proofs about SessionMigration, for every graph, any number of commands  *)
(* and any bounds: the types, that merging is idempotent, that event ids   *)
(* stay unique, that private rows are kept where every launched project    *)
(* has its store already, and that an up-to-date manifest means that       *)
(* everything was copied.                                                  *)
(***************************************************************************)
EXTENDS SessionMigration, SequenceTheorems, FiniteSetTheorems, WellFoundedInduction, TLAPS

LEMMA EmptyStoreType == EmptyStore \in Store
  BY DEF EmptyStore, Store

LEMMA SelectType ==
  ASSUME NEW st \in Store, NEW aside, NEW d
  PROVE  SelectRows(st, aside, d) \in Store
  BY DEF SelectRows, Store

LEMMA MergeType ==
  ASSUME NEW st \in Store, NEW sel \in Store
  PROVE  MergeInto(st, sel) \in Store
<1>1. InsertOrCompare(st, sel) \in [Keys -> Vals \union {NoRow}]
  BY DEF InsertOrCompare, Store
<1>2. MergeEventGraph(st, sel) \in [Sessions -> Seq(Events)]
  BY DEF MergeEventGraph, Store
<1> QED BY <1>1, <1>2 DEF MergeInto, Store

LEMMA ForksType ==
  ASSUME NEW st, NEW sel \in Store
  PROVE  ForksOf(st, sel) \subseteq Sessions \X Seq(Events)
  BY DEF ForksOf, Store

LEMMA IdleType ==
  ASSUME NEW p \in Migrating \union {"idle", "launch", "child"}
  PROVE  /\ IdleCmd \in Command
         /\ [IdleCmd EXCEPT !.pc = p] \in Command
  BY EmptyStoreType, CommandAssumption DEF IdleCmd, Command, NoGen, Migrating

LEMMA LeaveType ==
  ASSUME TypeOK, NEW c \in Cmds
  PROVE  Leave(c) \/ Die(c) => cmd' \in [Cmds -> Command]
<1> DEFINE p == IF c \in Launches THEN "launch" ELSE "idle"
<1>1. p \in Migrating \union {"idle", "launch", "child"}
  OBVIOUS
<1>2. PICK r \in Command : r = [IdleCmd EXCEPT !.pc = p]
  BY <1>1, IdleType
<1>3. IdleCmd \in Command
  BY IdleType
<1>4. Leave(c) => cmd' = [cmd EXCEPT ![c] = r]
  BY <1>2 DEF Leave
<1>5. Leave(c) => cmd' \in [Cmds -> Command]
  BY <1>4 DEF TypeOK
<1>6. Die(c) => cmd' \in [Cmds -> Command]
  BY <1>3 DEF Die, TypeOK
<1> QED BY <1>5, <1>6

\* What a step of a command writes into its record keeps the record's type.
LEMMA GotoType ==
  ASSUME TypeOK, NEW c \in Cmds, NEW p \in Migrating \union {"idle", "launch", "child"},
         Goto(c, p)
  PROVE  cmd' \in [Cmds -> Command]
<1>1. PICK r \in Command : r = [cmd[c] EXCEPT !.pc = p]
  BY DEF TypeOK, Command
<1> QED BY <1>1 DEF Goto, TypeOK

LEMMA ReleaseType ==
  ASSUME TypeOK, NEW c \in Cmds, Release(c)
  PROVE  lock' \in Cmds \union {NoCmd}
  BY DEF Release, TypeOK

LEMMA SnapType ==
  ASSUME TypeOK, NEW c \in Cmds
  PROVE  cmd[c] \in Command /\ cmd[c].snap \in Store /\ cmd[c].todo \subseteq Dests
  BY DEF TypeOK, Command

LEMMA SelectionType ==
  ASSUME TypeOK, NEW c \in Cmds, NEW d
  PROVE  Selection(c, d) \in Store
  BY SnapType, SelectType DEF Selection

\* A command that is about to read has a reading left.
TriesLeft ==
    \A c \in Cmds : cmd[c].pc \in {"idle", "lock", "check", "before"} => cmd[c].tries < ReadTries

\* The steps of a migration.
LEMMA MigrationType ==
  ASSUME TypeOK, TriesLeft, NEW c \in Cmds, MigrationStep(c) \/ Start(c) \/ Crash(c)
  PROVE  TypeOK'
<1> USE CommandAssumption
<1>1. CASE Start(c)
  <2>1. cmd' \in [Cmds -> Command]
    BY <1>1, GotoType DEF Start, Migrating
  <2>2. inode' \in [Dests -> Nat] /\ runs' \in [Cmds -> Nat]
    BY <1>1 DEF Start, TypeOK
  <2> QED BY <1>1, <2>1, <2>2 DEF Start, TypeOK
<1>2. CASE AcquireLock(c)
  <2>1. cmd' \in [Cmds -> Command]
    BY <1>2, GotoType DEF AcquireLock, Migrating
  <2> QED BY <1>2, <2>1 DEF AcquireLock, TypeOK
<1>3. CASE LockTimesOut(c)
  BY <1>3, LeaveType DEF LockTimesOut, TypeOK
<1>4. CASE CheckManifest(c)
  <2>1. cmd' \in [Cmds -> Command]
    BY <1>4, GotoType, LeaveType DEF CheckManifest, Migrating
  <2>2. lock' \in Cmds \union {NoCmd}
    BY <1>4, ReleaseType DEF CheckManifest, TypeOK
  <2> QED BY <1>4, <2>1, <2>2 DEF CheckManifest, TypeOK
<1>5. CASE StampBefore(c)
  <2>1. cmd[c].tries + 1 \in 0..ReadTries
    BY <1>5, SnapType DEF Command, StampBefore, TriesLeft
  <2>2. PICK r \in Command : r = [cmd[c] EXCEPT !.pc = "read", !.before = gen,
                                               !.tries = cmd[c].tries + 1]
    BY <2>1, SnapType DEF Command, Migrating, TypeOK
  <2> QED BY <1>5, <2>2 DEF StampBefore, TypeOK
<1>6. CASE ReadSource(c)
  <2>1. PICK r \in Command : r = [cmd[c] EXCEPT !.pc = "after", !.snap = source]
    BY SnapType DEF Command, TypeOK, Migrating
  <2> QED BY <1>6, <2>1 DEF ReadSource, TypeOK
<1>7. CASE StampAfter(c)
  <2> DEFINE D == DestinationsOf(cmd[c].snap, Quarantined(c, cmd[c].snap))
  <2>1. D \subseteq Dests
    BY DEF DestinationsOf
  <2>2. PICK r \in Command : r = [cmd[c] EXCEPT !.pc = "merge", !.todo = D]
    BY <2>1, SnapType DEF Command, Migrating
  <2>3. cmd' \in [Cmds -> Command]
    BY <1>7, <2>2, GotoType, LeaveType DEF StampAfter, Migrating, TypeOK
  <2>4. lock' \in Cmds \union {NoCmd}
    BY <1>7, ReleaseType DEF StampAfter, TypeOK
  <2> QED BY <1>7, <2>3, <2>4 DEF StampAfter, TypeOK
<1>8. ASSUME NEW d \in Dests, MergeExisting(c, d) PROVE TypeOK'
  <2>1. PICK r \in Command : r = [cmd[c] EXCEPT !.todo = cmd[c].todo \ {d}]
    BY SnapType DEF Command
  <2>2. cmd' \in [Cmds -> Command]
    BY <1>8, <2>1 DEF MergeExisting, TypeOK
  <2>3. store[d] \in Store /\ MergeInto(store[d], Selection(c, d)) \in Store
    BY SelectionType, MergeType DEF TypeOK
  <2>4. store' \in [Dests -> Store]
    BY <1>8, <2>3 DEF MergeExisting, TypeOK
  <2>5. forks' \in [Dests -> SUBSET (Sessions \X Seq(Events))]
    BY <1>8, ForksType, SelectionType DEF MergeExisting, TypeOK
  <2> QED BY <1>8, <2>2, <2>4, <2>5 DEF MergeExisting, TypeOK
<1>9. ASSUME NEW d \in Dests, MergeStaged(c, d) PROVE TypeOK'
  <2>1. PICK r \in Command : r = [cmd[c] EXCEPT !.pc = "publish", !.dest = d]
    BY SnapType DEF Command, Migrating
  <2> QED BY <1>9, <2>1 DEF MergeStaged, TypeOK
<1>10. CASE Publish(c)
  <2> DEFINE d == cmd[c].dest
  <2>1. PICK r \in Command : r = [cmd[c] EXCEPT !.pc = "merge", !.dest = NoDest, !.todo = cmd[c].todo \ {d}]
    BY SnapType DEF Command, Migrating
  <2>2. cmd' \in [Cmds -> Command]
    BY <1>10, <2>1 DEF Publish, TypeOK
  <2>3. MergeInto(EmptyStore, Selection(c, d)) \in Store
    BY SelectionType, MergeType, EmptyStoreType
  <2>4. store' \in [Dests -> Store]
    BY <1>10, <2>3 DEF Publish, TypeOK
  <2>5. inode' \in [Dests -> Nat]
    <3>1. CASE d \in Dests
      <4>1. inode[d] + 1 \in Nat
        BY <3>1 DEF TypeOK
      <4> QED BY <1>10, <4>1 DEF Publish, TypeOK
    <3>2. CASE d \notin Dests
      BY <1>10, <3>2 DEF Publish, TypeOK
    <3> QED BY <3>1, <3>2
  <2> QED BY <1>10, <2>2, <2>4, <2>5 DEF Publish, TypeOK
<1>11. CASE WriteManifest(c)
  <2>1. manifest' \in Nat
    BY <1>11, SnapType DEF WriteManifest, Command
  <2> QED BY <1>11, <2>1, LeaveType, ReleaseType DEF WriteManifest, TypeOK
<1>12. CASE Crash(c)
  BY <1>12, LeaveType, ReleaseType DEF Crash, TypeOK
<1> QED BY <1>1, <1>2, <1>3, <1>4, <1>5, <1>6, <1>7, <1>8, <1>9, <1>10, <1>11, <1>12
        DEF MigrationStep

LEMMA RollBackType ==
  ASSUME TypeOK, NEW c \in Cmds, NEW d \in Dests, MergeRollsBack(c, d)
  PROVE  TypeOK'
<1>1. PICK filed \in SUBSET (Sessions \X Seq(Events)) :
         forks' = [forks EXCEPT ![d] = forks[d] \union filed]
  BY ForksType, SelectionType DEF MergeRollsBack
<1>2. forks' \in [Dests -> SUBSET (Sessions \X Seq(Events))]
  BY <1>1 DEF TypeOK
<1> QED BY <1>2, LeaveType, ReleaseType DEF MergeRollsBack, TypeOK

\* What OpenCode writes is a store again.
LEMMA WriteType ==
  ASSUME NEW st \in Store
  PROVE  /\ \A k \in Keys, v \in Vals : SetRow(st, k, v) \in Store
         /\ \A s \in Sessions, e \in Events : AppendEvent(st, s, e) \in Store
         /\ \A s \in Sessions : DropSession(st, s) \in Store
<1>1. ASSUME NEW k \in Keys, NEW v \in Vals PROVE SetRow(st, k, v) \in Store
  BY DEF SetRow, Store
<1>2. ASSUME NEW s \in Sessions, NEW e \in Events PROVE AppendEvent(st, s, e) \in Store
  <2>1. Append(st.hist[s], e) \in Seq(Events)
    BY DEF Store
  <2> QED BY <2>1 DEF AppendEvent, Store
<1>3. ASSUME NEW s \in Sessions PROVE DropSession(st, s) \in Store
  BY DEF DropSession, Store
<1> QED BY <1>1, <1>2, <1>3

LEMMA ChildWritesType ==
  ASSUME TypeOK, NEW c \in Launches, NEW m \in Store, NEW t \in Store, ChildWrites(c, m, t),
         deleted' \in [Dests -> SUBSET Sessions]
  PROVE  TypeOK'
<1>1. c \in Cmds /\ ProjectOf[c] \in Dests
  BY CommandAssumption
<1>2. private' \in [Dests -> Store]
  BY <1>1 DEF ChildWrites, TypeOK
<1>3. store' \in [Dests -> Store]
  BY <1>1 DEF ChildWrites, TypeOK
<1> QED BY <1>2, <1>3 DEF ChildWrites, TypeOK

LEMMA ChildType ==
  ASSUME TypeOK, NEW c \in Launches, StartChild(c) \/ ChildStep(c)
  PROVE  TypeOK'
<1> DEFINE d == ProjectOf[c]
<1>0. c \in Cmds /\ d \in Dests /\ store[d] \in Store /\ private[d] \in Store
  BY CommandAssumption DEF TypeOK
<1>1. CASE StartChild(c)
  <2>1. PICK r \in Command : r = [cmd[c] EXCEPT !.pc = "child", !.handle = inode[ProjectOf[c]]]
    BY <1>0, SnapType DEF Command, TypeOK
  <2> QED BY <1>0, <1>1, <2>1 DEF StartChild, TypeOK
<1>2. ASSUME NEW k \in Keys, NEW v \in Vals, ChildSetRow(c, k, v) PROVE TypeOK'
  BY <1>0, <1>2, WriteType, ChildWritesType DEF ChildSetRow, TypeOK
<1>3. ASSUME NEW s \in Sessions, NEW e \in Events, ChildAppend(c, s, e) PROVE TypeOK'
  <2>1. Append(store[d].hist[s], e) \in Seq(Events)
    BY <1>0 DEF Store
  <2>2. [private[d] EXCEPT !.hist = [private[d].hist EXCEPT ![s] = Append(store[d].hist[s], e)]] \in Store
    BY <1>0, <2>1 DEF Store
  <2> QED BY <1>0, <1>3, <2>2, WriteType, ChildWritesType DEF ChildAppend, TypeOK
<1>4. ASSUME NEW s \in Sessions, ChildDelete(c, s) PROVE TypeOK'
  <2>1. deleted' \in [Dests -> SUBSET Sessions]
    BY <1>0, <1>4 DEF ChildDelete, TypeOK
  <2> QED BY <1>0, <1>4, <2>1, WriteType, ChildWritesType DEF ChildDelete
<1>5. CASE ChildExit(c)
  BY <1>0, <1>5, LeaveType DEF ChildExit, TypeOK
<1> QED BY <1>1, <1>2, <1>3, <1>4, <1>5 DEF ChildStep

LEMMA SourceType ==
  ASSUME TypeOK, SourceStep
  PROVE  TypeOK'
<1>1. \E st \in Store : SourceWrites(st)
  BY WriteType DEF SourceStep, SourceSetRow, SourceAppend, SourceDelete, TypeOK
<1> QED BY <1>1 DEF SourceWrites, TypeOK

LEMMA InitType == Init => TypeOK /\ TriesLeft
<1> SUFFICES ASSUME Init PROVE TypeOK /\ TriesLeft
  OBVIOUS
<1>1. cmd \in [Cmds -> Command]
  BY IdleType DEF Init
<1>2. TypeOK
  BY <1>1, EmptyStoreType DEF Init, TypeOK, NoGen
<1>3. TriesLeft
  BY CommandAssumption DEF Init, TriesLeft, IdleCmd
<1> QED BY <1>2, <1>3

\* Which of its records a step changes, and to what.
LEMMA TriesStep ==
  ASSUME TypeOK, TriesLeft, Next
  PROVE  TriesLeft'
<1> USE CommandAssumption
<1>0. IdleCmd.tries = 0 /\ \A p : [IdleCmd EXCEPT !.pc = p].tries = 0
  BY DEF IdleCmd
<1>1. ASSUME NEW c \in Cmds, NEW r, cmd' = [cmd EXCEPT ![c] = r],
             r.pc \in {"idle", "lock", "check", "before"} => r.tries < ReadTries
      PROVE  TriesLeft'
  BY <1>1 DEF TriesLeft, TypeOK
<1>2. ASSUME NEW c \in Cmds, Leave(c) \/ Die(c) PROVE TriesLeft'
  <2>1. PICK r : cmd' = [cmd EXCEPT ![c] = r] /\ r.tries = 0
    BY <1>0, <1>2 DEF Leave, Die
  <2>2. r.tries < ReadTries
    BY <2>1
  <2>3. r.pc \in {"idle", "lock", "check", "before"} => r.tries < ReadTries
    BY <2>2
  <2> HIDE CommandAssumption
  <2> QED BY <1>1, <2>1, <2>3
<1>3. ASSUME NEW c \in Cmds, Start(c) \/ MigrationStep(c) \/ Crash(c) PROVE TriesLeft'
  <2>0. cmd[c] \in Command
    BY SnapType
  <2>1. CASE \E q \in {"lock", "check", "before"} : Goto(c, q) /\ cmd[c].tries < ReadTries
    BY <1>1, <2>0, <2>1 DEF Goto, Command
  <2>2. CASE Start(c)
    BY <2>1, <2>2 DEF Start, TriesLeft
  <2>3. CASE AcquireLock(c)
    BY <2>1, <2>3 DEF AcquireLock, TriesLeft
  <2>4. CASE CheckManifest(c)
    BY <1>2, <2>1, <2>4 DEF CheckManifest, TriesLeft
  <2>5. CASE LockTimesOut(c) \/ WriteManifest(c) \/ Crash(c)
    BY <1>2, <2>5 DEF LockTimesOut, WriteManifest, Crash
  <2>6. CASE StampBefore(c) \/ ReadSource(c)
    BY <1>1, <2>0, <2>6 DEF StampBefore, ReadSource, Command
  <2>7. CASE StampAfter(c)
    <3>1. CASE gen = cmd[c].before
      BY <1>1, <2>0, <2>7, <3>1 DEF StampAfter, Command
    <3>2. CASE gen # cmd[c].before
      BY <1>2, <2>1, <2>7, <3>2 DEF StampAfter
    <3> QED BY <3>1, <3>2
  <2>8. ASSUME NEW d \in Dests, MergeExisting(c, d) \/ MergeStaged(c, d) PROVE TriesLeft'
    BY <1>1, <2>0, <2>8 DEF MergeExisting, MergeStaged, Command
  <2>9. CASE Publish(c)
    BY <1>1, <2>0, <2>9 DEF Publish, Command
  <2> QED BY <1>3, <2>2, <2>3, <2>4, <2>5, <2>6, <2>7, <2>8, <2>9 DEF MigrationStep
<1>4. ASSUME NEW c \in Cmds, NEW d \in Dests, MergeRollsBack(c, d) PROVE TriesLeft'
  BY <1>2, <1>4 DEF MergeRollsBack
<1>5. ASSUME NEW c \in Launches, StartChild(c) \/ ChildStep(c) PROVE TriesLeft'
  <2>1. c \in Cmds /\ cmd[c] \in Command
    BY SnapType
  <2>2. CASE StartChild(c)
    BY <1>1, <2>1, <2>2 DEF StartChild, Command
  <2>3. CASE ChildExit(c)
    BY <1>2, <2>1, <2>3 DEF ChildExit
  <2>4. CASE UNCHANGED cmd
    BY <2>4 DEF TriesLeft
  <2> QED BY <1>5, <2>2, <2>3, <2>4 DEF ChildStep, ChildSetRow, ChildAppend, ChildDelete, ChildWrites
<1>6. CASE SourceStep
  BY <1>6 DEF SourceStep, SourceSetRow, SourceAppend, SourceDelete, SourceWrites, TriesLeft
<1> QED BY <1>3, <1>4, <1>5, <1>6 DEF Next

\* The migration's records, the stores and the histories keep their types
\* (TypeOK): in particular the reading of a source that keeps changing ends
\* after ReadTries readings (prepare_source).
THEOREM TypeCorrect == Spec => [](TypeOK /\ TriesLeft)
<1>1. TypeOK /\ TriesLeft /\ [Next]_vars => TypeOK' /\ TriesLeft'
  <2> SUFFICES ASSUME TypeOK, TriesLeft, [Next]_vars PROVE TypeOK' /\ TriesLeft'
    OBVIOUS
  <2>1. CASE UNCHANGED vars
    BY <2>1 DEF vars, TypeOK, TriesLeft
  <2>2. CASE Next
    BY <2>2, TriesStep, MigrationType, RollBackType, ChildType, SourceType DEF Next
  <2> QED BY <2>1, <2>2
<1> QED BY <1>1, InitType, PTL DEF Spec

-----------------------------------------------------------------------------
(* Merging. *)

LEMMA PrefixIndex ==
  ASSUME NEW p \in Seq(Events), NEW h \in Seq(Events)
  PROVE  IsPrefix(p, h) <=> Len(p) <= Len(h) /\ \A i \in 1..Len(p) : p[i] = h[i]
<1>1. CASE Len(p) <= Len(h)
  <2>1. SubSeq(p, 1, Len(p)) \in Seq(Events) /\ SubSeq(h, 1, Len(p)) \in Seq(Events)
    BY <1>1
  <2>2. Len(SubSeq(p, 1, Len(p))) = Len(p) /\ Len(SubSeq(h, 1, Len(p))) = Len(p)
    BY <1>1
  <2>3. \A i \in 1..Len(p) : SubSeq(p, 1, Len(p))[i] = p[i] /\ SubSeq(h, 1, Len(p))[i] = h[i]
    BY <1>1
  <2>4. (SubSeq(p, 1, Len(p)) = SubSeq(h, 1, Len(p))) <=> \A i \in 1..Len(p) : p[i] = h[i]
    BY <2>1, <2>2, <2>3
  <2> QED BY <1>1, <2>4 DEF IsPrefix
<1>2. CASE ~(Len(p) <= Len(h))
  BY <1>2 DEF IsPrefix
<1> QED BY <1>1, <1>2

\* What a merge makes of one history: the private one, or the selected one
\* where that goes on from it with new events.
LEMMA MergedHistory ==
  ASSUME NEW st \in Store, NEW sel \in Store, NEW s \in Sessions
  PROVE  LET h == MergeInto(st, sel).hist[s] IN
         \/ h = st.hist[s]
         \/ /\ h = sel.hist[s]
            /\ Len(sel.hist[s]) > Len(st.hist[s])
            /\ ~Forked(st, sel, s)
            /\ \A i \in 1..Len(st.hist[s]) : sel.hist[s][i] = st.hist[s][i]
            /\ \A i \in 1..Len(sel.hist[s]) : i > Len(st.hist[s]) => sel.hist[s][i] \notin EventIds(st)
<1>1. MergeInto(st, sel).hist[s] = IF ~Forked(st, sel, s) /\ Len(sel.hist[s]) > Len(st.hist[s])
                                   THEN sel.hist[s] ELSE st.hist[s]
  BY DEF MergeInto, MergeEventGraph
<1>2. st.hist[s] \in Seq(Events) /\ sel.hist[s] \in Seq(Events)
  BY DEF Store
<1> QED BY <1>1, <1>2 DEF Forked, ForkedFirst

LEMMA IdMember ==
  ASSUME NEW st \in Store, NEW e
  PROVE  e \in EventIds(st) <=> \E s \in Sessions : \E i \in 1..Len(st.hist[s]) : st.hist[s][i] = e
<1>1. ASSUME NEW s \in Sessions PROVE e \in Range(st.hist[s]) <=> \E i \in 1..Len(st.hist[s]) : st.hist[s][i] = e
  <2>1. st.hist[s] \in Seq(Events)
    BY DEF Store
  <2>2. DOMAIN st.hist[s] = 1..Len(st.hist[s])
    BY <2>1
  <2> QED BY <2>2 DEF Range
<1> QED BY <1>1 DEF EventIds

\* No event is lost from a store by a merge.
LEMMA IdsGrow ==
  ASSUME NEW st \in Store, NEW sel \in Store
  PROVE  EventIds(st) \subseteq EventIds(MergeInto(st, sel))
<1> DEFINE m == MergeInto(st, sel)
<1>0. m \in Store
  BY MergeType
<1>1. SUFFICES ASSUME NEW e, NEW s \in Sessions, NEW i \in 1..Len(st.hist[s]), st.hist[s][i] = e
               PROVE  \E j \in 1..Len(m.hist[s]) : m.hist[s][j] = e
  BY <1>0, IdMember
<1>2. i \in 1..Len(m.hist[s]) /\ m.hist[s][i] = e
  <2>1. st.hist[s] \in Seq(Events) /\ sel.hist[s] \in Seq(Events)
    BY DEF Store
  <2> QED BY <1>1, <2>1, MergedHistory
<1> QED BY <1>2

\* Merging the same selection again changes nothing and files no fork that
\* the first time did not file (merge_destination, for any two stores).
THEOREM MergeTwice ==
  ASSUME NEW st \in Store, NEW sel \in Store
  PROVE  /\ MergeInto(MergeInto(st, sel), sel) = MergeInto(st, sel)
         /\ ForksOf(MergeInto(st, sel), sel) \subseteq ForksOf(st, sel)
<1> DEFINE m == MergeInto(st, sel)
<1>0. m \in Store /\ m.rows = InsertOrCompare(st, sel) /\ m.hist = MergeEventGraph(st, sel)
  BY MergeType DEF MergeInto
<1>1. InsertOrCompare(m, sel) = m.rows
  <2>1. InsertOrCompare(m, sel) = [k \in Keys |-> m.rows[k]]
    <3>1. ASSUME NEW k \in Keys PROVE (IF m.rows[k] # NoRow THEN m.rows[k] ELSE sel.rows[k]) = m.rows[k]
      BY <1>0 DEF InsertOrCompare
    <3> QED BY <3>1 DEF InsertOrCompare
  <2>2. m.rows = [k \in Keys |-> m.rows[k]]
    BY <1>0 DEF Store
  <2> QED BY <2>1, <2>2
<1>2. ASSUME NEW s \in Sessions PROVE Forked(m, sel, s) => Forked(st, sel, s)
  <2>1. SUFFICES ASSUME ~Forked(st, sel, s) PROVE ~Forked(m, sel, s)
    OBVIOUS
  <2>2. st.hist[s] \in Seq(Events) /\ sel.hist[s] \in Seq(Events)
    BY DEF Store
  <2>3. CASE Len(sel.hist[s]) > Len(st.hist[s])
    <3>1. m.hist[s] = sel.hist[s]
      BY <1>0, <2>1, <2>3 DEF MergeEventGraph
    <3> QED BY <2>2, <3>1 DEF Forked, ForkedFirst
  <2>4. CASE ~(Len(sel.hist[s]) > Len(st.hist[s]))
    <3>1. m.hist[s] = st.hist[s]
      BY <1>0, <2>4 DEF MergeEventGraph
    <3> QED BY <2>1, <2>2, <2>4, <3>1 DEF Forked, ForkedFirst
  <2> QED BY <2>3, <2>4
<1>3. ASSUME NEW s \in Sessions, ~Forked(m, sel, s), Len(sel.hist[s]) > Len(m.hist[s]) PROVE FALSE
  <2>1. st.hist[s] \in Seq(Events) /\ sel.hist[s] \in Seq(Events)
    BY DEF Store
  <2>2. m.hist[s] = st.hist[s] /\ Len(sel.hist[s]) > Len(st.hist[s])
    BY <1>3, <2>1, MergedHistory
  <2>3. Forked(st, sel, s)
    BY <1>0, <1>3, <2>1, <2>2 DEF MergeEventGraph
  <2>4. EventIds(st) \subseteq EventIds(m)
    BY IdsGrow
  <2> QED BY <1>3, <2>2, <2>3, <2>4 DEF Forked
<1>4. MergeEventGraph(m, sel) = m.hist
  <2>1. MergeEventGraph(m, sel) = [s \in Sessions |-> m.hist[s]]
    BY <1>3 DEF MergeEventGraph
  <2>2. m.hist = [s \in Sessions |-> m.hist[s]]
    BY <1>0 DEF Store
  <2> QED BY <2>1, <2>2
<1>5. MergeInto(m, sel) = m
  <2>1. MergeInto(m, sel) = [rows |-> m.rows, hist |-> m.hist]
    BY <1>1, <1>4 DEF MergeInto
  <2>2. m = [rows |-> m.rows, hist |-> m.hist]
    BY DEF MergeInto
  <2> QED BY <2>1, <2>2
<1>6. ForksOf(m, sel) \subseteq ForksOf(st, sel)
  BY <1>2 DEF ForksOf
<1> QED BY <1>5, <1>6

\* An interrupted migration can be repeated (MergeIdempotent).
THEOREM Repeatable == Spec => []MergeIdempotent
<1>1. TypeOK => MergeIdempotent
  <2> SUFFICES ASSUME TypeOK, NEW c \in Cmds, NEW d \in Dests
               PROVE  LET sel == Selection(c, d)
                          once == MergeInto(store[d], sel)
                      IN  MergeInto(once, sel) = once /\ ForksOf(once, sel) \subseteq ForksOf(store[d], sel)
    BY DEF MergeIdempotent
  <2>1. store[d] \in Store /\ Selection(c, d) \in Store
    BY SelectionType DEF TypeOK
  <2> QED BY <2>1, MergeTwice
<1> QED BY <1>1, TypeCorrect, PTL

-----------------------------------------------------------------------------
(* Unique event ids. *)

UniqueIds(st) ==
    \A s, t \in Sessions : \A i \in 1..Len(st.hist[s]), j \in 1..Len(st.hist[t]) :
        st.hist[s][i] = st.hist[t][j] => s = t /\ i = j

Unique ==
    /\ UniqueIds(source)
    /\ \A c \in Cmds : UniqueIds(cmd[c].snap)
    /\ \A d \in Dests : UniqueIds(store[d])

LEMMA EmptyUnique == UniqueIds(EmptyStore)
  BY DEF UniqueIds, EmptyStore

LEMMA SelectUnique ==
  ASSUME NEW st \in Store, UniqueIds(st), NEW aside, NEW d
  PROVE  UniqueIds(SelectRows(st, aside, d))
<1> DEFINE sel == SelectRows(st, aside, d)
<1>1. \A s \in Sessions : sel.hist[s] = st.hist[s] \/ sel.hist[s] = <<>>
  BY DEF SelectRows
<1> HIDE DEF sel
<1>2. \A s \in Sessions : \A i : i \in 1..Len(sel.hist[s]) => sel.hist[s] = st.hist[s]
  BY <1>1
<1> QED BY <1>2 DEF UniqueIds, sel

\* The tail a merge adds to one session collides neither with the store nor
\* with the tail it adds to another.
LEMMA MergeUnique ==
  ASSUME NEW st \in Store, NEW sel \in Store, UniqueIds(st), UniqueIds(sel)
  PROVE  UniqueIds(MergeInto(st, sel))
<1> DEFINE m == MergeInto(st, sel)
<1>0. m \in Store
  BY MergeType
<1>1. ASSUME NEW s \in Sessions, NEW i \in 1..Len(m.hist[s])
      PROVE  \/ i \in 1..Len(st.hist[s]) /\ m.hist[s][i] = st.hist[s][i]
             \/ i \in 1..Len(sel.hist[s]) /\ m.hist[s][i] = sel.hist[s][i] /\ m.hist[s][i] \notin EventIds(st)
  <2>1. st.hist[s] \in Seq(Events) /\ sel.hist[s] \in Seq(Events)
    BY DEF Store
  <2> QED BY <2>1, MergedHistory
<1>2. \A s \in Sessions : \A i \in 1..Len(st.hist[s]) : st.hist[s][i] \in EventIds(st)
  BY IdMember
<1> SUFFICES ASSUME NEW s \in Sessions, NEW t \in Sessions,
                    NEW i \in 1..Len(m.hist[s]), NEW j \in 1..Len(m.hist[t]),
                    m.hist[s][i] = m.hist[t][j]
             PROVE  s = t /\ i = j
  BY DEF UniqueIds
<1> HIDE DEF m
<1>3. CASE i \in 1..Len(st.hist[s]) /\ m.hist[s][i] = st.hist[s][i]
  <2>1. m.hist[t][j] \in EventIds(st)
    BY <1>2, <1>3
  <2>2. j \in 1..Len(st.hist[t]) /\ m.hist[t][j] = st.hist[t][j]
    BY <1>1, <2>1
  <2>3. st.hist[s][i] = st.hist[t][j]
    BY <1>3, <2>2
  <2> QED BY <1>3, <2>2, <2>3 DEF UniqueIds
<1>4. CASE i \in 1..Len(sel.hist[s]) /\ m.hist[s][i] = sel.hist[s][i] /\ m.hist[s][i] \notin EventIds(st)
  <2>1. m.hist[t][j] \notin EventIds(st)
    BY <1>4
  <2>2. ~(j \in 1..Len(st.hist[t]) /\ m.hist[t][j] = st.hist[t][j])
    BY <1>2, <2>1
  <2>3. j \in 1..Len(sel.hist[t]) /\ m.hist[t][j] = sel.hist[t][j]
    BY <1>1, <2>2
  <2>4. sel.hist[s][i] = sel.hist[t][j]
    BY <1>4, <2>3
  <2> QED BY <1>4, <2>3, <2>4 DEF UniqueIds
<1> QED BY <1>1, <1>3, <1>4

LEMMA WriteUnique ==
  ASSUME NEW st \in Store, UniqueIds(st)
  PROVE  /\ \A k \in Keys, v \in Vals : UniqueIds(SetRow(st, k, v))
         /\ \A s \in Sessions, e \in Events : Appendable(st, s, e) => UniqueIds(AppendEvent(st, s, e))
         /\ \A s \in Sessions : UniqueIds(DropSession(st, s))
<1>1. ASSUME NEW k \in Keys, NEW v \in Vals PROVE UniqueIds(SetRow(st, k, v))
  <2>1. SetRow(st, k, v).hist = st.hist
    BY DEF SetRow, Store
  <2> QED BY <2>1 DEF UniqueIds
<1>2. ASSUME NEW s \in Sessions, NEW e \in Events, Appendable(st, s, e)
      PROVE  UniqueIds(AppendEvent(st, s, e))
  <2> DEFINE w == AppendEvent(st, s, e)
  <2>1. w.hist = [st.hist EXCEPT ![s] = Append(st.hist[s], e)]
    BY DEF AppendEvent, Store
  <2>2. ASSUME NEW t \in Sessions, NEW i \in 1..Len(w.hist[t])
        PROVE  \/ i \in 1..Len(st.hist[t]) /\ w.hist[t][i] = st.hist[t][i] /\ w.hist[t][i] # e
               \/ t = s /\ i = Len(st.hist[s]) + 1 /\ w.hist[t][i] = e
    <3>1. st.hist[t] \in Seq(Events)
      BY DEF Store
    <3>2. \A j \in 1..Len(st.hist[t]) : st.hist[t][j] # e
      BY <1>2, IdMember DEF Appendable
    <3>3. CASE t = s
      BY <2>1, <3>1, <3>2, <3>3 DEF Store
    <3>4. CASE t # s
      BY <2>1, <3>1, <3>2, <3>4 DEF Store
    <3> QED BY <3>3, <3>4
  <2> HIDE DEF w
  <2>3. UniqueIds(w)
    BY <2>2 DEF UniqueIds
  <2> QED BY <2>3 DEF w
<1>3. ASSUME NEW s \in Sessions PROVE UniqueIds(DropSession(st, s))
  <2> DEFINE w == DropSession(st, s)
  <2>1. \A t \in Sessions : w.hist[t] = st.hist[t] \/ w.hist[t] = <<>>
    BY DEF DropSession, Store
  <2> HIDE DEF w
  <2>2. \A t \in Sessions : \A i : i \in 1..Len(w.hist[t]) => w.hist[t] = st.hist[t]
    BY <2>1
  <2>3. UniqueIds(w)
    BY <2>2 DEF UniqueIds
  <2> QED BY <2>3 DEF w
<1> QED BY <1>1, <1>2, <1>3

LEMMA UniqueStep ==
  ASSUME TypeOK, Unique, Next
  PROVE  Unique'
<1> USE CommandAssumption
\* By effect: a step writes no store, or merges into one, or OpenCode writes.
<1>1. ASSUME NEW c \in Cmds, NEW r, cmd' = [cmd EXCEPT ![c] = r], UniqueIds(r.snap),
             UniqueIds(source'), \A d \in Dests : UniqueIds(store'[d])
      PROVE  Unique'
  BY <1>1 DEF Unique, TypeOK
<1>2. ASSUME UNCHANGED cmd, UniqueIds(source'), \A d \in Dests : UniqueIds(store'[d])
      PROVE  Unique'
  BY <1>2 DEF Unique
<1>3. \A d \in Dests : UniqueIds(store[d]) /\ store[d] \in Store
  BY DEF Unique, TypeOK
<1>4. ASSUME NEW c \in Cmds, Leave(c) \/ Die(c), UNCHANGED <<source, store>> PROVE Unique'
  <2>1. PICK r : cmd' = [cmd EXCEPT ![c] = r] /\ r.snap = EmptyStore
    BY <1>4 DEF Leave, Die, IdleCmd
  <2>2. UniqueIds(source') /\ \A d \in Dests : UniqueIds(store'[d])
    BY <1>3, <1>4 DEF Unique
  <2> QED BY <1>1, <2>1, <2>2, EmptyUnique
<1>5. ASSUME NEW c \in Cmds, NEW r, cmd' = [cmd EXCEPT ![c] = r], r.snap = cmd[c].snap,
             UNCHANGED <<source, store>>
      PROVE  Unique'
  BY <1>1, <1>3, <1>5 DEF Unique
<1>6. ASSUME NEW c \in Cmds, NEW p, Goto(c, p), UNCHANGED <<source, store>> PROVE Unique'
  <2>1. PICK r : r = [cmd[c] EXCEPT !.pc = p]
    OBVIOUS
  <2>1s. r.snap = cmd[c].snap
    BY SnapType, <2>1 DEF Command
  <2> QED BY <1>5, <1>6, <2>1, <2>1s DEF Goto
<1>7. ASSUME NEW c \in Cmds, NEW d
      PROVE  UniqueIds(Selection(c, d)) /\ Selection(c, d) \in Store
  BY SnapType, SelectUnique, SelectionType DEF Selection, Unique
<1>8. ASSUME NEW c \in Cmds, Start(c) \/ MigrationStep(c) \/ Crash(c) PROVE Unique'
  <2>0. cmd[c] \in Command
    BY SnapType
  <2>1. CASE Start(c) \/ AcquireLock(c) \/ LockTimesOut(c) \/ CheckManifest(c) \/ WriteManifest(c) \/ Crash(c)
    BY <1>4, <1>6, <2>1 DEF Start, AcquireLock, LockTimesOut, CheckManifest, WriteManifest, Crash
  <2>2. CASE StampBefore(c)
    <3>1. PICK r : r = [cmd[c] EXCEPT !.pc = "read", !.before = gen, !.tries = cmd[c].tries + 1]
      OBVIOUS
    <3>1s. r.snap = cmd[c].snap
      BY <2>0, <3>1 DEF Command
    <3> QED BY <1>5, <2>2, <3>1, <3>1s DEF StampBefore
  <2>3. CASE ReadSource(c)
    <3>1. PICK r : r = [cmd[c] EXCEPT !.pc = "after", !.snap = source]
      OBVIOUS
    <3>1s. r.snap = source
      BY <2>0, <3>1 DEF Command
    <3>2. UniqueIds(source') /\ \A d \in Dests : UniqueIds(store'[d])
      BY <1>3, <2>3 DEF ReadSource, Unique
    <3> QED BY <1>1, <2>3, <3>1, <3>1s, <3>2 DEF ReadSource, Unique
  <2>4. CASE StampAfter(c)
    <3>1. CASE gen = cmd[c].before
      <4> DEFINE D == DestinationsOf(cmd[c].snap, Quarantined(c, cmd[c].snap))
      <4>1. PICK r : r = [cmd[c] EXCEPT !.pc = "merge", !.todo = D]
        OBVIOUS
      <4>1s. r.snap = cmd[c].snap
        BY <2>0, <4>1 DEF Command
      <4> QED BY <1>5, <2>4, <3>1, <4>1, <4>1s DEF StampAfter
    <3>2. CASE gen # cmd[c].before
      BY <1>4, <1>6, <2>4, <3>2 DEF StampAfter
    <3> QED BY <3>1, <3>2
  <2>5. ASSUME NEW d \in Dests, MergeExisting(c, d) PROVE Unique'
    <3>1. PICK r : r = [cmd[c] EXCEPT !.todo = cmd[c].todo \ {d}]
      OBVIOUS
    <3>1s. r.snap = cmd[c].snap
      BY <2>0, <3>1 DEF Command
    <3>2. PICK m : m = MergeInto(store[d], Selection(c, d)) /\ UniqueIds(m)
      BY <1>3, <1>7, MergeUnique
    <3>3. \A b \in Dests : UniqueIds(store'[b])
      BY <1>3, <2>5, <3>2 DEF MergeExisting, TypeOK
    <3>4. UniqueIds(source') /\ UniqueIds(r.snap)
      BY <2>5, <3>1, <3>1s DEF MergeExisting, Unique
    <3> QED BY <1>1, <2>5, <3>1, <3>1s, <3>3, <3>4 DEF MergeExisting
  <2>6. ASSUME NEW d \in Dests, MergeStaged(c, d) PROVE Unique'
    <3>1. PICK r : r = [cmd[c] EXCEPT !.pc = "publish", !.dest = d]
      OBVIOUS
    <3>1s. r.snap = cmd[c].snap
      BY <2>0, <3>1 DEF Command
    <3> QED BY <1>5, <2>6, <3>1, <3>1s DEF MergeStaged
  <2>7. CASE Publish(c)
    <3> DEFINE d == cmd[c].dest
    <3>1. PICK r : r = [cmd[c] EXCEPT !.pc = "merge", !.dest = NoDest, !.todo = cmd[c].todo \ {d}]
      OBVIOUS
    <3>1s. r.snap = cmd[c].snap
      BY <2>0, <3>1 DEF Command
    <3>2. PICK m : m = MergeInto(EmptyStore, Selection(c, d)) /\ UniqueIds(m)
      BY <1>7, MergeUnique, EmptyUnique, EmptyStoreType
    <3>3. \A b \in Dests : UniqueIds(store'[b])
      BY <1>3, <2>7, <3>2 DEF Publish, TypeOK
    <3>4. UniqueIds(source') /\ UniqueIds(r.snap)
      BY <2>7, <3>1, <3>1s DEF Publish, Unique
    <3> QED BY <1>1, <2>7, <3>1, <3>1s, <3>3, <3>4 DEF Publish
  <2> QED BY <1>8, <2>1, <2>2, <2>3, <2>4, <2>5, <2>6, <2>7 DEF MigrationStep
<1>9. ASSUME NEW c \in Cmds, NEW d \in Dests, MergeRollsBack(c, d) PROVE Unique'
  BY <1>4, <1>9 DEF MergeRollsBack
<1>10. ASSUME NEW c \in Launches, NEW m, NEW w, UniqueIds(w), ChildWrites(c, m, w) PROVE Unique'
  <2>1. ProjectOf[c] \in Dests
    OBVIOUS
  <2>2. \A b \in Dests : UniqueIds(store'[b])
    BY <1>3, <1>10, <2>1 DEF ChildWrites, TypeOK
  <2> QED BY <1>2, <1>10, <2>2 DEF ChildWrites, Unique
<1>11. ASSUME NEW c \in Launches, StartChild(c) \/ ChildStep(c) PROVE Unique'
  <2>1. c \in Cmds /\ ProjectOf[c] \in Dests /\ cmd[c] \in Command
    BY SnapType
  <2>2. CASE StartChild(c)
    <3>1. PICK r : r = [cmd[c] EXCEPT !.pc = "child", !.handle = inode[ProjectOf[c]]]
      OBVIOUS
    <3>1s. r.snap = cmd[c].snap
      BY <2>1, <3>1 DEF Command
    <3> QED BY <1>5, <2>1, <2>2, <3>1, <3>1s DEF StartChild
  <2>3. CASE ChildExit(c)
    BY <1>4, <2>1, <2>3 DEF ChildExit
  <2>4. ASSUME NEW k \in Keys, NEW v \in Vals, ChildSetRow(c, k, v) PROVE Unique'
    BY <1>3, <1>10, <2>1, <2>4, WriteUnique DEF ChildSetRow
  <2>5. ASSUME NEW s \in Sessions, NEW e \in Events, ChildAppend(c, s, e) PROVE Unique'
    BY <1>3, <1>10, <2>1, <2>5, WriteUnique DEF ChildAppend
  <2>6. ASSUME NEW s \in Sessions, ChildDelete(c, s) PROVE Unique'
    BY <1>3, <1>10, <2>1, <2>6, WriteUnique DEF ChildDelete
  <2> QED BY <1>11, <2>2, <2>3, <2>4, <2>5, <2>6 DEF ChildStep
<1>12. CASE SourceStep
  <2>1. source \in Store /\ UniqueIds(source)
    BY DEF Unique, TypeOK
  <2>2. PICK st : SourceWrites(st) /\ UniqueIds(st)
    BY <1>12, <2>1, WriteUnique DEF SourceStep, SourceSetRow, SourceAppend, SourceDelete
  <2> QED BY <1>2, <1>3, <2>2 DEF SourceWrites
<1> QED BY <1>8, <1>9, <1>11, <1>12 DEF Next

\* No event id is in a store twice (EventIdsUnique), however the global and
\* the private histories grew (merge_event_graph).
THEOREM IdsUnique == Spec => []EventIdsUnique
<1>1. Init => Unique
  BY EmptyUnique DEF Init, Unique, IdleCmd
<1>2. TypeOK /\ Unique /\ [Next]_vars => Unique'
  BY UniqueStep DEF vars, Unique
<1>3. Unique => EventIdsUnique
  BY DEF Unique, UniqueIds, EventIdsUnique
<1> QED BY <1>1, <1>2, <1>3, TypeCorrect, PTL DEF Spec

-----------------------------------------------------------------------------
(* Private rows. *)

\* Every project that is launched has its store before anything starts: the
\* one case in which a merge takes the path of MergeStaged for such a store
\* is excluded.
ProjectsExist == \A c \in Launches : ProjectOf[c] \notin Missing

\* A store that exists is never replaced, so that a child's connection and
\* the path mean the same file, and nobody writes a store that does not.
StoresStay ==
    /\ \A d \in Dests \ Missing : inode[d] = 1
    /\ \A c \in Cmds : cmd[c].pc = "publish" => cmd[c].dest \in Missing
    /\ \A c \in Launches : cmd[c].pc = "child" => cmd[c].handle = 1
    /\ \A d \in Missing : private[d] = EmptyStore

LEMMA StoresStayStep ==
  ASSUME ProjectsExist, TypeOK, StoresStay, Next
  PROVE  StoresStay'
<1> USE CommandAssumption
<1>1. ASSUME NEW c \in Cmds, NEW r, cmd' = [cmd EXCEPT ![c] = r], r.pc \notin {"publish", "child"},
             UNCHANGED private, \A d \in Dests \ Missing : inode'[d] = 1
      PROVE  StoresStay'
  BY <1>1 DEF StoresStay, TypeOK
<1>2. ASSUME NEW c \in Cmds, Leave(c) \/ Die(c), UNCHANGED <<inode, private>> PROVE StoresStay'
  <2>1. PICK r : cmd' = [cmd EXCEPT ![c] = r] /\ r.pc \notin {"publish", "child"}
    BY <1>2 DEF Leave, Die, IdleCmd
  <2> QED BY <1>1, <1>2, <2>1 DEF StoresStay
<1>3. ASSUME NEW c \in Cmds, NEW p, p \notin {"publish", "child"}, Goto(c, p), UNCHANGED private,
             \A d \in Dests \ Missing : inode'[d] = 1
      PROVE  StoresStay'
  <2>1. PICK r : r = [cmd[c] EXCEPT !.pc = p]
    OBVIOUS
  <2>2. r.pc = p
    BY <2>1, SnapType DEF Command
  <2> QED BY <1>1, <1>3, <2>1, <2>2 DEF Goto
<1>4. \A d \in Dests \ Missing : inode[d] = 1
  BY DEF StoresStay
<1>5. ASSUME NEW c \in Cmds, Start(c) \/ MigrationStep(c) \/ Crash(c) PROVE StoresStay'
  <2>0. cmd[c] \in Command
    BY SnapType
  <2>1. CASE Start(c)
    <3>1. \A d \in Dests \ Missing : inode'[d] = 1
      BY <1>4, <2>1 DEF Start
    <3> QED BY <1>3, <2>1, <3>1 DEF Start
  <2>2. CASE AcquireLock(c) \/ LockTimesOut(c) \/ CheckManifest(c) \/ WriteManifest(c) \/ Crash(c)
    BY <1>2, <1>3, <1>4, <2>2 DEF AcquireLock, LockTimesOut, CheckManifest, WriteManifest, Crash
  <2>3. CASE StampBefore(c)
    <3>1. PICK r : r = [cmd[c] EXCEPT !.pc = "read", !.before = gen, !.tries = cmd[c].tries + 1]
      OBVIOUS
    <3>2. r.pc = "read"
      BY <2>0, <3>1 DEF Command
    <3> QED BY <1>1, <1>4, <2>3, <3>1, <3>2 DEF StampBefore
  <2>4. CASE ReadSource(c)
    <3>1. PICK r : r = [cmd[c] EXCEPT !.pc = "after", !.snap = source]
      OBVIOUS
    <3>2. r.pc = "after"
      BY <2>0, <3>1 DEF Command
    <3> QED BY <1>1, <1>4, <2>4, <3>1, <3>2 DEF ReadSource
  <2>5. CASE StampAfter(c)
    <3>1. CASE gen = cmd[c].before
      <4> DEFINE D == DestinationsOf(cmd[c].snap, Quarantined(c, cmd[c].snap))
      <4>1. PICK r : r = [cmd[c] EXCEPT !.pc = "merge", !.todo = D]
        OBVIOUS
      <4>2. r.pc = "merge"
        BY <2>0, <4>1 DEF Command
      <4> QED BY <1>1, <1>4, <2>5, <3>1, <4>1, <4>2 DEF StampAfter
    <3>2. CASE gen # cmd[c].before
      BY <1>2, <1>3, <1>4, <2>5, <3>2 DEF StampAfter
    <3> QED BY <3>1, <3>2
  <2>6. ASSUME NEW d \in Dests, MergeExisting(c, d) PROVE StoresStay'
    <3>1. PICK r : r = [cmd[c] EXCEPT !.todo = cmd[c].todo \ {d}]
      OBVIOUS
    <3>2. r.pc = "merge"
      BY <2>0, <2>6, <3>1 DEF Command, MergeExisting
    <3> QED BY <1>1, <1>4, <2>6, <3>1, <3>2 DEF MergeExisting
  <2>7. ASSUME NEW d \in Dests, MergeStaged(c, d) PROVE StoresStay'
    <3>1. PICK r : r = [cmd[c] EXCEPT !.pc = "publish", !.dest = d]
      OBVIOUS
    <3>2. r.pc = "publish" /\ r.dest = d
      BY <2>0, <3>1 DEF Command
    <3>3. d \in Missing
      BY <1>4, <2>7 DEF MergeStaged
    <3>4. cmd' = [cmd EXCEPT ![c] = r] /\ UNCHANGED <<inode, private>>
      BY <2>7, <3>1 DEF MergeStaged
    <3> QED BY <3>2, <3>3, <3>4 DEF StoresStay, TypeOK
  <2>8. CASE Publish(c)
    <3> DEFINE d == cmd[c].dest
    <3>1. PICK r : r = [cmd[c] EXCEPT !.pc = "merge", !.dest = NoDest, !.todo = cmd[c].todo \ {d}]
      OBVIOUS
    <3>2. r.pc = "merge"
      BY <2>0, <3>1 DEF Command
    <3>3. d \in Missing
      BY <2>8 DEF Publish, StoresStay
    <3>4. \A b \in Dests \ Missing : inode'[b] = 1
      BY <1>4, <2>8, <3>3 DEF Publish, TypeOK
    <3> QED BY <1>1, <2>8, <3>1, <3>2, <3>4 DEF Publish
  <2> QED BY <1>5, <2>1, <2>2, <2>3, <2>4, <2>5, <2>6, <2>7, <2>8 DEF MigrationStep
<1>6. ASSUME NEW c \in Cmds, NEW d \in Dests, MergeRollsBack(c, d) PROVE StoresStay'
  BY <1>2, <1>6 DEF MergeRollsBack
<1>7. ASSUME NEW c \in Launches, NEW m, NEW w, ChildWrites(c, m, w) PROVE StoresStay'
  BY <1>7 DEF ChildWrites, StoresStay, ProjectsExist, TypeOK
<1>8. ASSUME NEW c \in Launches, StartChild(c) \/ ChildStep(c) PROVE StoresStay'
  <2>1. c \in Cmds /\ ProjectOf[c] \in Dests \ Missing /\ cmd[c] \in Command
    BY SnapType DEF ProjectsExist
  <2>2. CASE StartChild(c)
    <3>1. PICK r : r = [cmd[c] EXCEPT !.pc = "child", !.handle = inode[ProjectOf[c]]]
      OBVIOUS
    <3>2. r.pc = "child" /\ r.handle = 1
      BY <1>4, <2>1, <3>1 DEF Command
    <3>3. cmd' = [cmd EXCEPT ![c] = r] /\ UNCHANGED <<inode, private>>
      BY <2>2, <3>1 DEF StartChild
    <3> QED BY <3>2, <3>3 DEF StoresStay, TypeOK
  <2>3. CASE ChildExit(c)
    BY <1>2, <2>1, <2>3 DEF ChildExit
  <2>4. CASE \E m, w : ChildWrites(c, m, w)
    BY <1>7, <2>4
  <2> QED BY <1>8, <2>2, <2>3, <2>4 DEF ChildStep, ChildSetRow, ChildAppend, ChildDelete
<1>9. CASE SourceStep
  BY <1>9 DEF SourceStep, SourceSetRow, SourceAppend, SourceDelete, SourceWrites, StoresStay
<1> QED BY <1>5, <1>6, <1>8, <1>9 DEF Next

\* What is kept of one store in another.
Kept(p, st) ==
    /\ \A k \in Keys : p.rows[k] # NoRow => st.rows[k] = p.rows[k]
    /\ \A s \in Sessions : IsPrefix(p.hist[s], st.hist[s])

LEMMA MergeKeeps ==
  ASSUME NEW p \in Store, NEW st \in Store, NEW sel \in Store, Kept(p, st)
  PROVE  Kept(p, MergeInto(st, sel))
<1> DEFINE m == MergeInto(st, sel)
<1>0. m \in Store
  BY MergeType
<1>1. ASSUME NEW k \in Keys, p.rows[k] # NoRow PROVE m.rows[k] = p.rows[k]
  BY <1>1 DEF MergeInto, InsertOrCompare, Kept
<1>2. ASSUME NEW s \in Sessions PROVE IsPrefix(p.hist[s], m.hist[s])
  <2>1. /\ p.hist[s] \in Seq(Events) /\ st.hist[s] \in Seq(Events)
        /\ sel.hist[s] \in Seq(Events) /\ m.hist[s] \in Seq(Events)
    BY <1>0 DEF Store
  <2>2. Len(p.hist[s]) <= Len(st.hist[s]) /\ \A i \in 1..Len(p.hist[s]) : p.hist[s][i] = st.hist[s][i]
    BY <2>1, PrefixIndex DEF Kept
  <2>3. Len(p.hist[s]) <= Len(m.hist[s]) /\ \A i \in 1..Len(p.hist[s]) : p.hist[s][i] = m.hist[s][i]
    <3>1. CASE m.hist[s] = st.hist[s]
      BY <2>2, <3>1
    <3>2. CASE /\ m.hist[s] = sel.hist[s]
               /\ Len(sel.hist[s]) > Len(st.hist[s])
               /\ \A i \in 1..Len(st.hist[s]) : sel.hist[s][i] = st.hist[s][i]
      BY <2>1, <2>2, <3>2
    <3> QED BY <3>1, <3>2, MergedHistory
  <2> QED BY <2>1, <2>3, PrefixIndex
<1> QED BY <1>1, <1>2 DEF Kept

LEMMA SamePrefix ==
  ASSUME NEW h \in Seq(Events)
  PROVE  IsPrefix(h, h) /\ IsPrefix(<<>>, h)
<1>1. IsPrefix(h, h)
  BY PrefixIndex
<1>2. <<>> \in Seq(Events) /\ Len(<<>>) = 0
  BY EmptySeq
<1>3. IsPrefix(<<>>, h) <=> Len(<<>>) <= Len(h) /\ \A i \in 1..Len(<<>>) : <<>>[i] = h[i]
  BY <1>2, PrefixIndex, Zenon
<1>4. 0 <= Len(h) /\ 1..0 = {}
  OBVIOUS
<1> QED BY <1>1, <1>2, <1>3, <1>4, Zenon

LEMMA EmptyKept ==
  ASSUME NEW st \in Store
  PROVE  Kept(EmptyStore, st)
  BY SamePrefix DEF Kept, EmptyStore, Store

\* What a child writes it writes to both.
LEMMA WriteKeeps ==
  ASSUME NEW p \in Store, NEW st \in Store, Kept(p, st)
  PROVE  /\ \A k \in Keys, v \in Vals : Kept(SetRow(p, k, v), SetRow(st, k, v))
         /\ \A s \in Sessions, e \in Events :
               Kept([p EXCEPT !.hist = [p.hist EXCEPT ![s] = Append(st.hist[s], e)]], AppendEvent(st, s, e))
         /\ \A s \in Sessions : Kept(DropSession(p, s), DropSession(st, s))
<1>1. ASSUME NEW k \in Keys, NEW v \in Vals PROVE Kept(SetRow(p, k, v), SetRow(st, k, v))
  BY DEF Kept, SetRow, Store
<1>2. ASSUME NEW s \in Sessions, NEW e \in Events
      PROVE  Kept([p EXCEPT !.hist = [p.hist EXCEPT ![s] = Append(st.hist[s], e)]], AppendEvent(st, s, e))
  <2> DEFINE h == Append(st.hist[s], e)
             q == [p EXCEPT !.hist = [p.hist EXCEPT ![s] = h]]
             w == AppendEvent(st, s, e)
  <2>1. h \in Seq(Events)
    BY DEF Store
  <2>2. q.rows = p.rows /\ q.hist = [p.hist EXCEPT ![s] = h]
    BY DEF Store
  <2>3. w.rows = st.rows /\ w.hist = [st.hist EXCEPT ![s] = h]
    BY DEF AppendEvent, Store
  <2>4. IsPrefix(h, h)
    BY <2>1, SamePrefix
  <2> HIDE DEF h, q, w
  <2>5. Kept(q, w)
    BY <2>2, <2>3, <2>4 DEF Kept, Store
  <2> QED BY <2>5 DEF q, w, h
<1>3. ASSUME NEW s \in Sessions PROVE Kept(DropSession(p, s), DropSession(st, s))
  <2> DEFINE q == DropSession(p, s)
             w == DropSession(st, s)
  <2>1. ASSUME NEW k \in Keys, q.rows[k] # NoRow PROVE w.rows[k] = q.rows[k]
    BY <2>1 DEF Kept, DropSession
  <2>2. ASSUME NEW t \in Sessions PROVE IsPrefix(q.hist[t], w.hist[t])
    <3>1. CASE t = s
      <4>1. q.hist[t] = <<>> /\ w.hist[t] = <<>> /\ <<>> \in Seq(Events)
        BY <3>1 DEF DropSession, Store
      <4> QED BY <4>1, SamePrefix
    <3>2. CASE t # s
      BY <3>2 DEF DropSession, Store, Kept
    <3> QED BY <3>1, <3>2
  <2> QED BY <2>1, <2>2 DEF Kept
<1> QED BY <1>1, <1>2, <1>3

AllKept == \A d \in Dests : Kept(private[d], store[d])

LEMMA AllKeptStep ==
  ASSUME ProjectsExist, TypeOK, StoresStay, AllKept, Next
  PROVE  AllKept'
<1> USE CommandAssumption
<1>1. CASE UNCHANGED <<store, private>>
  BY <1>1 DEF AllKept
<1>2. \A d \in Dests : private[d] \in Store /\ store[d] \in Store /\ Kept(private[d], store[d])
  BY DEF AllKept, TypeOK
<1>3. ASSUME NEW c \in Cmds, NEW d \in Dests, MergeExisting(c, d) PROVE AllKept'
  <2>1. PICK m : m = MergeInto(store[d], Selection(c, d)) /\ Kept(private[d], m)
    BY <1>2, MergeKeeps, SelectionType
  <2>2. store' = [store EXCEPT ![d] = m] /\ private' = private
    BY <1>3, <2>1 DEF MergeExisting
  <2> QED BY <1>2, <2>1, <2>2 DEF AllKept, TypeOK
<1>4. ASSUME NEW c \in Cmds, Publish(c) PROVE AllKept'
  <2> DEFINE d == cmd[c].dest
  <2>1. d \in Missing /\ private[d] = EmptyStore
    BY <1>4 DEF Publish, StoresStay
  <2>2. PICK m \in Store : m = MergeInto(EmptyStore, Selection(c, d))
    BY SelectionType, MergeType, EmptyStoreType
  <2>3. Kept(private[d], m)
    BY <2>1, EmptyKept
  <2>4. store' = [store EXCEPT ![d] = m] /\ private' = private
    BY <1>4, <2>2 DEF Publish
  <2> QED BY <1>2, <2>3, <2>4 DEF AllKept, TypeOK
<1>5. ASSUME NEW c \in Launches, NEW q, NEW w, Kept(q, w), ChildWrites(c, q, w) PROVE AllKept'
  <2>1. cmd[c].handle = inode[ProjectOf[c]]
    BY <1>5 DEF ChildWrites, StoresStay, ProjectsExist
  <2>2. store' = [store EXCEPT ![ProjectOf[c]] = w] /\ private' = [private EXCEPT ![ProjectOf[c]] = q]
    BY <1>5, <2>1 DEF ChildWrites
  <2> QED BY <1>2, <1>5, <2>2 DEF AllKept, TypeOK
<1>6. ASSUME NEW c \in Launches, ChildStep(c) PROVE AllKept'
  <2> DEFINE d == ProjectOf[c]
  <2>1. d \in Dests /\ private[d] \in Store /\ store[d] \in Store /\ Kept(private[d], store[d])
    BY <1>2
  <2>2. ASSUME NEW k \in Keys, NEW v \in Vals, ChildSetRow(c, k, v) PROVE AllKept'
    BY <1>5, <2>1, <2>2, WriteKeeps DEF ChildSetRow
  <2>3. ASSUME NEW s \in Sessions, NEW e \in Events, ChildAppend(c, s, e) PROVE AllKept'
    <3> DEFINE q == [private[d] EXCEPT !.hist = [private[d].hist EXCEPT ![s] = Append(store[d].hist[s], e)]]
               w == AppendEvent(store[d], s, e)
    <3>1. Kept(q, w)
      BY <2>1, WriteKeeps
    <3>2. ChildWrites(c, q, w)
      BY <2>3 DEF ChildAppend
    <3> HIDE DEF q, w
    <3> QED BY <1>5, <3>1, <3>2
  <2>4. ASSUME NEW s \in Sessions, ChildDelete(c, s) PROVE AllKept'
    BY <1>5, <2>1, <2>4, WriteKeeps DEF ChildDelete
  <2>5. CASE ChildExit(c)
    BY <1>1, <2>5 DEF ChildExit
  <2> QED BY <1>6, <2>2, <2>3, <2>4, <2>5 DEF ChildStep
<1>7. ASSUME NEW c \in Cmds, MigrationStep(c) PROVE AllKept'
  BY <1>1, <1>3, <1>4, <1>7 DEF MigrationStep, AcquireLock, LockTimesOut, CheckManifest, StampBefore,
     ReadSource, StampAfter, MergeStaged, WriteManifest
<1>8. ASSUME NEW c \in Cmds, Start(c) \/ Crash(c) \/ \E d \in Dests : MergeRollsBack(c, d) PROVE AllKept'
  BY <1>1, <1>8 DEF Start, Crash, MergeRollsBack
<1>9. CASE SourceStep
  BY <1>1, <1>9 DEF SourceStep, SourceSetRow, SourceAppend, SourceDelete, SourceWrites
<1>10. ASSUME NEW c \in Launches, StartChild(c) PROVE AllKept'
  BY <1>1, <1>10 DEF StartChild
<1> QED BY <1>6, <1>7, <1>8, <1>9, <1>10 DEF Next

\* Where every launched project has its store already, what OpenCode
\* committed to a private store stays (PrivateRowsKept): insert_or_compare
\* replaces no row, merge_event_graph rewrites no history, and no rename puts
\* another file in the store's place.
THEOREM PrivateKept ==
  ASSUME ProjectsExist
  PROVE  Spec => []PrivateRowsKept
<1>1. Init => StoresStay
  BY CommandAssumption DEF Init, StoresStay, IdleCmd
<1>2. Init => AllKept
  BY EmptyKept, EmptyStoreType DEF Init, AllKept
<1>3. TypeOK /\ StoresStay /\ [Next]_vars => StoresStay'
  BY StoresStayStep DEF vars, StoresStay
<1>4. TypeOK /\ StoresStay /\ AllKept /\ [Next]_vars => AllKept'
  BY AllKeptStep DEF vars, AllKept
<1>5. AllKept => PrivateRowsKept
  BY DEF AllKept, Kept, PrivateRowsKept
<1> QED BY <1>1, <1>2, <1>3, <1>4, <1>5, TypeCorrect, PTL DEF Spec

-----------------------------------------------------------------------------
(* Routes. *)

LEMMA Least ==
  ASSUME NEW S \in SUBSET Nat, S # {}
  PROVE  \E x \in S : \A y \in S : x <= y
<1>1. PICK R : R = OpToRel(<, Nat)
  OBVIOUS
<1>2. PICK x \in S : \A y \in S : ~(<<y, x>> \in R)
  BY <1>1, NatLessThanWellFounded, WFMin
<1>3. \A y \in S : ~(y < x)
  BY <1>1, <1>2 DEF OpToRel
<1> QED BY <1>2, <1>3

\* What N passes of inheritance make of the first routes, pass by pass.
Passes(st, aside, N, f) ==
    f = [n \in 0..N |-> IF n = 0 THEN FirstRoutes(st, aside) ELSE InheritOnce(st, f[n-1])]

LEMMA PassesExist ==
  ASSUME NEW st, NEW aside, NEW N \in Nat
  PROVE  \E f : Passes(st, aside, N, f)
<1> DEFINE Bad == {n \in Nat : ~ \E f : Passes(st, aside, n, f)}
<1> SUFFICES ASSUME Bad # {} PROVE FALSE
  OBVIOUS
<1>1. PICK n \in Bad : \A m \in Bad : n <= m
  <2>1. Bad \in SUBSET Nat
    OBVIOUS
  <2> HIDE DEF Bad
  <2> QED BY <2>1, Least
<1>2. n # 0
  <2>1. PICK f : f = [m \in 0..0 |-> FirstRoutes(st, aside)]
    OBVIOUS
  <2>2. f = [m \in 0..0 |-> IF m = 0 THEN FirstRoutes(st, aside) ELSE InheritOnce(st, f[m-1])]
    BY <2>1
  <2>3. Passes(st, aside, 0, f)
    BY <2>2, Zenon DEF Passes
  <2> QED BY <2>3, Zenon
<1>3. n \in Nat /\ n - 1 \in Nat /\ ~(n <= n - 1)
  BY <1>2
<1>4. PICK f : Passes(st, aside, n - 1, f)
  BY <1>1, <1>3
<1>5. PICK F : F = FirstRoutes(st, aside)
  OBVIOUS
<1>6. f = [m \in 0..(n-1) |-> IF m = 0 THEN F ELSE InheritOnce(st, f[m-1])]
  BY <1>4, <1>5 DEF Passes
<1>7. PICK g : g = [m \in 0..n |-> IF m = 0 THEN F ELSE InheritOnce(st, f[m-1])]
  OBVIOUS
<1>8. \A m \in 0..(n-1) : g[m] = f[m]
  BY <1>3, <1>6, <1>7
<1>9. \A m \in 0..n : m # 0 => g[m-1] = f[m-1]
  BY <1>3, <1>8
<1>10. g = [m \in 0..n |-> IF m = 0 THEN F ELSE InheritOnce(st, g[m-1])]
  BY <1>7, <1>9
<1>11. Passes(st, aside, n, g)
  BY <1>5, <1>10 DEF Passes
<1> QED BY <1>11

\* The routes are those after the last pass.
LEMMA LastPass ==
  ASSUME NEW st, NEW aside
  PROVE  \E f : /\ Passes(st, aside, Cardinality(Sessions), f)
                /\ InheritedRoutes(st, aside) = f[Cardinality(Sessions)]
<1>1. PICK K \in Nat : K = Cardinality(Sessions)
  BY GraphAssumption, FS_CardinalityType
<1>2. PICK a : a = CHOOSE f : f = [n \in 0..K |-> IF n = 0 THEN FirstRoutes(st, aside)
                                                  ELSE InheritOnce(st, f[n-1])]
  OBVIOUS
<1>3. \E f : f = [n \in 0..K |-> IF n = 0 THEN FirstRoutes(st, aside) ELSE InheritOnce(st, f[n-1])]
  <2>1. PICK f : Passes(st, aside, K, f)
    BY PassesExist
  <2> QED BY <2>1, Zenon DEF Passes
<1>4. a = [n \in 0..K |-> IF n = 0 THEN FirstRoutes(st, aside) ELSE InheritOnce(st, a[n-1])]
  BY <1>2, <1>3, Zenon
<1>5. Passes(st, aside, K, a)
  BY <1>4, Zenon DEF Passes
<1>6. InheritedRoutes(st, aside) = a[K]
  BY <1>1, <1>2, Zenon DEF InheritedRoutes
<1> QED BY <1>1, <1>5, <1>6

\* One pass, and the value of f at it.
LEMMA OnePass ==
  ASSUME NEW st, NEW aside, NEW N \in Nat, NEW f, Passes(st, aside, N, f)
  PROVE  /\ f[0] = FirstRoutes(st, aside)
         /\ \A n \in 1..N : f[n] = InheritOnce(st, f[n-1])
  BY DEF Passes

LEMMA RouteType ==
  ASSUME NEW st, NEW aside
  PROVE  RouteSessions(st, aside) \in [Sessions -> Dests]
<1> USE RouteAssumption
<1> DEFINE R == [Sessions -> Dests \union {NoDest}]
<1>1. FirstRoutes(st, aside) \in R
  BY DEF FirstRoutes
<1>2. \A r \in R : InheritOnce(st, r) \in R
  BY DEF InheritOnce
<1>3. PICK K \in Nat : K = Cardinality(Sessions)
  BY GraphAssumption, FS_CardinalityType
<1>4. PICK f : Passes(st, aside, K, f) /\ InheritedRoutes(st, aside) = f[K]
  BY <1>3, LastPass
<1>5. f[0] = FirstRoutes(st, aside) /\ \A n \in 1..K : f[n] = InheritOnce(st, f[n-1])
  BY <1>4, OnePass
<1> HIDE DEF R
<1>6. f[K] \in R
  <2> DEFINE Bad == {n \in 0..K : f[n] \notin R}
  <2> SUFFICES ASSUME Bad # {} PROVE FALSE
    BY <1>3
  <2>1. PICK n \in Bad : \A m \in Bad : n <= m
    <3>1. Bad \in SUBSET Nat
      OBVIOUS
    <3> HIDE DEF Bad
    <3> QED BY <3>1, Least
  <2>2. n # 0
    BY <1>1, <1>5
  <2>3. n \in 1..K /\ n - 1 \in 0..K /\ ~(n <= n - 1)
    BY <2>2
  <2>4. f[n-1] \in R
    BY <2>1, <2>3
  <2> QED BY <1>2, <1>5, <2>3, <2>4
<1> QED BY <1>4, <1>6 DEF RouteSessions, R

\* A child of a malformed session is malformed.
LEMMA MalformedClosed ==
  ASSUME NEW st, NEW t \in Present(st), Parent[t] \in MalformedSessions(st)
  PROVE  t \in MalformedSessions(st)
  BY DEF MalformedSessions

\* Setting the malformed sessions aside changes the route of no other.
LEMMA RouteAgree ==
  ASSUME NEW st, NEW s \in Sessions, s \notin MalformedSessions(st)
  PROVE  RouteSessions(st, MalformedSessions(st))[s] = RouteSessions(st, {})[s]
<1> DEFINE M == MalformedSessions(st)
<1>1. PICK K \in Nat : K = Cardinality(Sessions)
  BY GraphAssumption, FS_CardinalityType
<1>2. PICK f : Passes(st, M, K, f) /\ InheritedRoutes(st, M) = f[K]
  BY <1>1, LastPass
<1>3. PICK g : Passes(st, {}, K, g) /\ InheritedRoutes(st, {}) = g[K]
  BY <1>1, LastPass
<1>4. f[0] = FirstRoutes(st, M) /\ \A n \in 1..K : f[n] = InheritOnce(st, f[n-1])
  BY <1>2, OnePass
<1>5. g[0] = FirstRoutes(st, {}) /\ \A n \in 1..K : g[n] = InheritOnce(st, g[n-1])
  BY <1>3, OnePass
<1>6. \A t \in Present(st) : Parent[t] \in M => t \in M
  BY MalformedClosed
<1> HIDE DEF M
<1>7. \A t \in Sessions \ M : f[0][t] = g[0][t]
  BY <1>4, <1>5 DEF FirstRoutes
<1>8. ASSUME NEW a, NEW b, \A t \in Sessions \ M : a[t] = b[t]
      PROVE  \A t \in Sessions \ M : InheritOnce(st, a)[t] = InheritOnce(st, b)[t]
  BY <1>6, <1>8 DEF InheritOnce
<1>9. \A t \in Sessions \ M : f[K][t] = g[K][t]
  <2> DEFINE Bad == {n \in 0..K : ~ \A t \in Sessions \ M : f[n][t] = g[n][t]}
  <2> SUFFICES ASSUME Bad # {} PROVE FALSE
    BY <1>1
  <2>1. PICK n \in Bad : \A m \in Bad : n <= m
    <3>1. Bad \in SUBSET Nat
      OBVIOUS
    <3> HIDE DEF Bad
    <3> QED BY <3>1, Least
  <2>2. n # 0
    BY <1>7
  <2>3. n \in 1..K /\ n - 1 \in 0..K /\ ~(n <= n - 1)
    BY <2>2
  <2>4. \A t \in Sessions \ M : f[n-1][t] = g[n-1][t]
    BY <2>1, <2>3
  <2>5. f[n] = InheritOnce(st, f[n-1]) /\ g[n] = InheritOnce(st, g[n-1])
    BY <1>4, <1>5, <2>3
  <2> QED BY <1>8, <2>4, <2>5
<1>10. s \in Sessions \ M
  BY DEF M
<1> QED BY <1>2, <1>3, <1>9, <1>10 DEF RouteSessions, M

-----------------------------------------------------------------------------
(* What has been copied. *)

\* Session s of the source st is in a store S with the forks F, or was deleted
\* there (D).
CopiedIn(st, s, S, F, D) ==
    \/ s \in D
    \/ /\ \A k \in Keys : Owner[k] = s /\ st.rows[k] # NoRow => S.rows[k] # NoRow
       /\ IsPrefix(st.hist[s], S.hist[s]) \/ <<s, st.hist[s]>> \in F

\* What a store holds of s may grow; only a deletion takes from it.
GrownFor(s, S, F, D, S2, F2, D2) ==
    /\ F \subseteq F2
    /\ D \subseteq D2
    /\ \/ s \in D2
       \/ /\ \A k \in Keys : Owner[k] = s /\ S.rows[k] # NoRow => S2.rows[k] # NoRow
          /\ IsPrefix(S.hist[s], S2.hist[s])

LEMMA PrefixTransitive ==
  ASSUME NEW p \in Seq(Events), NEW h \in Seq(Events), NEW g \in Seq(Events),
         IsPrefix(p, h), IsPrefix(h, g)
  PROVE  IsPrefix(p, g)
<1>1. Len(p) <= Len(h) /\ \A i \in 1..Len(p) : p[i] = h[i]
  BY PrefixIndex
<1>2. Len(h) <= Len(g) /\ \A i \in 1..Len(h) : h[i] = g[i]
  BY PrefixIndex
<1>3. Len(p) <= Len(g) /\ \A i \in 1..Len(p) : p[i] = g[i]
  BY <1>1, <1>2
<1> QED BY <1>3, PrefixIndex

LEMMA CopiedGrows ==
  ASSUME NEW st \in Store, NEW s \in Sessions, NEW S \in Store, NEW F, NEW D,
         NEW S2 \in Store, NEW F2, NEW D2,
         CopiedIn(st, s, S, F, D), GrownFor(s, S, F, D, S2, F2, D2)
  PROVE  CopiedIn(st, s, S2, F2, D2)
<1>1. st.hist[s] \in Seq(Events) /\ S.hist[s] \in Seq(Events) /\ S2.hist[s] \in Seq(Events)
  BY DEF Store
<1>2. CASE s \in D2
  BY <1>2 DEF CopiedIn
<1>3. CASE s \notin D2
  <2>1. \A k \in Keys : Owner[k] = s /\ st.rows[k] # NoRow => S2.rows[k] # NoRow
    BY <1>3 DEF CopiedIn, GrownFor
  <2>2. IsPrefix(st.hist[s], S.hist[s]) => IsPrefix(st.hist[s], S2.hist[s])
    BY <1>1, <1>3, PrefixTransitive DEF GrownFor
  <2> QED BY <1>3, <2>1, <2>2 DEF CopiedIn, GrownFor
<1> QED BY <1>2, <1>3

\* Merging the selection for the store s routes to brings s there.
LEMMA MergeCopies ==
  ASSUME NEW st \in Store, NEW aside, NEW s \in Present(st) \ aside, NEW S \in Store, NEW d,
         d = RouteSessions(st, aside)[s]
  PROVE  LET sel == SelectRows(st, aside, d)
             m == MergeInto(S, sel)
         IN  /\ \A k \in Keys : Owner[k] = s /\ st.rows[k] # NoRow => m.rows[k] # NoRow
             /\ \/ IsPrefix(st.hist[s], m.hist[s])
                \/ Forked(S, sel, s) /\ <<s, st.hist[s]>> \in ForksOf(S, sel)
<1>s. s \in Sessions
  BY DEF Present
<1>1. PICK sel \in Store : sel = SelectRows(st, aside, d)
  BY SelectType
<1>2. sel.hist[s] = st.hist[s] /\ \A k \in Keys : Owner[k] = s => sel.rows[k] = st.rows[k]
  BY <1>s, <1>1 DEF SelectRows
<1>3. PICK m \in Store : m = MergeInto(S, sel)
  BY MergeType
<1>4. \A k \in Keys : Owner[k] = s /\ st.rows[k] # NoRow => m.rows[k] # NoRow
  BY <1>2, <1>3 DEF MergeInto, InsertOrCompare
<1>5. CASE Forked(S, sel, s)
  <2>1. <<s, st.hist[s]>> \in ForksOf(S, sel)
    BY <1>s, <1>2, <1>5 DEF ForksOf
  <2> QED BY <1>1, <1>3, <1>4, <1>5, <2>1
<1>6. CASE ~Forked(S, sel, s)
  <2>1. st.hist[s] \in Seq(Events) /\ S.hist[s] \in Seq(Events)
    BY <1>s DEF Store
  <2>2. m.hist[s] = IF Len(st.hist[s]) > Len(S.hist[s]) THEN st.hist[s] ELSE S.hist[s]
    BY <1>s, <1>2, <1>3, <1>6 DEF MergeInto, MergeEventGraph
  <2>3. CASE Len(st.hist[s]) > Len(S.hist[s])
    BY <1>1, <1>3, <1>4, <2>1, <2>2, <2>3, SamePrefix
  <2>4. CASE ~(Len(st.hist[s]) > Len(S.hist[s]))
    <3>1. \A i \in 1..Len(st.hist[s]) : i <= Len(S.hist[s]) => st.hist[s][i] = S.hist[s][i]
      BY <1>2, <1>6 DEF Forked, ForkedFirst
    <3>2. Len(st.hist[s]) <= Len(S.hist[s]) /\ \A i \in 1..Len(st.hist[s]) : st.hist[s][i] = S.hist[s][i]
      BY <2>1, <2>4, <3>1
    <3>3. IsPrefix(st.hist[s], S.hist[s])
      BY <2>1, <3>2, PrefixIndex
    <3> QED BY <1>1, <1>3, <1>4, <2>2, <2>4, <3>3
  <2> QED BY <2>3, <2>4
<1> QED BY <1>5, <1>6

\* A new store has no history to disagree with.
LEMMA NothingForked ==
  ASSUME NEW sel \in Store, NEW s \in Sessions
  PROVE  ~Forked(EmptyStore, sel, s)
<1>1. \A t \in Sessions : EmptyStore.hist[t] = <<>>
  BY DEF EmptyStore
<1>2. Range(<<>>) = {}
  BY DEF Range
<1>3. EventIds(EmptyStore) = {}
  BY <1>1, <1>2 DEF EventIds
<1>4. sel.hist[s] \in Seq(Events) /\ Len(<<>>) = 0
  BY DEF Store
<1> QED BY <1>1, <1>3, <1>4 DEF Forked, ForkedFirst

LEMMA PublishCopies ==
  ASSUME NEW st \in Store, NEW aside, NEW s \in Present(st) \ aside, NEW F, NEW D, NEW d,
         d = RouteSessions(st, aside)[s]
  PROVE  CopiedIn(st, s, MergeInto(EmptyStore, SelectRows(st, aside, d)), F, D)
<1>1. s \in Sessions
  BY DEF Present
<1>2. ~Forked(EmptyStore, SelectRows(st, aside, d), s)
  BY <1>1, NothingForked, SelectType
<1> QED BY <1>2, MergeCopies, EmptyStoreType DEF CopiedIn

\* A merge takes nothing from a store.
LEMMA MergeGrows ==
  ASSUME NEW S \in Store, NEW sel \in Store, NEW s \in Sessions, NEW F, NEW F2, NEW D, F \subseteq F2
  PROVE  GrownFor(s, S, F, D, MergeInto(S, sel), F2, D)
<1>1. S.hist[s] \in Seq(Events) /\ sel.hist[s] \in Seq(Events)
  BY DEF Store
<1>2. IsPrefix(S.hist[s], MergeInto(S, sel).hist[s])
  <2>1. CASE MergeInto(S, sel).hist[s] = S.hist[s]
    BY <1>1, <2>1, SamePrefix
  <2>2. CASE /\ MergeInto(S, sel).hist[s] = sel.hist[s]
             /\ Len(sel.hist[s]) > Len(S.hist[s])
             /\ \A i \in 1..Len(S.hist[s]) : sel.hist[s][i] = S.hist[s][i]
    BY <1>1, <2>2, PrefixIndex
  <2> QED BY <2>1, <2>2, MergedHistory
<1>3. \A k \in Keys : S.rows[k] # NoRow => MergeInto(S, sel).rows[k] # NoRow
  BY DEF MergeInto, InsertOrCompare
<1> QED BY <1>2, <1>3 DEF GrownFor

LEMMA SameGrown ==
  ASSUME NEW S \in Store, NEW s \in Sessions, NEW F, NEW F2, NEW D, NEW D2, F \subseteq F2, D \subseteq D2
  PROVE  GrownFor(s, S, F, D, S, F2, D2)
<1>1. S.hist[s] \in Seq(Events)
  BY DEF Store
<1> QED BY <1>1, SamePrefix DEF GrownFor

LEMMA WriteGrows ==
  ASSUME NEW S \in Store, NEW F, NEW D, NEW s \in Sessions
  PROVE  /\ \A k \in Keys, v \in Vals : GrownFor(s, S, F, D, SetRow(S, k, v), F, D)
         /\ \A t \in Sessions, e \in Events : GrownFor(s, S, F, D, AppendEvent(S, t, e), F, D)
         /\ \A t \in Sessions : GrownFor(s, S, F, D, DropSession(S, t), F, D \union {t})
<1>1. S.hist[s] \in Seq(Events) /\ IsPrefix(S.hist[s], S.hist[s])
  BY SamePrefix DEF Store
<1>2. ASSUME NEW k \in Keys, NEW v \in Vals PROVE GrownFor(s, S, F, D, SetRow(S, k, v), F, D)
  <2>1. v # NoRow
    BY GraphAssumption
  <2>2. SetRow(S, k, v).rows = [S.rows EXCEPT ![k] = v] /\ SetRow(S, k, v).hist = S.hist
    BY DEF SetRow, Store
  <2> QED BY <1>1, <2>1, <2>2 DEF GrownFor, Store
<1>3. ASSUME NEW t \in Sessions, NEW e \in Events PROVE GrownFor(s, S, F, D, AppendEvent(S, t, e), F, D)
  <2>1. PICK h \in Seq(Events) : h = S.hist[t]
    BY DEF Store
  <2>2. PICK g \in Seq(Events) : g = Append(h, e)
    <3>1. Append(h, e) \in Seq(Events)
      OBVIOUS
    <3> QED BY <3>1, Zenon
  <2>3. Len(h) <= Len(g) /\ \A i \in 1..Len(h) : h[i] = g[i]
    BY <2>2
  <2>4. IsPrefix(h, g)
    BY <2>3, PrefixIndex
  <2>5. AppendEvent(S, t, e).rows = S.rows /\ AppendEvent(S, t, e).hist = [S.hist EXCEPT ![t] = g]
    BY <2>1, <2>2 DEF AppendEvent, Store
  <2>6. AppendEvent(S, t, e).hist[s] = IF s = t THEN g ELSE S.hist[s]
    BY <2>5 DEF Store
  <2>7. IsPrefix(S.hist[s], AppendEvent(S, t, e).hist[s])
    BY <1>1, <2>1, <2>4, <2>6
  <2> QED BY <2>5, <2>7 DEF GrownFor
<1>4. ASSUME NEW t \in Sessions PROVE GrownFor(s, S, F, D, DropSession(S, t), F, D \union {t})
  <2>1. CASE s = t
    BY <2>1 DEF GrownFor
  <2>2. CASE s # t
    <3>1. DropSession(S, t).hist[s] = S.hist[s]
      BY <2>2 DEF DropSession, Store
    <3>2. \A k \in Keys : Owner[k] = s => DropSession(S, t).rows[k] = S.rows[k]
      BY <2>2 DEF DropSession
    <3> QED BY <1>1, <3>1, <3>2 DEF GrownFor
  <2> QED BY <2>1, <2>2
<1> QED BY <1>2, <1>3, <1>4

-----------------------------------------------------------------------------
(* What a migration has done so far. *)

Held == {"check", "before", "read", "after", "merge", "publish"}

\* What was stamped and read: the manifest names no later generation, and as
\* long as the source has the stamped one the copy that was read is the source.
Stamped(k, man, g, src) ==
    /\ k.pc \in {"read", "after", "merge", "publish"} => man <= k.before /\ k.before <= g
    /\ k.pc \in {"after", "merge", "publish"} /\ k.before = g => k.snap = src

\* Every session of the copy that was read is in the store it routes to, or
\* that store is still to be merged.
Planned(c, k, S, F, D) ==
    LET aside == Quarantined(c, k.snap)
        route == RouteSessions(k.snap, aside)
    IN  /\ k.pc \in {"merge", "publish"} =>
              \A s \in Present(k.snap) \ aside :
                  route[s] \in k.todo \/ CopiedIn(k.snap, s, S[route[s]], F[route[s]], D[route[s]])
        /\ k.pc = "publish" => k.dest \in Dests

CommandInv(c) ==
    /\ cmd[c].pc \in Held => lock = c
    /\ Stamped(cmd[c], manifest, gen, source)
    /\ Planned(c, cmd[c], store, forks, deleted)

CopyInv ==
    /\ manifest <= gen
    /\ \A c \in Cmds : CommandInv(c)
    /\ UpToDateMeansCopied

\* The stores grow; only a rename does otherwise.
StoresGrow ==
    \A d \in Dests, s \in Sessions :
        GrownFor(s, store[d], forks[d], deleted[d], store'[d], forks'[d], deleted'[d])

LEMMA PlannedGrows ==
  ASSUME TypeOK, TypeOK', StoresGrow, NEW c \in Cmds, NEW k \in Command,
         Planned(c, k, store, forks, deleted)
  PROVE  Planned(c, k, store', forks', deleted')
<1>1. PICK aside : aside = Quarantined(c, k.snap)
  OBVIOUS
<1>2. PICK route \in [Sessions -> Dests] : route = RouteSessions(k.snap, aside)
  BY RouteType
<1>3. ASSUME NEW s \in Present(k.snap) \ aside,
             CopiedIn(k.snap, s, store[route[s]], forks[route[s]], deleted[route[s]])
      PROVE  CopiedIn(k.snap, s, store'[route[s]], forks'[route[s]], deleted'[route[s]])
  <2>1. s \in Sessions /\ route[s] \in Dests
    BY DEF Present
  <2>2. k.snap \in Store
    BY DEF Command
  <2>3. store[route[s]] \in Store /\ store'[route[s]] \in Store
    BY <2>1 DEF TypeOK
  <2>4. GrownFor(s, store[route[s]], forks[route[s]], deleted[route[s]],
                 store'[route[s]], forks'[route[s]], deleted'[route[s]])
    BY <2>1 DEF StoresGrow
  <2> QED BY <1>3, <2>1, <2>2, <2>3, <2>4, CopiedGrows
<1> QED BY <1>1, <1>2, <1>3 DEF Planned

\* UpToDateMeansCopied in the terms of CopiedIn.
LEMMA UpToDateIs ==
  UpToDateMeansCopied <=>
    (manifest = gen =>
        \A s \in Present(source) \ MalformedSessions(source) :
            CopiedIn(source, s, store[RouteSessions(source, {})[s]],
                     forks[RouteSessions(source, {})[s]], deleted[RouteSessions(source, {})[s]]))
  BY DEF UpToDateMeansCopied, CopiedIn

LEMMA UpToDateGrows ==
  ASSUME TypeOK, TypeOK', StoresGrow, UNCHANGED <<source, gen, manifest>>, UpToDateMeansCopied
  PROVE  UpToDateMeansCopied'
<1>1. PICK route \in [Sessions -> Dests] : route = RouteSessions(source, {})
  BY RouteType
<1>2. SUFFICES ASSUME manifest = gen, NEW s \in Present(source) \ MalformedSessions(source)
               PROVE  CopiedIn(source, s, store'[route[s]], forks'[route[s]], deleted'[route[s]])
  BY <1>1 DEF UpToDateMeansCopied, CopiedIn
<1>3. CopiedIn(source, s, store[route[s]], forks[route[s]], deleted[route[s]])
  BY <1>1, <1>2, UpToDateIs
<1>4. s \in Sessions /\ route[s] \in Dests
  BY DEF Present
<1>5. source \in Store /\ store[route[s]] \in Store /\ store'[route[s]] \in Store
  BY <1>4 DEF TypeOK
<1>6. GrownFor(s, store[route[s]], forks[route[s]], deleted[route[s]],
               store'[route[s]], forks'[route[s]], deleted'[route[s]])
  BY <1>4 DEF StoresGrow
<1> QED BY <1>3, <1>4, <1>5, <1>6, CopiedGrows

\* A step of one command that leaves source and manifest alone.
LEMMA RecordStep ==
  ASSUME TypeOK, TypeOK', CopyInv, StoresGrow, UNCHANGED <<source, gen, manifest>>,
         NEW c \in Cmds, NEW k \in Command, cmd' = [cmd EXCEPT ![c] = k],
         k.pc \in Held => lock' = c,
         \A d \in Cmds \ {c} : lock = d => lock' = d,
         Stamped(k, manifest, gen, source),
         Planned(c, k, store', forks', deleted')
  PROVE  CopyInv'
<1>1. ASSUME NEW d \in Cmds PROVE CommandInv(d)'
  <2>1. CASE d = c
    <3>1. cmd'[c] = k
      BY DEF TypeOK
    <3> QED BY <2>1, <3>1 DEF CommandInv
  <2>2. CASE d # c
    <3>1. cmd'[d] = cmd[d] /\ cmd[d] \in Command
      BY <2>2, SnapType DEF TypeOK
    <3>2. CommandInv(d)
      BY DEF CopyInv
    <3>3. Planned(d, cmd[d], store', forks', deleted')
      BY <3>1, <3>2, PlannedGrows DEF CommandInv
    <3> QED BY <2>2, <3>1, <3>2, <3>3 DEF CommandInv
  <2> QED BY <2>1, <2>2
<1>2. UpToDateMeansCopied'
  BY UpToDateGrows DEF CopyInv
<1> QED BY <1>1, <1>2 DEF CopyInv

\* A command that is done, or that has not begun.
LEMMA OutsideStep ==
  ASSUME TypeOK, TypeOK', CopyInv, StoresGrow, UNCHANGED <<source, gen, manifest>>,
         NEW c \in Cmds, NEW k \in Command, cmd' = [cmd EXCEPT ![c] = k], k.pc \notin Held,
         lock' = lock \/ (lock = c /\ lock' = NoCmd)
  PROVE  CopyInv'
<1>1. Stamped(k, manifest, gen, source) /\ Planned(c, k, store', forks', deleted')
  BY DEF Stamped, Planned, Held
<1> QED BY <1>1, RecordStep

LEMMA StoresStand ==
  ASSUME TypeOK, UNCHANGED <<store, deleted>>, \A d \in Dests : forks[d] \subseteq forks'[d]
  PROVE  StoresGrow
<1> SUFFICES ASSUME NEW d \in Dests, NEW s \in Sessions
             PROVE  GrownFor(s, store[d], forks[d], deleted[d], store'[d], forks'[d], deleted'[d])
  BY DEF StoresGrow
<1>1. store[d] \in Store /\ store'[d] = store[d] /\ deleted'[d] = deleted[d]
  BY DEF TypeOK
<1> QED BY <1>1, SameGrown

LEMMA LeaveCopy ==
  ASSUME TypeOK, TypeOK', CopyInv, StoresGrow, UNCHANGED <<source, gen, manifest>>,
         NEW c \in Cmds, Leave(c) \/ Die(c), Release(c) \/ UNCHANGED lock
  PROVE  CopyInv'
<1> DEFINE p == IF c \in Launches THEN "launch" ELSE "idle"
<1>1. PICK r \in Command : r = [IdleCmd EXCEPT !.pc = p]
  BY IdleType
<1>2. r.pc \notin Held /\ IdleCmd \in Command /\ IdleCmd.pc \notin Held
  BY <1>1, IdleType DEF IdleCmd, Held
<1>3. lock' = lock \/ (lock = c /\ lock' = NoCmd)
  BY DEF Release
<1>4. cmd' = [cmd EXCEPT ![c] = r] \/ cmd' = [cmd EXCEPT ![c] = IdleCmd]
  BY <1>1 DEF Leave, Die
<1> QED BY <1>1, <1>2, <1>3, <1>4, OutsideStep

\* The steps before anything is merged.
LEMMA ReadingCopy ==
  ASSUME TypeOK, TypeOK', CopyInv, NEW c \in Cmds,
         Start(c) \/ AcquireLock(c) \/ LockTimesOut(c) \/ CheckManifest(c) \/ StampBefore(c)
             \/ ReadSource(c) \/ StampAfter(c) \/ Crash(c)
  PROVE  CopyInv'
<1>0. UNCHANGED <<source, gen, manifest, store, forks, deleted>>
  BY DEF Start, AcquireLock, LockTimesOut, CheckManifest, StampBefore, ReadSource, StampAfter, Crash
<1>1. StoresGrow
  BY <1>0, StoresStand
<1>2. cmd[c] \in Command /\ CommandInv(c) /\ manifest <= gen
  BY SnapType DEF CopyInv
<1>3. ASSUME NEW p \in {"lock", "check", "before"}, Goto(c, p), p \in Held => lock' = c,
             \A d \in Cmds \ {c} : lock = d => lock' = d
      PROVE  CopyInv'
  <2>1. PICK k \in Command : k = [cmd[c] EXCEPT !.pc = p]
    BY <1>2 DEF Command, Migrating
  <2>2. k.pc = p
    BY <1>2, <2>1 DEF Command
  <2>3. cmd' = [cmd EXCEPT ![c] = k]
    BY <1>3, <2>1 DEF Goto
  <2>4. Stamped(k, manifest, gen, source) /\ Planned(c, k, store', forks', deleted')
    BY <2>2 DEF Stamped, Planned
  <2> QED BY <1>0, <1>1, <1>3, <2>2, <2>3, <2>4, RecordStep
<1>4. CASE Start(c)
  BY <1>3, <1>4 DEF Start, Held
<1>5. CASE AcquireLock(c)
  BY <1>3, <1>5, CommandAssumption DEF AcquireLock
<1>6. CASE LockTimesOut(c)
  BY <1>0, <1>1, <1>6, LeaveCopy DEF LockTimesOut
<1>7. CASE CheckManifest(c)
  <2>1. lock = c
    BY <1>2, <1>7 DEF CheckManifest, CommandInv, Held
  <2>2. CASE manifest = gen
    BY <1>0, <1>1, <1>7, <2>2, LeaveCopy DEF CheckManifest
  <2>3. CASE manifest # gen
    <3>1. Goto(c, "before") /\ lock' = lock
      BY <1>7, <2>3 DEF CheckManifest
    <3> QED BY <1>3, <2>1, <3>1
  <2> QED BY <2>2, <2>3
<1>8. CASE StampBefore(c)
  <2>1. lock = c /\ lock' = lock
    BY <1>2, <1>8 DEF StampBefore, CommandInv, Held
  <2>2. PICK k : k = [cmd[c] EXCEPT !.pc = "read", !.before = gen, !.tries = cmd[c].tries + 1]
    OBVIOUS
  <2>3. k.pc = "read" /\ k.before = gen
    BY <1>2, <2>2 DEF Command
  <2>4. cmd' = [cmd EXCEPT ![c] = k]
    BY <1>8, <2>2 DEF StampBefore
  <2>5. k \in Command
    BY <2>4 DEF TypeOK
  <2>6. gen \in Nat /\ manifest \in Nat
    BY DEF TypeOK
  <2>7. Stamped(k, manifest, gen, source) /\ Planned(c, k, store', forks', deleted')
    BY <1>2, <2>3, <2>6 DEF Stamped, Planned
  <2> QED BY <1>0, <1>1, <2>1, <2>4, <2>5, <2>7, RecordStep
<1>9. CASE ReadSource(c)
  <2>1. lock = c /\ lock' = lock
    BY <1>2, <1>9 DEF ReadSource, CommandInv, Held
  <2>2. PICK k : k = [cmd[c] EXCEPT !.pc = "after", !.snap = source]
    OBVIOUS
  <2>3. k.pc = "after" /\ k.snap = source /\ k.before = cmd[c].before
    BY <1>2, <2>2 DEF Command
  <2>4. cmd' = [cmd EXCEPT ![c] = k]
    BY <1>9, <2>2 DEF ReadSource
  <2>5. k \in Command
    BY <2>4 DEF TypeOK
  <2>6. manifest <= cmd[c].before /\ cmd[c].before <= gen
    BY <1>2, <1>9 DEF ReadSource, CommandInv, Stamped
  <2>7. Stamped(k, manifest, gen, source) /\ Planned(c, k, store', forks', deleted')
    BY <2>3, <2>6 DEF Stamped, Planned
  <2> QED BY <1>0, <1>1, <2>1, <2>4, <2>5, <2>7, RecordStep
<1>10. CASE StampAfter(c)
  <2>1. lock = c
    BY <1>2, <1>10 DEF StampAfter, CommandInv, Held
  <2>2. CASE gen = cmd[c].before
    <3> DEFINE aside == Quarantined(c, cmd[c].snap)
               T == DestinationsOf(cmd[c].snap, aside)
    <3>1. PICK k : k = [cmd[c] EXCEPT !.pc = "merge", !.todo = T]
      OBVIOUS
    <3>2. k.pc = "merge" /\ k.snap = cmd[c].snap /\ k.before = cmd[c].before /\ k.todo = T
      BY <1>2, <3>1 DEF Command
    <3>3. cmd' = [cmd EXCEPT ![c] = k] /\ lock' = lock
      BY <1>10, <2>2, <3>1 DEF StampAfter
    <3>4. k \in Command
      BY <3>3 DEF TypeOK
    <3>5. Stamped(k, manifest, gen, source)
      BY <1>2, <1>10, <3>2 DEF StampAfter, CommandInv, Stamped
    <3>6. \A s \in Present(cmd[c].snap) : RouteSessions(cmd[c].snap, aside)[s] \in T
      <4>1. RouteSessions(cmd[c].snap, aside) \in [Sessions -> Dests]
        BY RouteType
      <4> QED BY <4>1 DEF DestinationsOf, Present
    <3>7. Planned(c, k, store', forks', deleted')
      BY <3>2, <3>6 DEF Planned
    <3> QED BY <1>0, <1>1, <2>1, <3>3, <3>4, <3>5, <3>7, RecordStep
  <2>3. CASE gen # cmd[c].before /\ cmd[c].tries < ReadTries
    <3>1. (Goto(c, "before") /\ lock' = lock) \/ (Leave(c) /\ Release(c))
      BY <1>10, <2>3 DEF StampAfter
    <3>2. CASE Goto(c, "before") /\ lock' = lock
      BY <1>3, <2>1, <3>2
    <3>3. CASE Leave(c) /\ Release(c)
      BY <1>0, <1>1, <3>3, LeaveCopy
    <3> QED BY <3>1, <3>2, <3>3
  <2>4. CASE gen # cmd[c].before /\ ~(cmd[c].tries < ReadTries)
    BY <1>0, <1>1, <1>10, <2>4, LeaveCopy DEF StampAfter
  <2> QED BY <2>2, <2>3, <2>4
<1>11. CASE Crash(c)
  BY <1>0, <1>1, <1>11, LeaveCopy DEF Crash
<1> QED BY <1>4, <1>5, <1>6, <1>7, <1>8, <1>9, <1>10, <1>11

LEMMA MergeExistingCopy ==
  ASSUME TypeOK, TypeOK', CopyInv, NEW c \in Cmds, NEW d \in Dests, MergeExisting(c, d)
  PROVE  CopyInv'
<1> DEFINE st == cmd[c].snap
           aside == Quarantined(c, st)
           sel == Selection(c, d)
<1>1. cmd[c] \in Command /\ CommandInv(c) /\ st \in Store /\ sel \in Store /\ store[d] \in Store
  BY SnapType, SelectionType DEF CopyInv, TypeOK
<1>2. PICK m : m = MergeInto(store[d], sel)
  OBVIOUS
<1>3. PICK F : F = forks[d] \union ForksOf(store[d], sel)
  OBVIOUS
<1>4. /\ store' = [store EXCEPT ![d] = m]
      /\ forks' = [forks EXCEPT ![d] = F]
      /\ UNCHANGED <<source, gen, manifest, lock, deleted>>
  BY <1>2, <1>3 DEF MergeExisting
<1>5. StoresGrow
  <2> SUFFICES ASSUME NEW b \in Dests, NEW s \in Sessions
               PROVE  GrownFor(s, store[b], forks[b], deleted[b], store'[b], forks'[b], deleted'[b])
    BY DEF StoresGrow
  <2>1. CASE b = d
    <3>1. store'[b] = m /\ forks'[b] = F /\ deleted'[b] = deleted[b]
      BY <1>4, <2>1 DEF TypeOK
    <3>2. GrownFor(s, store[d], forks[d], deleted[d], m, F, deleted[d])
      BY <1>1, <1>2, <1>3, MergeGrows
    <3> QED BY <2>1, <3>1, <3>2
  <2>2. CASE b # d
    <3>1. store'[b] = store[b] /\ forks'[b] = forks[b] /\ deleted'[b] = deleted[b] /\ store[b] \in Store
      BY <1>4, <2>2 DEF TypeOK
    <3> QED BY <3>1, SameGrown
  <2> QED BY <2>1, <2>2
<1>6. PICK k : k = [cmd[c] EXCEPT !.todo = cmd[c].todo \ {d}]
  OBVIOUS
<1>7. k.pc = cmd[c].pc /\ k.snap = st /\ k.before = cmd[c].before /\ k.todo = cmd[c].todo \ {d}
  BY <1>1, <1>6 DEF Command
<1>8. cmd' = [cmd EXCEPT ![c] = k] /\ cmd[c].pc = "merge"
  BY <1>6 DEF MergeExisting
<1>9. k \in Command
  BY <1>8 DEF TypeOK
<1>10. lock = c
  BY <1>1, <1>8 DEF CommandInv, Held
<1>11. Stamped(k, manifest, gen, source)
  BY <1>1, <1>7, <1>8 DEF CommandInv, Stamped
<1>12. PICK route \in [Sessions -> Dests] : route = RouteSessions(st, aside)
  BY RouteType
<1>13. ASSUME NEW s \in Present(st) \ aside, route[s] \notin k.todo
       PROVE  CopiedIn(st, s, store'[route[s]], forks'[route[s]], deleted'[route[s]])
  <2>0. s \in Sessions /\ route[s] \in Dests
    BY DEF Present
  <2>1. CASE route[s] = d
    <3>1. sel = SelectRows(st, aside, d)
      BY DEF Selection
    <3>2. d = RouteSessions(st, aside)[s]
      BY <1>12, <2>1
    <3>3. /\ \A x \in Keys : Owner[x] = s /\ st.rows[x] # NoRow => m.rows[x] # NoRow
          /\ IsPrefix(st.hist[s], m.hist[s]) \/ <<s, st.hist[s]>> \in ForksOf(store[d], sel)
      <4> HIDE DEF st, aside, sel
      <4> QED BY <1>1, <1>2, <3>1, <3>2, MergeCopies
    <3>4. CopiedIn(st, s, m, F, deleted[d])
      BY <1>3, <3>3 DEF CopiedIn
    <3>5. store'[d] = m /\ forks'[d] = F /\ deleted'[d] = deleted[d]
      BY <1>4 DEF TypeOK
    <3> QED BY <2>1, <3>4, <3>5
  <2>2. CASE route[s] # d
    <3>1. CopiedIn(st, s, store[route[s]], forks[route[s]], deleted[route[s]])
      BY <1>1, <1>7, <1>8, <1>12, <1>13, <2>2 DEF CommandInv, Planned
    <3>2. store'[route[s]] = store[route[s]] /\ forks'[route[s]] = forks[route[s]] /\ deleted' = deleted
      BY <1>4, <2>0, <2>2 DEF TypeOK
    <3> QED BY <3>1, <3>2
  <2> QED BY <2>1, <2>2
<1>14. Planned(c, k, store', forks', deleted')
  BY <1>7, <1>8, <1>12, <1>13 DEF Planned
<1> QED BY <1>4, <1>5, <1>8, <1>9, <1>10, <1>11, <1>14, RecordStep

LEMMA MergeStagedCopy ==
  ASSUME TypeOK, TypeOK', CopyInv, NEW c \in Cmds, NEW d \in Dests, MergeStaged(c, d)
  PROVE  CopyInv'
<1>0. UNCHANGED <<source, gen, manifest, lock, store, forks, deleted>>
  BY DEF MergeStaged
<1>1. StoresGrow
  BY <1>0, StoresStand
<1>2. cmd[c] \in Command /\ CommandInv(c)
  BY SnapType DEF CopyInv
<1>3. PICK k : k = [cmd[c] EXCEPT !.pc = "publish", !.dest = d]
  OBVIOUS
<1>4. /\ k.pc = "publish" /\ k.dest = d
      /\ k.snap = cmd[c].snap /\ k.before = cmd[c].before /\ k.todo = cmd[c].todo
  BY <1>2, <1>3 DEF Command
<1>5. cmd' = [cmd EXCEPT ![c] = k] /\ cmd[c].pc = "merge"
  BY <1>3 DEF MergeStaged
<1>6. k \in Command
  BY <1>5 DEF TypeOK
<1>7. lock = c
  BY <1>2, <1>5 DEF CommandInv, Held
<1>8. Stamped(k, manifest, gen, source)
  BY <1>2, <1>4, <1>5 DEF CommandInv, Stamped
<1>9. Planned(c, k, store', forks', deleted')
  BY <1>0, <1>2, <1>4, <1>5 DEF CommandInv, Planned
<1> QED BY <1>0, <1>1, <1>5, <1>6, <1>7, <1>8, <1>9, RecordStep

\* While c holds the lock nobody else is at work.
LEMMA NobodyElse ==
  ASSUME TypeOK, CopyInv, NEW c \in Cmds, lock = c, NEW b \in Cmds \ {c}
  PROVE  cmd[b].pc \notin Held
  BY DEF CopyInv, CommandInv

\* For a session that is not malformed both ways of routing agree.
LEMMA RouteEither ==
  ASSUME NEW c \in Cmds, NEW st, NEW s \in Present(st) \ MalformedSessions(st)
  PROVE  /\ s \in Present(st) \ Quarantined(c, st)
         /\ RouteSessions(st, Quarantined(c, st))[s] = RouteSessions(st, {})[s]
<1>1. s \in Sessions
  BY DEF Present
<1> QED BY <1>1, RouteAgree DEF Quarantined

LEMMA PublishCopy ==
  ASSUME TypeOK, TypeOK', CopyInv, NEW c \in Cmds, Publish(c)
  PROVE  CopyInv'
<1> DEFINE st == cmd[c].snap
           aside == Quarantined(c, st)
           d == cmd[c].dest
<1>1. cmd[c] \in Command /\ CommandInv(c) /\ st \in Store /\ cmd[c].pc = "publish"
  BY SnapType DEF CopyInv, Publish
<1>2. d \in Dests /\ lock = c
  BY <1>1 DEF CommandInv, Planned, Held
<1>3. PICK m : m = MergeInto(EmptyStore, SelectRows(st, aside, d))
  OBVIOUS
<1>4. store' = [store EXCEPT ![d] = m] /\ UNCHANGED <<source, gen, manifest, lock, forks, deleted>>
  BY <1>3 DEF Publish, Selection
<1>5. PICK k : k = [cmd[c] EXCEPT !.pc = "merge", !.dest = NoDest, !.todo = cmd[c].todo \ {d}]
  OBVIOUS
<1>6. k.pc = "merge" /\ k.snap = st /\ k.before = cmd[c].before /\ k.todo = cmd[c].todo \ {d}
  BY <1>1, <1>5 DEF Command
<1>7. cmd' = [cmd EXCEPT ![c] = k]
  BY <1>5 DEF Publish
<1>8. \A b \in Dests : store'[b] = IF b = d THEN m ELSE store[b]
  BY <1>4 DEF TypeOK
<1>9. ASSUME NEW s \in Present(st) \ aside, d = RouteSessions(st, aside)[s], NEW F, NEW D
      PROVE  CopiedIn(st, s, m, F, D)
  <2> HIDE DEF st, aside, d
  <2> QED BY <1>1, <1>3, <1>9, PublishCopies
<1>10. PICK route \in [Sessions -> Dests] : route = RouteSessions(st, aside)
  BY RouteType
<1>11. ASSUME NEW s \in Present(st) \ aside, route[s] \notin k.todo
       PROVE  CopiedIn(st, s, store'[route[s]], forks'[route[s]], deleted'[route[s]])
  <2>0. s \in Sessions /\ route[s] \in Dests
    BY DEF Present
  <2>1. CASE route[s] = d
    BY <1>8, <1>9, <1>10, <2>0, <2>1
  <2>2. CASE route[s] # d
    <3>1. CopiedIn(st, s, store[route[s]], forks[route[s]], deleted[route[s]])
      BY <1>1, <1>6, <1>10, <1>11, <2>2 DEF CommandInv, Planned
    <3> QED BY <1>4, <1>8, <2>0, <2>2, <3>1
  <2> QED BY <2>1, <2>2
<1>12. Planned(c, k, store', forks', deleted')
  BY <1>6, <1>10, <1>11 DEF Planned
<1>13. Stamped(k, manifest, gen, source)
  BY <1>1, <1>6 DEF CommandInv, Stamped
<1>14. ASSUME NEW b \in Cmds PROVE CommandInv(b)'
  <2>1. CASE b = c
    <3>1. cmd'[c] = k
      BY <1>7 DEF TypeOK
    <3> QED BY <1>2, <1>4, <1>12, <1>13, <2>1, <3>1 DEF CommandInv
  <2>2. CASE b # c
    <3>1. cmd'[b] = cmd[b] /\ cmd[b].pc \notin Held
      BY <1>2, <1>7, <2>2, NobodyElse DEF TypeOK
    <3> QED BY <3>1 DEF CommandInv, Stamped, Planned, Held
  <2> QED BY <2>1, <2>2
<1>15. UpToDateMeansCopied'
  <2>1. PICK r \in [Sessions -> Dests] : r = RouteSessions(source, {})
    BY RouteType
  <2>2. SUFFICES ASSUME manifest = gen, NEW s \in Present(source) \ MalformedSessions(source)
                 PROVE  CopiedIn(source, s, store'[r[s]], forks'[r[s]], deleted'[r[s]])
    BY <1>4, <2>1 DEF UpToDateMeansCopied, CopiedIn
  <2>3. s \in Sessions /\ r[s] \in Dests
    BY DEF Present
  <2>4. CASE r[s] = d
    <3>1. manifest <= cmd[c].before /\ cmd[c].before <= gen
      BY <1>1 DEF CommandInv, Stamped
    <3>2. cmd[c].before \in Nat /\ gen \in Nat
      BY <1>1 DEF Command, TypeOK
    <3>3. cmd[c].before = gen
      BY <2>2, <3>1, <3>2
    <3>4. st = source
      BY <1>1, <3>3 DEF CommandInv, Stamped
    <3>5. s \in Present(st) \ aside /\ d = RouteSessions(st, aside)[s]
      BY <2>1, <2>4, <3>4, RouteEither
    <3> QED BY <1>8, <1>9, <2>4, <2>3, <3>4, <3>5
  <2>5. CASE r[s] # d
    <3>1. CopiedIn(source, s, store[r[s]], forks[r[s]], deleted[r[s]])
      BY <2>1, <2>2, UpToDateIs DEF CopyInv
    <3> QED BY <1>4, <1>8, <2>3, <2>5, <3>1
  <2> QED BY <2>4, <2>5
<1> QED BY <1>4, <1>14, <1>15 DEF CopyInv

LEMMA WriteManifestCopy ==
  ASSUME TypeOK, TypeOK', CopyInv, NEW c \in Cmds, WriteManifest(c)
  PROVE  CopyInv'
<1> DEFINE st == cmd[c].snap
           p == IF c \in Launches THEN "launch" ELSE "idle"
<1>1. cmd[c] \in Command /\ CommandInv(c) /\ cmd[c].pc = "merge" /\ cmd[c].todo = {}
  BY SnapType DEF CopyInv, WriteManifest
<1>2. lock = c
  BY <1>1 DEF CommandInv, Held
<1>3. manifest' = cmd[c].before /\ UNCHANGED <<source, gen, store, forks, deleted>>
  BY DEF WriteManifest
<1>4. manifest' <= gen /\ (manifest' = gen => st = source)
  BY <1>1, <1>3 DEF CommandInv, Stamped
<1>5. PICK k : k = [IdleCmd EXCEPT !.pc = p]
  OBVIOUS
<1>6. k.pc \notin Held
  BY <1>5 DEF IdleCmd, Held
<1>7. cmd' = [cmd EXCEPT ![c] = k]
  BY <1>5 DEF WriteManifest, Leave
<1>8. ASSUME NEW b \in Cmds PROVE CommandInv(b)'
  <2>1. CASE b = c
    <3>1. cmd'[c] = k
      BY <1>7 DEF TypeOK
    <3> QED BY <1>6, <2>1, <3>1 DEF CommandInv, Stamped, Planned, Held
  <2>2. CASE b # c
    <3>1. cmd'[b] = cmd[b] /\ cmd[b].pc \notin Held
      BY <1>2, <1>7, <2>2, NobodyElse DEF TypeOK
    <3> QED BY <3>1 DEF CommandInv, Stamped, Planned, Held
  <2> QED BY <2>1, <2>2
<1>9. UpToDateMeansCopied'
  <2>1. PICK r : r = RouteSessions(source, {})
    OBVIOUS
  <2>2. SUFFICES ASSUME manifest' = gen, NEW s \in Present(source) \ MalformedSessions(source)
                 PROVE  CopiedIn(source, s, store[r[s]], forks[r[s]], deleted[r[s]])
    BY <1>3, <2>1 DEF UpToDateMeansCopied, CopiedIn
  <2>3. st = source
    BY <1>4, <2>2
  <2>4. /\ s \in Present(st) \ Quarantined(c, st)
        /\ RouteSessions(st, Quarantined(c, st))[s] = r[s]
    BY <2>1, <2>3, RouteEither
  <2> QED BY <1>1, <2>3, <2>4 DEF CommandInv, Planned
<1> QED BY <1>3, <1>4, <1>8, <1>9 DEF CopyInv

LEMMA RollBackCopy ==
  ASSUME TypeOK, TypeOK', CopyInv, NEW c \in Cmds, NEW d \in Dests, MergeRollsBack(c, d)
  PROVE  CopyInv'
<1>1. UNCHANGED <<source, gen, manifest, store, deleted>>
  BY DEF MergeRollsBack
<1>2. PICK filed : forks' = [forks EXCEPT ![d] = forks[d] \union filed]
  BY DEF MergeRollsBack
<1>3. \A b \in Dests : forks[b] \subseteq forks'[b]
  BY <1>2 DEF TypeOK
<1>4. StoresGrow
  BY <1>1, <1>3, StoresStand
<1> QED BY <1>1, <1>4, LeaveCopy DEF MergeRollsBack

\* A child changes one store, and no command's record.
LEMMA ChildCopy ==
  ASSUME TypeOK, TypeOK', CopyInv, NEW c \in Launches, StartChild(c) \/ ChildStep(c)
  PROVE  CopyInv'
<1> DEFINE d == ProjectOf[c]
<1>0. c \in Cmds /\ d \in Dests /\ store[d] \in Store /\ cmd[c] \in Command
  BY CommandAssumption, SnapType DEF TypeOK
<1>1. CASE StartChild(c)
  <2>1. UNCHANGED <<source, gen, manifest, lock, store, forks, deleted>>
    BY <1>1 DEF StartChild
  <2>2. PICK k : k = [cmd[c] EXCEPT !.pc = "child", !.handle = inode[ProjectOf[c]]]
    OBVIOUS
  <2>3. k.pc \notin Held
    BY <1>0, <2>2 DEF Command, Held
  <2>4. cmd' = [cmd EXCEPT ![c] = k]
    BY <1>1, <2>2 DEF StartChild
  <2>5. k \in Command
    BY <1>0, <2>4 DEF TypeOK
  <2>6. StoresGrow
    BY <2>1, StoresStand
  <2> QED BY <1>0, <2>1, <2>3, <2>4, <2>5, <2>6, OutsideStep
<1>2. ASSUME NEW M, NEW w, NEW D2, ChildWrites(c, M, w), deleted' = [deleted EXCEPT ![d] = D2],
             deleted[d] \subseteq D2,
             \A s \in Sessions : GrownFor(s, store[d], forks[d], deleted[d], w, forks[d], D2)
      PROVE  CopyInv'
  <2>1. UNCHANGED <<source, gen, manifest, lock, forks, cmd>>
    BY <1>2 DEF ChildWrites
  <2>2. PICK w2 : (w2 = w \/ w2 = store[d]) /\ store' = [store EXCEPT ![d] = w2]
    BY <1>2 DEF ChildWrites
  <2>3. StoresGrow
    <3> SUFFICES ASSUME NEW b \in Dests, NEW s \in Sessions
                 PROVE  GrownFor(s, store[b], forks[b], deleted[b], store'[b], forks'[b], deleted'[b])
      BY DEF StoresGrow
    <3>1. CASE b = d
      <4>1. store'[b] = w2 /\ deleted'[b] = D2 /\ forks'[b] = forks[b]
        BY <1>0, <1>2, <2>1, <2>2, <3>1 DEF TypeOK
      <4>2. GrownFor(s, store[d], forks[d], deleted[d], store[d], forks[d], D2)
        BY <1>0, <1>2, SameGrown
      <4> QED BY <1>2, <2>2, <3>1, <4>1, <4>2
    <3>2. CASE b # d
      <4>1. store'[b] = store[b] /\ deleted'[b] = deleted[b] /\ forks'[b] = forks[b] /\ store[b] \in Store
        BY <1>2, <2>1, <2>2, <3>2 DEF TypeOK
      <4> QED BY <4>1, SameGrown
    <3> QED BY <3>1, <3>2
  <2>4. ASSUME NEW b \in Cmds PROVE CommandInv(b)'
    <3>1. CommandInv(b) /\ cmd[b] \in Command
      BY SnapType DEF CopyInv
    <3>2. Planned(b, cmd[b], store', forks', deleted')
      BY <2>3, <3>1, PlannedGrows DEF CommandInv
    <3> QED BY <2>1, <3>1, <3>2 DEF CommandInv
  <2>5. UpToDateMeansCopied'
    BY <2>1, <2>3, UpToDateGrows DEF CopyInv
  <2> QED BY <2>1, <2>4, <2>5 DEF CopyInv
<1>3. deleted = [deleted EXCEPT ![d] = deleted[d]]
  BY <1>0 DEF TypeOK
<1>4. ASSUME NEW x \in Keys, NEW v \in Vals, ChildSetRow(c, x, v) PROVE CopyInv'
  <2>1. PICK M, w : ChildWrites(c, M, w) /\ w = SetRow(store[d], x, v)
    BY <1>4 DEF ChildSetRow
  <2>2. deleted' = [deleted EXCEPT ![d] = deleted[d]]
    BY <1>3, <1>4 DEF ChildSetRow
  <2>3. \A s \in Sessions : GrownFor(s, store[d], forks[d], deleted[d], w, forks[d], deleted[d])
    BY <1>0, <2>1, WriteGrows
  <2> QED BY <1>2, <2>1, <2>2, <2>3
<1>5. ASSUME NEW t \in Sessions, NEW e \in Events, ChildAppend(c, t, e) PROVE CopyInv'
  <2>1. PICK M, w : ChildWrites(c, M, w) /\ w = AppendEvent(store[d], t, e)
    BY <1>5 DEF ChildAppend
  <2>2. deleted' = [deleted EXCEPT ![d] = deleted[d]]
    BY <1>3, <1>5 DEF ChildAppend
  <2>3. \A s \in Sessions : GrownFor(s, store[d], forks[d], deleted[d], w, forks[d], deleted[d])
    BY <1>0, <2>1, WriteGrows
  <2> QED BY <1>2, <2>1, <2>2, <2>3
<1>6. ASSUME NEW t \in Sessions, ChildDelete(c, t) PROVE CopyInv'
  <2>1. PICK M, w : ChildWrites(c, M, w) /\ w = DropSession(store[d], t)
    BY <1>6 DEF ChildDelete
  <2>2. PICK D2 : D2 = deleted[d] \union {t}
    OBVIOUS
  <2>3. deleted' = [deleted EXCEPT ![d] = D2]
    BY <1>6, <2>2 DEF ChildDelete
  <2>4. \A s \in Sessions : GrownFor(s, store[d], forks[d], deleted[d], w, forks[d], D2)
    BY <1>0, <2>1, <2>2, WriteGrows
  <2> QED BY <1>2, <2>1, <2>2, <2>3, <2>4
<1>7. CASE ChildExit(c)
  <2>1. UNCHANGED <<source, gen, manifest, lock, store, forks, deleted>>
    BY <1>7 DEF ChildExit
  <2>2. StoresGrow
    BY <2>1, StoresStand
  <2> QED BY <1>0, <1>7, <2>1, <2>2, LeaveCopy DEF ChildExit
<1> QED BY <1>1, <1>4, <1>5, <1>6, <1>7 DEF ChildStep

\* A write to the source puts it past every generation that was stamped.
LEMMA SourceCopy ==
  ASSUME TypeOK, TypeOK', CopyInv, SourceStep
  PROVE  CopyInv'
<1>1. gen' = gen + 1 /\ UNCHANGED <<manifest, lock, store, forks, cmd, deleted>>
  BY DEF SourceStep, SourceSetRow, SourceAppend, SourceDelete, SourceWrites
<1>2. gen \in Nat /\ manifest \in Nat /\ manifest <= gen
  BY DEF TypeOK, CopyInv
<1>3. manifest <= gen' /\ manifest # gen'
  BY <1>1, <1>2
<1>4. UpToDateMeansCopied'
  BY <1>1, <1>3 DEF UpToDateMeansCopied
<1>5. ASSUME NEW b \in Cmds PROVE CommandInv(b)'
  <2>1. CommandInv(b) /\ cmd[b].before \in Nat
    BY SnapType DEF CopyInv, Command
  <2>2. /\ cmd[b].before <= gen => cmd[b].before <= gen + 1
        /\ cmd[b].before <= gen => cmd[b].before # gen + 1
    BY <1>2, <2>1
  <2>3. Stamped(cmd[b], manifest, gen + 1, source')
    BY <2>1, <2>2 DEF CommandInv, Stamped
  <2> QED BY <1>1, <2>1, <2>3 DEF CommandInv
<1> QED BY <1>1, <1>3, <1>4, <1>5 DEF CopyInv

LEMMA CopyStep ==
  ASSUME TypeOK, TypeOK', CopyInv, [Next]_vars
  PROVE  CopyInv'
<1>1. CASE UNCHANGED vars
  BY <1>1 DEF vars, CopyInv, CommandInv, UpToDateMeansCopied
<1>2. ASSUME NEW c \in Cmds, MigrationStep(c) PROVE CopyInv'
  BY <1>2, ReadingCopy, MergeExistingCopy, MergeStagedCopy, PublishCopy, WriteManifestCopy
     DEF MigrationStep
<1>3. ASSUME NEW c \in Cmds, Start(c) \/ Crash(c) PROVE CopyInv'
  BY <1>3, ReadingCopy
<1> QED BY <1>1, <1>2, <1>3, RollBackCopy, ChildCopy, SourceCopy DEF Next

\* When the manifest names the generation of the source, every well-formed
\* session has reached its store (UpToDateMeansCopied): for any graph of
\* sessions, any number of commands that apply and catch up at once, die and
\* are refused, children that write and delete meanwhile, and whether or not
\* the stores exist.  So the catch-up that migrate skips had nothing
\* to copy.
THEOREM UpToDateCopied == Spec => []UpToDateMeansCopied
<1>1. Init => CopyInv
  <2> SUFFICES ASSUME Init PROVE CopyInv
    OBVIOUS
  <2>1. manifest = 0 /\ gen = 1
    BY DEF Init, NoGen
  <2>2. \A c \in Cmds : cmd[c].pc = "idle"
    BY DEF Init, IdleCmd
  <2>3. \A c \in Cmds : CommandInv(c)
    BY <2>2 DEF CommandInv, Stamped, Planned, Held
  <2> QED BY <2>1, <2>3 DEF CopyInv, UpToDateMeansCopied
<1>2. TypeOK /\ TypeOK' /\ CopyInv /\ [Next]_vars => CopyInv'
  BY CopyStep
<1>3. CopyInv => UpToDateMeansCopied
  BY DEF CopyInv
<1> QED BY <1>1, <1>2, <1>3, TypeCorrect, PTL DEF Spec

=============================================================================
