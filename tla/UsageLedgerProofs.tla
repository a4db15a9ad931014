-------------------------- MODULE UsageLedgerProofs --------------------------
(***************************************************************************)
(* Proofs about UsageLedger for any number of calls, any cap, any number   *)
(* of attempts and any number of faults.                                   *)
(***************************************************************************)
EXTENDS UsageLedger, SequenceTheorems, FiniteSetTheorems, TLAPS

\* The newest Cap lines of a longer text are Cap lines of it.
LEMMA NewestLength ==
  ASSUME NEW s \in Seq(Line), Len(s) > Cap
  PROVE  Newest(s) \in Seq(Line) /\ Len(Newest(s)) = Cap
<1>1. Len(s) \in Nat /\ Cap \in Nat /\ Cap # 0
  BY LedgerAssumption
<1>2. \A i \in (Len(s) - Cap + 1)..Len(s) : s[i] \in Line
  BY <1>1, ElementOfSeq
<1>3. /\ Newest(s) \in Seq(Line)
      /\ Len(Newest(s)) = IF Len(s) - Cap + 1 <= Len(s)
                          THEN Len(s) - (Len(s) - Cap + 1) + 1 ELSE 0
  BY <1>1, <1>2, SubSeqProperties DEF Newest
<1> QED BY <1>1, <1>3

\* An appended row starts a line or continues the open one.
LEMMA AppendRowLength ==
  ASSUME TypeOK, FreshInv, NEW c \in Calls
  PROVE  /\ AppendRow(c) \in Seq(Line)
         /\ AppendRow(c) # <<>>
         /\ Len(AppendRow(c)) <= Len(lines) + 1
<1>1. lines \in Seq(Line) /\ Len(lines) \in Nat /\ c \in Rows
  BY DEF TypeOK, Rows
<1>2. CASE ~open
  <2>1. <<c>> \in Line
    BY <1>1 DEF Line
  <2> QED BY <1>1, <1>2, <2>1, AppendProperties DEF AppendRow
<1>3. CASE open
  <2>1. Len(lines) \in 1..Len(lines)
    BY <1>1, <1>3, EmptySeq DEF FreshInv
  <2>2. lines[Len(lines)] \in Seq(Rows)
    BY <1>1, <2>1, ElementOfSeq DEF Line
  <2>3. Append(lines[Len(lines)], c) \in Line
    BY <1>1, <2>2, AppendProperties DEF Line
  <2>4. AppendRow(c) = [lines EXCEPT ![Len(lines)] = Append(lines[Len(lines)], c)]
    BY <1>3 DEF AppendRow
  <2>5. AppendRow(c) \in Seq(Line) /\ Len(AppendRow(c)) = Len(lines)
    BY <1>1, <2>1, <2>3, <2>4, ExceptSeq
  <2> QED BY <1>1, <2>1, <2>5, EmptySeq
<1> QED BY <1>2, <1>3

\* The ledger of Init is well formed and within its cap.
LEMMA InitInd == Init => IndInv
<1> SUFFICES ASSUME Init PROVE IndInv
  OBVIOUS
<1>0. Len(Existing) \in Nat /\ Cap \in Nat /\ Attempts \in Nat \ {0} /\ MaxFaults \in Nat
  BY LedgerAssumption
<1>1. lines \in Seq(Line) /\ Len(lines) = Len(Existing)
  <2>1. \A i \in 1..Len(Existing) : <<Existing[i]>> \in Line
    BY LedgerAssumption, ElementOfSeq DEF Line
  <2> QED BY <1>0, <2>1 DEF Init
<1>2. TypeOK
  <2>1. kept \in [Calls -> Seq(Line)]
    BY EmptySeq DEF Init
  <2>2. pc \in [Calls -> Steps] /\ attempt \in [Calls -> 0..Attempts]
    BY <1>0 DEF Init, Steps
  <2>3. locked \in [Calls -> BOOLEAN] /\ lock \in LockFile
    BY DEF Init, LockFile, Unlocked
  <2>4. faults \in 0..MaxFaults /\ written \in Seq(Rows)
    BY <1>0, LedgerAssumption DEF Init
  <2> QED BY <1>1, <2>1, <2>2, <2>3, <2>4 DEF Init, TypeOK
<1>3. \A c \in Calls : ~IsWritten(c)
  BY LedgerAssumption DEF Init, IsWritten
<1>4. CallInv
  BY <1>0, <1>3 DEF Init, CallInv
<1>5. FreshInv /\ HoldersSerialized
  BY DEF Init, FreshInv, HoldersSerialized, Holding, Unlocked
<1>6. LedgerBounded
  <2>1. Untrimmed \subseteq Calls
    BY DEF Untrimmed
  <2>2. Cardinality(Untrimmed) \in Nat
    BY <2>1, LedgerAssumption, FS_Subset, FS_CardinalityType
  <2> QED BY <1>0, <1>1, <2>2, LedgerAssumption DEF LedgerBounded
<1> QED BY <1>2, <1>4, <1>5, <1>6 DEF IndInv

-----------------------------------------------------------------------------
(* Types. *)

\* A move of one call to another step keeps the program counters typed.
LEMMA GotoType ==
  ASSUME TypeOK, NEW c \in Calls, NEW step \in Steps, Goto(c, step)
  PROVE  pc' \in [Calls -> Steps]
BY DEF TypeOK, Goto

\* The counter of a call that is still in the loop stays in range.
LEMMA NextAttemptType ==
  ASSUME TypeOK, NEW c \in Calls, attempt[c] < Attempts, NextAttempt(c)
  PROVE  attempt' \in [Calls -> 0..Attempts] /\ pc' \in [Calls -> Steps]
<1>1. Attempts \in Nat /\ attempt \in [Calls -> 0..Attempts] /\ attempt[c] \in 0..Attempts
  BY LedgerAssumption DEF TypeOK
<1>2. attempt[c] + 1 \in 0..Attempts
  BY <1>1
<1>3. attempt' = [attempt EXCEPT ![c] = attempt[c] + 1]
  BY DEF NextAttempt
<1>4. (IF attempt[c] + 1 < Attempts THEN "create" ELSE "append") \in Steps
  BY DEF Steps
<1>5. pc' \in [Calls -> Steps]
  BY <1>4, GotoType DEF NextAttempt
<1> QED BY <1>1, <1>2, <1>3, <1>5

\* Every step of record_invocation, every fault and the ageing of the lock
\* keep the types.
LEMMA StepType == IndInv /\ Next => TypeOK'
<1> SUFFICES ASSUME IndInv, Next PROVE TypeOK'
  OBVIOUS
<1>t. TypeOK /\ CallInv /\ FreshInv
  BY DEF IndInv
<1>0. MaxFaults \in Nat /\ faults \in 0..MaxFaults
  BY <1>t, LedgerAssumption DEF TypeOK
<1>f. ASSUME Fault PROVE faults' \in 0..MaxFaults
  BY <1>0, <1>f DEF Fault
<1>k. ASSUME NEW c \in Calls, NEW text \in Seq(Line), kept' = [kept EXCEPT ![c] = text]
      PROVE  kept' \in [Calls -> Seq(Line)]
  BY <1>t, <1>k DEF TypeOK
<1>e. <<>> \in Seq(Line)
  BY EmptySeq
<1>1. CASE LockAges
  <2>0. lock \in LockFile /\ lock' = [lock EXCEPT !.stale = TRUE]
    BY <1>t, <1>1 DEF LockAges, TypeOK
  <2>1. lock' \in LockFile
    BY <2>0, Zenon DEF LockFile
  <2> QED BY <1>t, <1>1, <2>1 DEF LockAges, TypeOK, file, locals, history
<1>2. ASSUME NEW c \in Calls, Begin(c) PROVE TypeOK'
  <2>1. pc' \in [Calls -> Steps]
    BY <1>t, <1>2, GotoType DEF Begin, Steps
  <2> QED BY <1>t, <1>2, <2>1 DEF Begin, TypeOK, file, history
<1>3. ASSUME NEW c \in Calls, Create(c) PROVE TypeOK'
  <2>1. pc' \in [Calls -> Steps]
    BY <1>t, <1>3, GotoType DEF Create, Steps
  <2>0. lock \in LockFile /\ (lock' = lock \/ lock' = [owner |-> c, stale |-> FALSE])
    BY <1>t, <1>3 DEF Create, TypeOK
  <2>2. lock' \in LockFile
    <3>1. [owner |-> c, stale |-> FALSE] \in LockFile
      BY DEF LockFile
    <3> QED BY <2>0, <3>1
  <2>3. locked' \in [Calls -> BOOLEAN]
    BY <1>t, <1>3 DEF Create, TypeOK
  <2> QED BY <1>t, <1>3, <2>1, <2>2, <2>3 DEF Create, TypeOK, file, history
<1>4. ASSUME NEW c \in Calls, Stat(c) PROVE TypeOK'
  <2>1. attempt[c] < Attempts
    BY <1>t, <1>4 DEF Stat, CallInv
  <2>2. attempt' \in [Calls -> 0..Attempts] /\ pc' \in [Calls -> Steps]
    <3>1. CASE lock.stale
      <4>1. Goto(c, "remove") /\ attempt' = attempt /\ "remove" \in Steps
        BY <1>4, <3>1 DEF Stat, Steps
      <4> QED BY <1>t, <4>1, GotoType DEF TypeOK
    <3>2. CASE ~lock.stale
      <4>1. NextAttempt(c)
        BY <1>4, <3>2 DEF Stat
      <4> QED BY <1>t, <2>1, <4>1, NextAttemptType
    <3> QED BY <3>1, <3>2
  <2> QED BY <1>t, <1>4, <2>2 DEF Stat, TypeOK, file, history
<1>5. ASSUME NEW c \in Calls, Remove(c) PROVE TypeOK'
  <2>1. attempt[c] < Attempts /\ NextAttempt(c)
    BY <1>t, <1>5 DEF Remove, CallInv
  <2>2. attempt' \in [Calls -> 0..Attempts] /\ pc' \in [Calls -> Steps]
    BY <1>t, <2>1, NextAttemptType
  <2>3. lock' \in LockFile
    BY <1>5 DEF Remove, LockFile, Unlocked
  <2> QED BY <1>t, <1>5, <2>2, <2>3 DEF Remove, TypeOK, file, history
<1>6. ASSUME NEW c \in Calls, AppendBody(c) PROVE TypeOK'
  <2>1. pc' \in [Calls -> Steps]
    BY <1>t, <1>6, GotoType DEF AppendBody, Steps
  <2>2. lines' \in Seq(Line)
    BY <1>t, <1>6, AppendRowLength DEF AppendBody
  <2>3. written' \in Seq(Rows)
    BY <1>t, <1>6, AppendProperties DEF AppendBody, TypeOK, Rows
  <2>4. bare' \in SUBSET Calls /\ open' \in BOOLEAN
    BY <1>t, <1>6 DEF AppendBody, TypeOK
  <2> QED BY <1>t, <1>6, <2>1, <2>2, <2>3, <2>4 DEF AppendBody, TypeOK
<1>7. ASSUME NEW c \in Calls, AppendNewline(c) PROVE TypeOK'
  <2>1. pc' \in [Calls -> Steps]
    BY <1>t, <1>7, GotoType DEF AppendNewline, Steps
  <2> QED BY <1>t, <1>7, <2>1 DEF AppendNewline, TypeOK, history
<1>8. ASSUME NEW c \in Calls, TrimRead(c) PROVE TypeOK'
  <2>1. pc' \in [Calls -> Steps]
    BY <1>t, <1>8, GotoType DEF TrimRead, Steps
  <2>2. kept' \in [Calls -> Seq(Line)] /\ trimmed' \in SUBSET Calls
    <3>1. CASE Len(lines) <= Cap
      BY <1>t, <1>8, <3>1 DEF TrimRead, TypeOK
    <3>2. CASE ~(Len(lines) <= Cap)
      <4>1. Len(lines) > Cap /\ lines \in Seq(Line)
        BY <1>t, <3>2, LedgerAssumption DEF TypeOK
      <4>2. kept' = [kept EXCEPT ![c] = Newest(lines)] /\ trimmed' = trimmed
        BY <1>8, <3>2 DEF TrimRead
      <4> QED BY <1>t, <1>k, <4>1, <4>2, NewestLength DEF TypeOK
    <3> QED BY <3>1, <3>2
  <2> QED BY <1>t, <1>8, <2>1, <2>2 DEF TrimRead, TypeOK, file
<1>9. ASSUME NEW c \in Calls, TrimTruncate(c) PROVE TypeOK'
  <2>1. pc' \in [Calls -> Steps]
    BY <1>t, <1>9, GotoType DEF TrimTruncate, Steps
  <2> QED BY <1>t, <1>e, <1>9, <2>1 DEF TrimTruncate, TypeOK, history
<1>10. ASSUME NEW c \in Calls, TrimWrite(c) PROVE TypeOK'
  <2>1. pc' \in [Calls -> Steps]
    BY <1>t, <1>10, GotoType DEF TrimWrite, Steps
  <2>2. kept' \in [Calls -> Seq(Line)]
    BY <1>k, <1>e, <1>10 DEF TrimWrite
  <2>3. lines' \in Seq(Line) /\ trimmed' \in SUBSET Calls
    BY <1>t, <1>10 DEF TrimWrite, TypeOK
  <2> QED BY <1>t, <1>10, <2>1, <2>2, <2>3 DEF TrimWrite, TypeOK
<1>11. ASSUME NEW c \in Calls, Drop(c) PROVE TypeOK'
  <2>1. pc' \in [Calls -> Steps]
    BY <1>t, <1>11, GotoType DEF Drop, Steps
  <2>2. lock' \in LockFile
    BY <1>11 DEF Drop, LockFile, Unlocked
  <2> QED BY <1>t, <1>11, <2>1, <2>2 DEF Drop, TypeOK, file, history
<1>12. ASSUME NEW c \in Calls, CreateError(c) PROVE TypeOK'
  <2>1. pc' \in [Calls -> Steps]
    BY <1>t, <1>12, GotoType DEF CreateError, Steps
  <2> QED BY <1>t, <1>f, <1>12, <2>1 DEF CreateError, TypeOK, file, history
<1>13. ASSUME NEW c \in Calls, AppendError(c) PROVE TypeOK'
  <2>1. pc' \in [Calls -> Steps]
    BY <1>t, <1>13, GotoType DEF AppendError, Steps
  <2> QED BY <1>t, <1>f, <1>13, <2>1 DEF AppendError, TypeOK, file, history
<1>14. ASSUME NEW c \in Calls, TrimError(c) PROVE TypeOK'
  <2>1. pc' \in [Calls -> Steps]
    BY <1>t, <1>14, GotoType DEF TrimError, Steps
  <2>2. kept' \in [Calls -> Seq(Line)]
    BY <1>k, <1>e, <1>14 DEF TrimError
  <2> QED BY <1>t, <1>f, <1>14, <2>1, <2>2 DEF TrimError, TypeOK, file, history
<1>15. ASSUME NEW c \in Calls, Crash(c) PROVE TypeOK'
  <2>1. pc' \in [Calls -> Steps]
    BY <1>t, <1>15, GotoType DEF Crash, Steps
  <2>2. kept' \in [Calls -> Seq(Line)]
    BY <1>k, <1>e, <1>15 DEF Crash
  <2> QED BY <1>t, <1>f, <1>15, <2>1, <2>2 DEF Crash, TypeOK, file, history
<1> QED
  BY <1>1, <1>2, <1>3, <1>4, <1>5, <1>6, <1>7, <1>8, <1>9, <1>10, <1>11, <1>12,
     <1>13, <1>14, <1>15 DEF Next, Record, Failure

-----------------------------------------------------------------------------
(* What the program counters say. *)

\* A call that takes a step has its row on the file only if it had it, or
\* writes it now.
LEMMA WrittenGrows ==
  ASSUME TypeOK, NEW c \in Calls, AppendBody(c), NEW d \in Calls
  PROVE  IsWritten(d)' <=> IsWritten(d) \/ d = c
<1>1. written \in Seq(Rows) /\ Len(written) \in Nat /\ c \in Rows /\ written' = Append(written, c)
  BY DEF TypeOK, Rows, AppendBody
<1>2. /\ Len(written') = Len(written) + 1
      /\ \A i \in 1..Len(written) : written'[i] = written[i]
      /\ written'[Len(written) + 1] = c
  BY <1>1, AppendProperties
<1>3. 1..Len(written') = 1..Len(written) \cup {Len(written) + 1}
  BY <1>1, <1>2
<1> QED BY <1>2, <1>3 DEF IsWritten

\* Every step keeps what the program counters say about locals and rows.
LEMMA StepCall == IndInv /\ Next => CallInv'
<1> SUFFICES ASSUME IndInv, Next, NEW d \in Calls
             PROVE  /\ pc'[d] \in {"idle", "create", "stat", "remove"} => attempt'[d] < Attempts /\ ~locked'[d]
                    /\ pc'[d] \in {"read", "truncate", "write", "drop"} => locked'[d]
                    /\ pc'[d] \in {"truncate", "write"} => Len(kept'[d]) <= Cap
                    /\ pc'[d] \in {"idle", "create", "stat", "remove", "append"}
                         => ~IsWritten(d)' /\ d \notin trimmed'
  BY DEF CallInv
<1> DEFINE Goal(e) ==
             /\ pc'[e] \in {"idle", "create", "stat", "remove"} => attempt'[e] < Attempts /\ ~locked'[e]
             /\ pc'[e] \in {"read", "truncate", "write", "drop"} => locked'[e]
             /\ pc'[e] \in {"truncate", "write"} => Len(kept'[e]) <= Cap
             /\ pc'[e] \in {"idle", "create", "stat", "remove", "append"}
                  => ~IsWritten(e)' /\ e \notin trimmed'
<1>t. TypeOK /\ CallInv /\ Attempts \in Nat \ {0} /\ Cap \in Nat
  BY LedgerAssumption DEF IndInv
<1>i. /\ pc[d] \in {"idle", "create", "stat", "remove"} => attempt[d] < Attempts /\ ~locked[d]
      /\ pc[d] \in {"read", "truncate", "write", "drop"} => locked[d]
      /\ pc[d] \in {"truncate", "write"} => Len(kept[d]) <= Cap
      /\ pc[d] \in {"idle", "create", "stat", "remove", "append"}
           => ~IsWritten(d) /\ d \notin trimmed
  BY <1>t DEF CallInv
<1>y. /\ pc \in [Calls -> Steps] /\ locked \in [Calls -> BOOLEAN]
      /\ attempt \in [Calls -> 0..Attempts] /\ kept \in [Calls -> Seq(Line)]
  BY <1>t DEF TypeOK
<1>w. ASSUME written' = written PROVE IsWritten(d)' <=> IsWritten(d)
  BY <1>w DEF IsWritten
<1>1. CASE LockAges
  BY <1>1, <1>i, <1>w DEF LockAges, locals, history
<1>2. ASSUME NEW c \in Calls, Begin(c) PROVE Goal(d)
  BY <1>2, <1>i, <1>y, <1>w, <1>t DEF Begin, Goto, history
<1>3. ASSUME NEW c \in Calls, Create(c) PROVE Goal(d)
  BY <1>3, <1>i, <1>y, <1>w, <1>t DEF Create, Goto, history
<1>4. ASSUME NEW c \in Calls, Stat(c) PROVE Goal(d)
  BY <1>4, <1>i, <1>y, <1>w, <1>t DEF Stat, NextAttempt, Goto, history
<1>5. ASSUME NEW c \in Calls, Remove(c) PROVE Goal(d)
  BY <1>5, <1>i, <1>y, <1>w, <1>t DEF Remove, NextAttempt, Goto, history
<1>6. ASSUME NEW c \in Calls, AppendBody(c) PROVE Goal(d)
  BY <1>6, <1>i, <1>y, <1>t, WrittenGrows DEF AppendBody, Goto
<1>7. ASSUME NEW c \in Calls, AppendNewline(c) PROVE Goal(d)
  BY <1>7, <1>i, <1>y, <1>w, <1>t DEF AppendNewline, Goto, history
<1>8. ASSUME NEW c \in Calls, TrimRead(c) PROVE Goal(d)
  <2>1. CASE Len(lines) <= Cap
    BY <1>8, <2>1, <1>i, <1>y, <1>w, <1>t DEF TrimRead, Goto
  <2>2. CASE ~(Len(lines) <= Cap)
    <3>1. Len(Newest(lines)) = Cap
      <4>1. Len(lines) > Cap /\ lines \in Seq(Line)
        BY <1>t, <2>2 DEF TypeOK
      <4> QED BY <4>1, NewestLength
    <3> QED BY <1>8, <2>2, <3>1, <1>i, <1>y, <1>w, <1>t DEF TrimRead, Goto
  <2> QED BY <2>1, <2>2
<1>9. ASSUME NEW c \in Calls, TrimTruncate(c) PROVE Goal(d)
  BY <1>9, <1>i, <1>y, <1>w, <1>t DEF TrimTruncate, Goto, history
<1>10. ASSUME NEW c \in Calls, TrimWrite(c) PROVE Goal(d)
  BY <1>10, <1>i, <1>y, <1>w, <1>t DEF TrimWrite, Goto
<1>11. ASSUME NEW c \in Calls, Drop(c) PROVE Goal(d)
  BY <1>11, <1>i, <1>y, <1>w, <1>t DEF Drop, Goto, history
<1>12. ASSUME NEW c \in Calls, CreateError(c) PROVE Goal(d)
  BY <1>12, <1>i, <1>y, <1>w, <1>t DEF CreateError, Goto, history
<1>13. ASSUME NEW c \in Calls, AppendError(c) PROVE Goal(d)
  BY <1>13, <1>i, <1>y, <1>w, <1>t DEF AppendError, Goto, history
<1>14. ASSUME NEW c \in Calls, TrimError(c) PROVE Goal(d)
  BY <1>14, <1>i, <1>y, <1>w, <1>t DEF TrimError, Goto, history
<1>15. ASSUME NEW c \in Calls, Crash(c) PROVE Goal(d)
  BY <1>15, <1>i, <1>y, <1>w, <1>t DEF Crash, Goto, history
<1> QED
  BY <1>1, <1>2, <1>3, <1>4, <1>5, <1>6, <1>7, <1>8, <1>9, <1>10, <1>11, <1>12,
     <1>13, <1>14, <1>15 DEF Next, Record, Failure

-----------------------------------------------------------------------------
(* The lock file. *)

\* A lock file is stale, and a call about to remove one, only after LockAges.
LEMMA StepFresh == IndInv /\ Next => FreshInv'
<1> SUFFICES ASSUME IndInv, Next PROVE FreshInv'
  OBVIOUS
<1>t. TypeOK /\ CallInv /\ FreshInv
  BY DEF IndInv
<1>y. pc \in [Calls -> Steps]
  BY <1>t DEF TypeOK
<1>a. lock.stale /\ ~aged => FALSE
  BY <1>t DEF FreshInv
<1>1. CASE LockAges
  BY <1>1, <1>t DEF LockAges, FreshInv, file
<1>2. ASSUME NEW c \in Calls, Record(c) PROVE FreshInv'
  <2>1. aged' = aged
    BY <1>2 DEF Record, Create, Stat, Remove, AppendBody, AppendNewline,
                TrimRead, TrimTruncate, TrimWrite, Drop
  <2>2. ~aged => ~lock'.stale
    <3>1. lock' = lock \/ lock' = Unlocked \/ lock' = [owner |-> c, stale |-> FALSE]
      BY <1>2 DEF Record, Create, Stat, Remove, AppendBody, AppendNewline,
                  TrimRead, TrimTruncate, TrimWrite, Drop
    <3> QED BY <3>1, <1>t DEF FreshInv, Unlocked
  <2>3. ASSUME ~aged, NEW d \in Calls PROVE pc'[d] # "remove"
    <3>1. pc[d] # "remove" /\ ~lock.stale
      BY <1>t, <2>3 DEF FreshInv
    <3> QED BY <1>2, <1>y, <3>1 DEF Record, Create, Stat, Remove, AppendBody,
          AppendNewline, TrimRead, TrimTruncate, TrimWrite, Drop, NextAttempt, Goto
  <2>4. open' => lines' # <<>>
    <3>1. CASE AppendBody(c)
      BY <1>t, <3>1, AppendRowLength DEF AppendBody
    <3>2. CASE ~AppendBody(c)
      BY <1>2, <1>t, <3>2 DEF Record, Create, Stat, Remove, AppendNewline,
         TrimRead, TrimTruncate, TrimWrite, Drop, file, FreshInv
    <3> QED BY <3>1, <3>2
  <2> QED BY <2>1, <2>2, <2>3, <2>4 DEF FreshInv
<1>3. ASSUME NEW c \in Calls, Begin(c) \/ Failure(c) PROVE FreshInv'
  <2>1. /\ aged' = aged /\ lock' = lock /\ lines' = lines /\ open' = open
        /\ \E step \in Steps \ {"remove"} : Goto(c, step)
    BY <1>3 DEF Begin, Failure, CreateError, AppendError, TrimError, Crash, file, Steps
  <2> QED BY <1>t, <1>y, <2>1 DEF FreshInv, Goto
<1> QED BY <1>1, <1>2, <1>3 DEF Next

\* Until a lock file ages, only its creator removes it.
LEMMA StepHolders == IndInv /\ Next => HoldersSerialized'
<1> SUFFICES ASSUME IndInv, Next, ~aged', NEW d \in Calls, Holding(d)'
             PROVE  lock'.owner = d
  BY DEF HoldersSerialized
<1>t. /\ TypeOK /\ CallInv /\ FreshInv /\ HoldersSerialized
      /\ NoOne \notin Calls
  BY LedgerAssumption DEF IndInv
<1>y. pc \in [Calls -> Steps] /\ locked \in [Calls -> BOOLEAN]
  BY <1>t DEF TypeOK
<1>h. locked'[d] /\ pc'[d] \in {"append", "newline", "read", "truncate", "write", "drop"}
  BY DEF Holding
<1>1. CASE LockAges
  BY <1>1 DEF LockAges
<1>2. ASSUME NEW c \in Calls, Begin(c) \/ Record(c) \/ Failure(c) PROVE lock'.owner = d
  <2>0. ~aged
    BY <1>2 DEF Begin, Record, Failure, Create, Stat, Remove, AppendBody, AppendNewline,
          TrimRead, TrimTruncate, TrimWrite, Drop, CreateError, AppendError, TrimError, Crash
  <2>1. (Holding(d) => lock.owner = d) /\ pc[c] # "remove"
    BY <1>t, <2>0 DEF HoldersSerialized, FreshInv
  <2>2. CASE Create(c)
    <3>1. CASE lock.owner = NoOne
      <4>1. ~Holding(d)
        BY <1>t, <2>1, <3>1
      <4>2. d = c
        BY <1>y, <1>h, <2>2, <3>1, <4>1 DEF Create, Goto, Holding
      <4>3. lock' = [owner |-> c, stale |-> FALSE]
        BY <2>2, <3>1 DEF Create
      <4> QED BY <4>2, <4>3
    <3>2. CASE lock.owner # NoOne
      BY <1>y, <1>h, <2>1, <2>2, <3>2 DEF Create, Goto, Holding
    <3> QED BY <3>1, <3>2
  <2>3. CASE Drop(c)
    <3>1. Holding(c)
      BY <1>t, <2>3 DEF Drop, CallInv, Holding
    <3>2. lock.owner = c
      BY <1>t, <2>0, <3>1 DEF HoldersSerialized
    <3>3. d # c
      BY <1>y, <1>h, <2>3 DEF Drop, Goto
    <3>4. Holding(d)
      BY <1>y, <1>h, <2>3, <3>3 DEF Drop, Goto, Holding
    <3> QED BY <2>1, <3>2, <3>3, <3>4
  <2>4. CASE Stat(c) \/ Begin(c)
    <3>1. lock' = lock /\ locked' = locked
      BY <2>4 DEF Stat, Begin
    <3>2. ASSUME d = c, locked[c] PROVE FALSE
      BY <2>4, <3>2, <1>t DEF Stat, Begin, CallInv
    <3>3. d # c
      BY <1>h, <3>1, <3>2
    <3> QED BY <1>y, <1>h, <2>1, <2>4, <3>1, <3>3 DEF Stat, Begin, NextAttempt, Goto, Holding
  <2>5. CASE AppendBody(c) \/ AppendNewline(c) \/ TrimRead(c) \/ TrimTruncate(c) \/ TrimWrite(c)
    BY <1>y, <1>h, <2>1, <2>5 DEF AppendBody, AppendNewline, TrimRead, TrimTruncate,
       TrimWrite, Goto, Holding
  <2>6. CASE Failure(c)
    <3>1. lock' = lock /\ locked' = locked
      BY <2>6 DEF Failure, CreateError, AppendError, TrimError, Crash
    <3>2. CASE CreateError(c)
      <4>1. ~locked[c]
        BY <3>2, <1>t DEF CreateError, CallInv
      <4>2. d # c
        BY <1>h, <3>1, <4>1
      <4> QED BY <1>y, <1>h, <2>1, <3>1, <3>2, <4>2 DEF CreateError, Goto, Holding
    <3>3. CASE ~CreateError(c)
      BY <1>y, <1>h, <2>1, <2>6, <3>1, <3>3 DEF Failure, AppendError, TrimError, Crash, Goto, Holding
    <3> QED BY <3>2, <3>3
  <2> QED BY <1>2, <2>1, <2>2, <2>3, <2>4, <2>5, <2>6 DEF Record, Remove
<1> QED BY <1>1, <1>2 DEF Next

-----------------------------------------------------------------------------
(* The bound of the file: a row above the cap is the row of a call that has  *)
(* not trimmed, because every finished trim leaves at most Cap lines.        *)

\* The calls behind the backlog are finitely many.
LEMMA UntrimmedFinite ==
  ASSUME TRUE
  PROVE  IsFiniteSet(Untrimmed) /\ Cardinality(Untrimmed) \in Nat
<1>1. Untrimmed \subseteq Calls
  BY DEF Untrimmed
<1> QED BY <1>1, LedgerAssumption, FS_Subset, FS_CardinalityType

\* Every step keeps the bound: an append adds its caller to the backlog, a
\* finished trim leaves at most Cap lines.
LEMMA StepBound == IndInv /\ Next => LedgerBounded'
<1> SUFFICES ASSUME IndInv, Next PROVE LedgerBounded'
  OBVIOUS
<1>t. TypeOK /\ CallInv /\ FreshInv /\ LedgerBounded
  BY DEF IndInv
<1>c. IsFiniteSet(Untrimmed) /\ Cardinality(Untrimmed) \in Nat
  BY UntrimmedFinite
<1>p. IsFiniteSet(Untrimmed') /\ Cardinality(Untrimmed') \in Nat
  <2>1. Untrimmed' \subseteq Calls
    BY DEF Untrimmed
  <2> QED BY <2>1, LedgerAssumption, FS_Subset, FS_CardinalityType
<1>l. Len(lines) \in Nat /\ Cap \in Nat
  BY <1>t, LedgerAssumption DEF TypeOK
<1>s. ASSUME lines' = lines, written' = written, trimmed' = trimmed PROVE LedgerBounded'
  <2>1. Untrimmed' = Untrimmed
    BY <1>s DEF Untrimmed, IsWritten
  <2> QED BY <1>t, <1>s, <2>1 DEF LedgerBounded
<1>b. ASSUME Len(lines') <= Cap, Len(lines') \in Nat PROVE LedgerBounded'
  BY <1>b, <1>p, <1>l DEF LedgerBounded
<1>1. CASE LockAges
  BY <1>1, <1>s DEF LockAges, file, history
<1>2. ASSUME NEW c \in Calls, AppendBody(c) PROVE LedgerBounded'
  <2>1. c \notin Untrimmed /\ c \notin trimmed /\ trimmed' = trimmed
    BY <1>t, <1>2 DEF AppendBody, CallInv, Untrimmed
  <2>2. Untrimmed' = Untrimmed \cup {c}
    BY <1>t, <1>2, <2>1, WrittenGrows DEF Untrimmed
  <2>3. Cardinality(Untrimmed') = Cardinality(Untrimmed) + 1
    BY <1>c, <2>1, <2>2, FS_AddElement
  <2>4. Len(lines') <= Len(lines) + 1 /\ Len(lines') \in Nat
    BY <1>t, <1>2, AppendRowLength DEF AppendBody
  <2> QED BY <1>t, <1>c, <1>l, <2>3, <2>4 DEF LedgerBounded
<1>3. ASSUME NEW c \in Calls, TrimRead(c) PROVE LedgerBounded'
  <2>1. lines' = lines /\ written' = written
    BY <1>3 DEF TrimRead, file
  <2>2. CASE Len(lines) <= Cap
    BY <1>b, <1>l, <2>1, <2>2
  <2>3. CASE ~(Len(lines) <= Cap)
    BY <1>3, <1>s, <2>1, <2>3 DEF TrimRead
  <2> QED BY <2>2, <2>3
<1>4. ASSUME NEW c \in Calls, TrimTruncate(c) PROVE LedgerBounded'
  <2>1. lines' = <<>> /\ Len(<<>>) = 0
    BY <1>4 DEF TrimTruncate
  <2> QED BY <1>b, <1>l, <2>1
<1>5. ASSUME NEW c \in Calls, TrimWrite(c) PROVE LedgerBounded'
  <2>1. lines' = kept[c] /\ Len(kept[c]) <= Cap /\ kept[c] \in Seq(Line)
    BY <1>t, <1>5 DEF TrimWrite, CallInv, TypeOK
  <2> QED BY <1>b, <2>1
<1>6. ASSUME NEW c \in Calls, Begin(c) \/ Record(c) \/ Failure(c),
             ~AppendBody(c), ~TrimRead(c), ~TrimTruncate(c), ~TrimWrite(c)
      PROVE  LedgerBounded'
  <2>1. lines' = lines /\ written' = written /\ trimmed' = trimmed
    BY <1>6 DEF Begin, Record, Failure, Create, Stat, Remove, AppendNewline, Drop,
          CreateError, AppendError, TrimError, Crash, file, history
  <2> QED BY <1>s, <2>1
<1> QED BY <1>1, <1>2, <1>3, <1>4, <1>5, <1>6 DEF Next

-----------------------------------------------------------------------------
\* IndInv holds in every reachable state.
THEOREM Invariance == Spec => []IndInv
<1>1. Init => IndInv
  BY InitInd
<1>2. IndInv /\ [Next]_vars => IndInv'
  <2>1. CASE Next
    BY <2>1, StepType, StepCall, StepFresh, StepHolders, StepBound DEF IndInv
  <2>2. CASE UNCHANGED vars
    BY <2>2 DEF vars, file, locals, history, IndInv, TypeOK, CallInv, FreshInv,
       HoldersSerialized, Holding, LedgerBounded, Untrimmed, IsWritten
  <2> QED BY <2>1, <2>2
<1> QED BY <1>1, <1>2, PTL DEF Spec

\* The file, the lock and the calls in progress keep their shape; in
\* particular try_acquire makes no more than LOCK_RETRY_ATTEMPTS attempts.
THEOREM TypeCorrect == Spec => []TypeOK
<1>1. IndInv => TypeOK
  BY DEF IndInv
<1> QED BY <1>1, Invariance, PTL

\* However lock files are stolen and calls crash or fail, record_invocation
\* keeps the ledger within MAX_LEDGER_ROWS plus one line for each call that
\* wrote its row and has not finished a trim.
THEOREM Bounded == Spec => []LedgerBounded
<1>1. IndInv => LedgerBounded
  BY DEF IndInv
<1> QED BY <1>1, Invariance, PTL

\* While no lock file reaches LOCK_STALE_SECS, every call that believes to
\* hold the lock is the creator of the lock file, so there is at most one.
THEOREM Serialized == Spec => []HoldersSerialized
<1>1. IndInv => HoldersSerialized
  BY DEF IndInv
<1> QED BY <1>1, Invariance, PTL

-----------------------------------------------------------------------------
(* What the file holds in a history of locked, uninterrupted calls. *)

Calm == ~aged /\ faults = 0 /\ bare = {}

\* The lines of a text are the newest rows, one each: all of them, or at least
\* Cap.
IsNewest(ls) ==
  /\ ls \in Seq(Line) /\ Len(ls) <= Len(written)
  /\ Len(ls) >= Cap \/ Len(ls) = Len(written)
  /\ \A i \in 1..Len(ls) : ls[i] = <<written[Len(written) - Len(ls) + i]>>

Busy == {"newline", "read", "truncate", "write", "drop"}

\* Only holders of the lock touch the file; the text a trim carries, and the
\* file unless it is being rewritten, are the newest rows.
TextInv ==
  Calm => /\ \A c \in Calls : pc[c] \in Busy => locked[c]
          /\ open => \E c \in Calls : pc[c] = "newline"
          /\ \A c \in Calls : pc[c] \in {"truncate", "write"} => IsNewest(kept[c])
          /\ (\A c \in Calls : pc[c] # "write") => IsNewest(lines)

\* While one call is past its append, no other is.
LEMMA BusyAlone ==
  ASSUME IndInv, TextInv, Calm, NEW c \in Calls, Holding(c), NEW d \in Calls, pc[d] \in Busy
  PROVE  d = c
<1>1. Holding(d)
  BY DEF TextInv, Holding, Busy
<1> QED BY <1>1 DEF IndInv, HoldersSerialized, Calm

\* Nothing is readable but by its row: the newest rows are where they should be.
LEMMA NewestReadable ==
  ASSUME TypeOK, NEW ls, IsNewest(ls)
  PROVE  NewestWritten \subseteq Readable(ls)
<1>0. Len(written) \in Nat /\ Cap \in Nat /\ Len(ls) \in Nat
  BY LedgerAssumption DEF TypeOK, IsNewest
<1> SUFFICES ASSUME NEW j \in 1..Len(written), j > Len(written) - Cap
             PROVE  written[j] \in Readable(ls)
  BY DEF NewestWritten
<1>1. PICK i \in 1..Len(ls) : j = Len(written) - Len(ls) + i
  <2>1. j - (Len(written) - Len(ls)) \in 1..Len(ls)
    BY <1>0 DEF IsNewest
  <2>2. j = Len(written) - Len(ls) + (j - (Len(written) - Len(ls)))
    BY <1>0
  <2> QED BY <2>1, <2>2
<1>2. ls[i] = <<written[j]>>
  BY <1>1 DEF IsNewest
<1>3. Head(ls[i]) = written[j]
  BY <1>2
<1> QED BY <1>3 DEF Readable

\* A row appended to the newest ones, and to the history.
LEMMA NewestAppended ==
  ASSUME TypeOK, NEW c \in Calls, IsNewest(lines), lines' = Append(lines, <<c>>),
         written' = Append(written, c)
  PROVE  IsNewest(lines)'
<1>0. /\ written \in Seq(Rows) /\ c \in Rows /\ lines \in Seq(Line) /\ <<c>> \in Line
      /\ Len(written) \in Nat /\ Len(lines) \in Nat /\ Cap \in Nat
  BY LedgerAssumption DEF TypeOK, Rows, Line
<1>1. /\ Len(written') = Len(written) + 1
      /\ \A i \in 1..Len(written) : written'[i] = written[i]
      /\ written'[Len(written) + 1] = c
  BY <1>0, AppendProperties
<1>2. /\ lines' \in Seq(Line) /\ Len(lines') = Len(lines) + 1
      /\ \A i \in 1..Len(lines) : lines'[i] = lines[i]
      /\ lines'[Len(lines) + 1] = <<c>>
  BY <1>0, AppendProperties
<1>3. ASSUME NEW i \in 1..Len(lines')
      PROVE  lines'[i] = <<written'[Len(written') - Len(lines') + i]>>
  <2>1. CASE i = Len(lines) + 1
    <3>1. Len(written') - Len(lines') + i = Len(written) + 1
      BY <1>0, <1>1, <1>2, <2>1
    <3> QED BY <1>1, <1>2, <2>1, <3>1
  <2>2. CASE i # Len(lines) + 1
    <3>1. i \in 1..Len(lines)
      BY <1>0, <1>2, <2>2
    <3>2. Len(written') - Len(lines') + i = Len(written) - Len(lines) + i
      BY <1>0, <1>1, <1>2, <3>1
    <3>3. Len(written) - Len(lines) + i \in 1..Len(written)
      BY <1>0, <3>1 DEF IsNewest
    <3>4. written'[Len(written') - Len(lines') + i] = written[Len(written) - Len(lines) + i]
      BY <1>1, <3>2, <3>3
    <3> QED BY <1>2, <3>1, <3>4 DEF IsNewest
  <2> QED BY <2>1, <2>2
<1>4. Len(lines') <= Len(written') /\ (Len(lines') >= Cap \/ Len(lines') = Len(written'))
  BY <1>0, <1>1, <1>2 DEF IsNewest
<1> QED BY <1>2, <1>3, <1>4 DEF IsNewest

\* What a trim cuts off are the oldest rows.
LEMMA NewestTrimmed ==
  ASSUME TypeOK, IsNewest(lines), Len(lines) > Cap
  PROVE  IsNewest(Newest(lines))
<1> DEFINE m == Len(lines) - Cap + 1
<1>0. Len(written) \in Nat /\ Len(lines) \in Nat /\ Cap \in Nat \ {0} /\ lines \in Seq(Line)
  BY LedgerAssumption DEF TypeOK
<1>1. Newest(lines) \in Seq(Line) /\ Len(Newest(lines)) = Cap
  BY <1>0, NewestLength
<1>2. ASSUME NEW i \in 1..Cap PROVE Newest(lines)[i] = lines[Len(lines) - Cap + i]
  <2>1. \A j \in m..Len(lines) : lines[j] \in Line
    BY <1>0, ElementOfSeq
  <2>2. Newest(lines)[i] = lines[m + i - 1]
    BY <1>0, <2>1, SubSeqProperties DEF Newest
  <2>3. m + i - 1 = Len(lines) - Cap + i
    BY <1>0
  <2> QED BY <2>2, <2>3
<1>3. ASSUME NEW i \in 1..Cap PROVE Newest(lines)[i] = <<written[Len(written) - Cap + i]>>
  <2>1. Len(lines) - Cap + i \in 1..Len(lines)
    BY <1>0
  <2>2. lines[Len(lines) - Cap + i] = <<written[Len(written) - Len(lines) + (Len(lines) - Cap + i)]>>
    BY <2>1 DEF IsNewest
  <2>3. Len(written) - Len(lines) + (Len(lines) - Cap + i) = Len(written) - Cap + i
    BY <1>0
  <2> QED BY <1>2, <2>2, <2>3
<1>4. Cap <= Len(written)
  BY <1>0 DEF IsNewest
<1> QED BY <1>0, <1>1, <1>3, <1>4 DEF IsNewest

\* A call's step before its append, or at the drop, touches no text.
LEMMA TextQuiet ==
  ASSUME IndInv, TextInv, NEW c \in Calls, NEW step \in Steps, Goto(c, step),
         UNCHANGED <<file, kept, written, bare, faults, aged>>,
         \A d \in Calls : pc'[d] \in Busy => locked'[d] = locked[d],
         pc[c] \notin {"newline", "read", "truncate", "write"},
         step \notin Busy
  PROVE  TextInv'
<1>1. \A d \in Calls \ {c} : pc'[d] = pc[d]
  BY DEF IndInv, TypeOK, Goto
<1>2. pc'[c] = step
  BY DEF IndInv, TypeOK, Goto
<1>3. \A ls : IsNewest(ls)' <=> IsNewest(ls)
  BY DEF IsNewest
<1> SUFFICES ASSUME Calm' PROVE /\ \A d \in Calls : pc'[d] \in Busy => locked'[d]
                                /\ open' => \E d \in Calls : pc'[d] = "newline"
                                /\ \A d \in Calls : pc'[d] \in {"truncate", "write"} => IsNewest(kept[d])'
                                /\ (\A d \in Calls : pc'[d] # "write") => IsNewest(lines)'
  BY DEF TextInv
<1>4. Calm
  BY DEF Calm
<1>5. \A d \in Calls : pc'[d] \in Busy => locked'[d]
  BY <1>1, <1>2, <1>4 DEF TextInv
<1>6. open' => \E d \in Calls : pc'[d] = "newline"
  BY <1>1, <1>4 DEF TextInv, file
<1>7. ASSUME NEW d \in Calls, pc'[d] \in {"truncate", "write"} PROVE IsNewest(kept[d])'
  <2>1. d # c /\ pc[d] \in {"truncate", "write"}
    BY <1>1, <1>2, <1>7 DEF Busy
  <2>2. IsNewest(kept[d])
    BY <1>4, <2>1 DEF TextInv
  <2> QED BY <2>2 DEF IsNewest
<1>8. (\A d \in Calls : pc'[d] # "write") => IsNewest(lines)'
  BY <1>1, <1>4 DEF TextInv, file, IsNewest
<1> QED BY <1>5, <1>6, <1>7, <1>8

LEMMA StepText == IndInv /\ TextInv /\ Next => TextInv'
<1> SUFFICES ASSUME IndInv, TextInv, Next PROVE TextInv'
  OBVIOUS
<1>t. TypeOK /\ pc \in [Calls -> Steps] /\ faults \in Nat /\ CallInv
  BY LedgerAssumption DEF IndInv, TypeOK
<1>1. CASE LockAges
  BY <1>1 DEF LockAges, TextInv, Calm
<1>2. ASSUME NEW c \in Calls, Failure(c) PROVE TextInv'
  <2>1. faults' = faults + 1
    BY <1>2 DEF Failure, CreateError, AppendError, TrimError, Crash, Fault
  <2> QED BY <1>t, <2>1 DEF TextInv, Calm
<1>3. ASSUME NEW c \in Calls, Begin(c) PROVE TextInv'
  BY <1>3, TextQuiet DEF Begin, Steps, Busy, history
<1>4. ASSUME NEW c \in Calls, Create(c) PROVE TextInv'
  <2>1. PICK step \in {"append", "stat"} : Goto(c, step)
    BY <1>4 DEF Create
  <2>2. \A d \in Calls : pc'[d] \in Busy => locked'[d] = locked[d]
    BY <1>t, <1>4, <2>1 DEF Create, Goto, Busy, TypeOK
  <2> QED BY <1>4, <2>1, <2>2, TextQuiet DEF Create, Steps, Busy, history
<1>5. ASSUME NEW c \in Calls, Stat(c) \/ Remove(c) PROVE TextInv'
  <2>1. PICK step \in {"create", "append", "remove"} : Goto(c, step)
    BY <1>5 DEF Stat, Remove, NextAttempt
  <2> QED BY <1>5, <2>1, TextQuiet DEF Stat, Remove, Steps, Busy, history
<1>6. ASSUME NEW c \in Calls, Drop(c) PROVE TextInv'
  BY <1>6, TextQuiet DEF Drop, Steps, Busy, history
<1> DEFINE Text == /\ \A d \in Calls : pc'[d] \in Busy => locked'[d]
                   /\ open' => \E d \in Calls : pc'[d] = "newline"
                   /\ \A d \in Calls : pc'[d] \in {"truncate", "write"} => IsNewest(kept[d])'
                   /\ (\A d \in Calls : pc'[d] # "write") => IsNewest(lines)'
<1>7. ASSUME NEW c \in Calls, AppendBody(c) PROVE TextInv'
  <2> SUFFICES ASSUME Calm' PROVE Text
    BY DEF TextInv
  <2>1. locked[c] /\ Calm /\ Holding(c)
    BY <1>7 DEF AppendBody, Calm, Holding
  <2>2. \A d \in Calls : pc[d] \notin Busy
    BY <1>7, <2>1, BusyAlone DEF AppendBody, Busy
  <2>3. pc' = [pc EXCEPT ![c] = "newline"] /\ locked' = locked /\ open' = TRUE
    BY <1>7 DEF AppendBody, Goto
  <2>4. pc'[c] = "newline" /\ \A d \in Calls \ {c} : pc'[d] = pc[d]
    BY <1>t, <2>3
  <2>5. ~open /\ IsNewest(lines)
    BY <2>1, <2>2 DEF TextInv, Busy
  <2>6. lines' = Append(lines, <<c>>) /\ written' = Append(written, c)
    BY <1>7, <2>5 DEF AppendBody, AppendRow
  <2>7. IsNewest(lines)'
    BY <1>t, <2>5, <2>6, NewestAppended
  <2>8. \A d \in Calls : pc'[d] \in Busy => locked'[d]
    BY <2>1, <2>2, <2>3, <2>4
  <2>9. \A d \in Calls : pc'[d] \notin {"truncate", "write"}
    BY <2>2, <2>4 DEF Busy
  <2> QED BY <2>4, <2>7, <2>8, <2>9
<1>8. ASSUME NEW c \in Calls, AppendNewline(c) PROVE TextInv'
  <2> SUFFICES ASSUME Calm' PROVE Text
    BY DEF TextInv
  <2>1. Calm /\ locked' = locked /\ open' = FALSE /\ UNCHANGED <<lines, kept, written>>
    BY <1>8 DEF AppendNewline, Calm, history
  <2>2. locked[c] /\ pc[c] = "newline"
    BY <1>8, <2>1 DEF TextInv, Busy, AppendNewline
  <2>3. pc' = [pc EXCEPT ![c] = "read"]
    BY <1>8, <2>2 DEF AppendNewline, Goto
  <2>4. pc'[c] = "read" /\ \A d \in Calls \ {c} : pc'[d] = pc[d]
    BY <1>t, <2>3
  <2>5. \A d \in Calls : pc'[d] \in Busy => locked'[d]
    BY <2>1, <2>2, <2>4 DEF TextInv
  <2>6. \A d \in Calls : pc'[d] \in {"truncate", "write"} => IsNewest(kept[d])'
    BY <2>1, <2>4 DEF TextInv, IsNewest
  <2>7. (\A d \in Calls : pc'[d] # "write") => IsNewest(lines)'
    BY <2>1, <2>2, <2>4 DEF TextInv, IsNewest
  <2> QED BY <2>1, <2>5, <2>6, <2>7
<1>9. ASSUME NEW c \in Calls, TrimRead(c) \/ TrimTruncate(c) \/ TrimWrite(c) PROVE TextInv'
  <2> SUFFICES ASSUME Calm' PROVE Text
    BY DEF TextInv
  <2>1. Calm /\ locked' = locked /\ UNCHANGED written
    BY <1>9 DEF TrimRead, TrimTruncate, TrimWrite, Calm, history
  <2>2. pc[c] \in Busy /\ locked[c] /\ Holding(c)
    BY <1>9, <2>1 DEF TextInv, Busy, TrimRead, TrimTruncate, TrimWrite, Holding
  <2>3. \A d \in Calls \ {c} : pc[d] \notin Busy
    BY <2>1, <2>2, BusyAlone
  <2>4. PICK step \in {"drop", "truncate", "write"} : Goto(c, step)
    BY <1>9 DEF TrimRead, TrimTruncate, TrimWrite
  <2>5. pc'[c] = step /\ \A d \in Calls \ {c} : pc'[d] = pc[d]
    BY <1>t, <2>4 DEF Goto
  <2>6. \A d \in Calls : pc'[d] \in Busy => locked'[d]
    BY <2>1, <2>2, <2>3, <2>5
  <2>7. \A d \in Calls \ {c} : pc'[d] \notin {"truncate", "write"}
    BY <2>3, <2>5 DEF Busy
  <2>8. ~open' /\ (step \in {"truncate", "write"} => IsNewest(kept[c])') /\ (step # "write" => IsNewest(lines)')
    <3>1. CASE TrimRead(c)
      <4>1. IsNewest(lines) /\ ~open /\ UNCHANGED <<lines, open>>
        BY <2>1, <2>3, <3>1 DEF TextInv, TrimRead, Busy, file
      <4>2. IsNewest(lines)'
        BY <2>1, <4>1 DEF IsNewest
      <4>3. CASE Len(lines) <= Cap
        <5>1. step = "drop"
          BY <1>t, <2>5, <3>1, <4>3 DEF TrimRead, Goto
        <5> QED BY <4>1, <4>2, <5>1
      <4>4. CASE ~(Len(lines) <= Cap)
        <5>1. kept'[c] = Newest(lines) /\ step = "truncate"
          BY <1>t, <2>5, <3>1, <4>4 DEF TrimRead, Goto, TypeOK
        <5>2. Len(lines) > Cap
          BY <1>t, <4>4, LedgerAssumption DEF TypeOK
        <5>3. IsNewest(Newest(lines))
          BY <1>t, <4>1, <5>2, NewestTrimmed
        <5>4. IsNewest(kept[c])'
          BY <2>1, <5>1, <5>3 DEF IsNewest
        <5> QED BY <4>1, <4>2, <5>4
      <4> QED BY <4>3, <4>4
    <3>2. CASE TrimTruncate(c)
      <4>1. step = "write" /\ open' = FALSE /\ kept' = kept
        BY <1>t, <2>5, <3>2 DEF TrimTruncate, Goto
      <4>2. IsNewest(kept[c])
        BY <2>1, <3>2 DEF TextInv, TrimTruncate
      <4> QED BY <2>1, <4>1, <4>2 DEF IsNewest
    <3>3. CASE TrimWrite(c)
      <4>1. step = "drop" /\ open' = FALSE /\ lines' = kept[c]
        BY <1>t, <2>5, <3>3 DEF TrimWrite, Goto
      <4>2. IsNewest(kept[c])
        BY <2>1, <3>3 DEF TextInv, TrimWrite
      <4>3. IsNewest(lines)'
        BY <2>1, <4>1, <4>2 DEF IsNewest
      <4> QED BY <4>1, <4>3
    <3> QED BY <1>9, <3>1, <3>2, <3>3
  <2> QED BY <2>5, <2>6, <2>7, <2>8
<1> QED BY <1>1, <1>2, <1>3, <1>4, <1>5, <1>6, <1>7, <1>8, <1>9 DEF Next, Record

LEMMA TextMeans == IndInv /\ TextInv => NewestRowsKept
<1> SUFFICES ASSUME IndInv, TextInv, Calm
             PROVE  NewestWritten \subseteq Readable(lines) \cup InRewrite
  BY DEF NewestRowsKept, Calm
<1>t. TypeOK
  BY DEF IndInv
<1>1. CASE \A c \in Calls : pc[c] # "write"
  <2>1. IsNewest(lines)
    BY <1>1 DEF TextInv
  <2> QED BY <1>t, <2>1, NewestReadable
<1>2. ASSUME NEW c \in Calls, pc[c] = "write"
      PROVE  NewestWritten \subseteq Readable(lines) \cup InRewrite
  <2>1. IsNewest(kept[c])
    BY <1>2 DEF TextInv
  <2>2. NewestWritten \subseteq Readable(kept[c])
    BY <1>t, <2>1, NewestReadable
  <2>3. Readable(kept[c]) \subseteq InRewrite
    BY <1>2 DEF InRewrite
  <2> QED BY <2>2, <2>3
<1> QED BY <1>1, <1>2

\* As long as calls get the lock, none fails and no lock file ages, no row is
\* lost before Cap newer ones exist: concurrent trims cut off only the oldest
\* rows, for any cap, any calls and any rows the file started with.
THEOREM NewestSurvive == Spec => []NewestRowsKept
<1>1. Init => TextInv
  <2> SUFFICES ASSUME Init PROVE TextInv
    OBVIOUS
  <2>0. Len(Existing) \in Nat /\ TypeOK
    BY LedgerAssumption, InitInd DEF IndInv
  <2>1. \A c \in Calls : pc[c] = "idle"
    BY DEF Init
  <2>2. Len(lines) = Len(Existing) /\ written = Existing
    BY <2>0 DEF Init
  <2>3. \A i \in 1..Len(lines) : lines[i] = <<written[i]>> /\ Len(written) - Len(lines) + i = i
    BY <2>0, <2>2 DEF Init
  <2>4. IsNewest(lines)
    BY <2>0, <2>2, <2>3 DEF IsNewest, TypeOK
  <2> QED BY <2>1, <2>4 DEF Init, TextInv, Busy
<1>2. IndInv /\ TextInv /\ [Next]_vars => TextInv'
  <2>1. ASSUME UNCHANGED vars, TextInv PROVE TextInv'
    BY <2>1 DEF vars, file, locals, history, TextInv, Calm, IsNewest
  <2> QED BY <2>1, StepText
<1> QED BY <1>1, <1>2, TextMeans, Invariance, PTL DEF Spec
==============================================================================
