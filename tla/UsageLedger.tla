----------------------------- MODULE UsageLedger -----------------------------
(***************************************************************************)
(* The provider usage ledger (crates/rtrt-providers/src/usage_ledger.rs):  *)
(* a TSV file to which any number of rtrt processes append one row per     *)
(* invocation, under a best-effort O_EXCL lock file, and which the holder  *)
(* of the lock trims to its newest MAX_LEDGER_ROWS rows.  The rate-limit   *)
(* log next to it is written by the same steps.                            *)
(*                                                                         *)
(* Every action is one system call, the grain at which processes really    *)
(* interleave: writeln! on an unbuffered File writes the row and the       *)
(* newline separately, and fs::write truncates before it writes.           *)
(***************************************************************************)
EXTENDS Integers, Sequences, FiniteSets

CONSTANTS Calls,      \* calls of record_invocation; each records one row
          Existing,   \* the rows the ledger starts with, oldest first
          Cap,        \* MAX_LEDGER_ROWS
          Attempts,   \* LOCK_RETRY_ATTEMPTS
          MaxFaults,  \* bound: crashes and I/O errors in a behaviour
          SlowCalls,  \* the calls that may live as long as LOCK_STALE_SECS
          NoOne

Rows == Calls \cup {Existing[i] : i \in 1..Len(Existing)}

ASSUME LedgerAssumption ==
  /\ IsFiniteSet(Calls)
  /\ Cap \in Nat \ {0}
  /\ Attempts \in Nat \ {0}
  /\ MaxFaults \in Nat
  /\ SlowCalls \subseteq Calls
  /\ NoOne \notin Calls
  /\ Existing \in Seq(Rows)
  /\ \A i \in 1..Len(Existing) : Existing[i] \notin Calls
  /\ Len(Existing) <= Cap

VARIABLES lines,    \* the file: each line is the sequence of rows written on it
          open,     \* the last line has no newline yet
          lock,     \* the lock file: who created it, and whether it is stale
          pc, attempt, locked,
          kept,     \* the text a trim has read and is about to write back
          faults,
          written,  \* history: the rows in the order they were written
          bare,     \* history: calls that appended without the lock
          trimmed,  \* history: calls whose trim_to_cap ran to its end
          aged      \* history: some lock file got as old as LOCK_STALE_SECS

file == <<lines, open>>
locals == <<pc, attempt, locked, kept>>
history == <<written, bare, trimmed>>
vars == <<file, lock, locals, faults, history, aged>>

Line == Seq(Rows)
Unlocked == [owner |-> NoOne, stale |-> FALSE]
LockFile == [owner : Calls \cup {NoOne}, stale : BOOLEAN]
Steps == {"idle", "create", "stat", "remove", "append", "newline", "read",
          "truncate", "write", "drop", "returned", "crashed"}

TypeOK ==
  /\ lines \in Seq(Line)
  /\ open \in BOOLEAN
  /\ lock \in LockFile
  /\ pc \in [Calls -> Steps]
  /\ attempt \in [Calls -> 0..Attempts]
  /\ locked \in [Calls -> BOOLEAN]
  /\ kept \in [Calls -> Seq(Line)]
  /\ faults \in 0..MaxFaults
  /\ written \in Seq(Rows)
  /\ bare \in SUBSET Calls
  /\ trimmed \in SUBSET Calls
  /\ aged \in BOOLEAN

Init ==
  /\ lines = [i \in 1..Len(Existing) |-> <<Existing[i]>>]
  /\ open = FALSE
  /\ lock = Unlocked
  /\ pc = [c \in Calls |-> "idle"]
  /\ attempt = [c \in Calls |-> 0]
  /\ locked = [c \in Calls |-> FALSE]
  /\ kept = [c \in Calls |-> <<>>]
  /\ faults = 0
  /\ written = Existing
  /\ bare = {}
  /\ trimmed = {}
  /\ aged = FALSE

Goto(c, step) == pc' = [pc EXCEPT ![c] = step]

------------------------------------------------------------------------------
(* LedgerLock::try_acquire, one action per system call. *)

Begin(c) ==
  /\ pc[c] = "idle"
  /\ Goto(c, "create")
  /\ UNCHANGED <<file, lock, attempt, locked, kept, faults, history, aged>>

\* Mutant: open without create_new, which succeeds on an existing lock file.
CreateNotExclusive(c) ==
  /\ pc[c] = "create"
  /\ lock' = [owner |-> c, stale |-> FALSE]
  /\ locked' = [locked EXCEPT ![c] = TRUE]
  /\ Goto(c, "append")
  /\ UNCHANGED <<file, attempt, kept, faults, history, aged>>

\* Mutant: the guard is bound to _ and dropped at once.
CreateDropsAtOnce(c) ==
  /\ pc[c] = "create"
  /\ IF lock.owner = NoOne
     THEN /\ locked' = [locked EXCEPT ![c] = TRUE]
          /\ Goto(c, "append")
     ELSE /\ Goto(c, "stat")
          /\ UNCHANGED locked
  /\ UNCHANGED <<file, lock, attempt, kept, faults, history, aged>>

Create(c) ==
  /\ pc[c] = "create"
  /\ IF lock.owner = NoOne
     THEN /\ lock' = [owner |-> c, stale |-> FALSE]
          /\ locked' = [locked EXCEPT ![c] = TRUE]
          /\ Goto(c, "append")
     ELSE /\ Goto(c, "stat")
          /\ UNCHANGED <<lock, locked>>
  /\ UNCHANGED <<file, attempt, kept, faults, history, aged>>

\* Mutant: the retry counter is never advanced.
NextAttemptForever(c) ==
  /\ UNCHANGED attempt
  /\ Goto(c, "create")

\* The end of one iteration of the loop: try again, or give up the lock and
\* append without it.
NextAttempt(c) ==
  /\ attempt' = [attempt EXCEPT ![c] = @ + 1]
  /\ Goto(c, IF attempt[c] + 1 < Attempts THEN "create" ELSE "append")

\* lock_is_stale looks at the path again: by now the file may be gone (not
\* stale: the metadata call fails) or be another process's.
Stat(c) ==
  /\ pc[c] = "stat"
  /\ IF lock.stale
     THEN Goto(c, "remove") /\ UNCHANGED attempt
     ELSE NextAttempt(c)
  /\ UNCHANGED <<file, lock, locked, kept, faults, history, aged>>

\* remove_file takes away whatever file is at the path now.
Remove(c) ==
  /\ pc[c] = "remove"
  /\ lock' = Unlocked
  /\ NextAttempt(c)
  /\ UNCHANGED <<file, locked, kept, faults, history, aged>>

------------------------------------------------------------------------------
(* record_invocation: append_row, trim_to_cap, drop of the lock. *)

\* Bytes appended to a file whose last line is open continue that line.
AppendRow(row) ==
  IF open THEN [lines EXCEPT ![Len(lines)] = Append(@, row)]
          ELSE Append(lines, <<row>>)

AppendBody(c) ==
  /\ pc[c] = "append"
  /\ lines' = AppendRow(c)
  /\ open' = TRUE
  /\ written' = Append(written, c)
  /\ bare' = IF locked[c] THEN bare ELSE bare \cup {c}
  /\ Goto(c, "newline")
  /\ UNCHANGED <<lock, attempt, locked, kept, faults, trimmed, aged>>

\* The newline of a line already ended leaves a blank line, which every
\* reader skips.  Without the lock the call is over: the trim is skipped.
AppendNewline(c) ==
  /\ pc[c] = "newline"
  /\ open' = FALSE
  /\ Goto(c, IF locked[c] THEN "read" ELSE "returned")
  /\ UNCHANGED <<lines, lock, attempt, locked, kept, faults, history, aged>>

\* Mutant: start is one too small.
NewestOneMore(s) == SubSeq(s, Len(s) - Cap, Len(s))

Newest(s) == SubSeq(s, Len(s) - Cap + 1, Len(s))

TrimRead(c) ==
  /\ pc[c] = "read"
  /\ IF Len(lines) <= Cap
     THEN /\ trimmed' = trimmed \cup {c}
          /\ Goto(c, "drop")
          /\ UNCHANGED kept
     ELSE /\ kept' = [kept EXCEPT ![c] = Newest(lines)]
          /\ Goto(c, "truncate")
          /\ UNCHANGED trimmed
  /\ UNCHANGED <<file, lock, attempt, locked, faults, written, bare, aged>>

TrimTruncate(c) ==
  /\ pc[c] = "truncate"
  /\ lines' = <<>>
  /\ open' = FALSE
  /\ Goto(c, "write")
  /\ UNCHANGED <<lock, attempt, locked, kept, faults, history, aged>>

\* The text is written from offset 0: it covers the few rows others may have
\* appended since the truncation (rows are taken to be of one length).
TrimWrite(c) ==
  /\ pc[c] = "write"
  /\ lines' = kept[c]
  /\ open' = FALSE
  /\ kept' = [kept EXCEPT ![c] = <<>>]
  /\ trimmed' = trimmed \cup {c}
  /\ Goto(c, "drop")
  /\ UNCHANGED <<lock, attempt, locked, faults, written, bare, aged>>

\* LedgerLock::drop removes the path, whoever created the file that is there.
Drop(c) ==
  /\ pc[c] = "drop"
  /\ lock' = Unlocked
  /\ Goto(c, "returned")
  /\ UNCHANGED <<file, attempt, locked, kept, faults, history, aged>>

------------------------------------------------------------------------------
(* Faults and time. *)

Fault == faults < MaxFaults /\ faults' = faults + 1

\* create_new fails for another reason than AlreadyExists: no lock.
CreateError(c) ==
  /\ pc[c] = "create"
  /\ Fault
  /\ Goto(c, "append")
  /\ UNCHANGED <<file, lock, attempt, locked, kept, history, aged>>

\* append_row fails, before the row or between the row and its newline; the
\* early return drops the lock, if there is one.
AppendError(c) ==
  /\ pc[c] \in {"append", "newline"}
  /\ Fault
  /\ Goto(c, IF locked[c] THEN "drop" ELSE "returned")
  /\ UNCHANGED <<file, lock, attempt, locked, kept, history, aged>>

\* A failure of the trim is ignored, wherever it strikes.
TrimError(c) ==
  /\ pc[c] \in {"read", "truncate", "write"}
  /\ Fault
  /\ kept' = [kept EXCEPT ![c] = <<>>]
  /\ Goto(c, "drop")
  /\ UNCHANGED <<file, lock, attempt, locked, history, aged>>

\* The process dies; a lock file it holds stays behind.
Crash(c) ==
  /\ pc[c] \notin {"idle", "returned", "crashed"}
  /\ Fault
  /\ kept' = [kept EXCEPT ![c] = <<>>]
  /\ Goto(c, "crashed")
  /\ UNCHANGED <<file, lock, attempt, locked, history, aged>>

\* The lock file reaches LOCK_STALE_SECS: its creator is gone, or is slow.
LockAges ==
  /\ lock.owner # NoOne
  /\ lock.owner \in SlowCalls \/ pc[lock.owner] \in {"returned", "crashed"}
  /\ lock' = [lock EXCEPT !.stale = TRUE]
  /\ aged' = TRUE
  /\ UNCHANGED <<file, locals, faults, history>>

------------------------------------------------------------------------------
Record(c) ==
  \/ Create(c) \/ Stat(c) \/ Remove(c)
  \/ AppendBody(c) \/ AppendNewline(c)
  \/ TrimRead(c) \/ TrimTruncate(c) \/ TrimWrite(c)
  \/ Drop(c)

Failure(c) == CreateError(c) \/ AppendError(c) \/ TrimError(c) \/ Crash(c)

Next == LockAges \/ \E c \in Calls : Begin(c) \/ Record(c) \/ Failure(c)

Spec == Init /\ [][Next]_vars

(* A started call is ordinary running code: it takes its next step unless   *)
(* it crashes.  Nothing is assumed of faults, of time or of other callers.  *)
FairSpec == Spec /\ \A c \in Calls : WF_vars(Record(c))

------------------------------------------------------------------------------
(* Properties. *)

\* read_rows parses the first row of a line and ignores the rest of it.
Readable(ls) == {Head(ls[i]) : i \in 1..Len(ls)}

Holding(c) ==
  locked[c] /\ pc[c] \in {"append", "newline", "read", "truncate", "write", "drop"}

\* As long as no lock file gets LOCK_STALE_SECS old, at most one call is
\* between try_acquire and the drop of its lock, and the lock file is its own.
HoldersSerialized ==
  ~aged => \A c \in Calls : Holding(c) => lock.owner = c

\* The rows being rewritten by a trim are in the hands of its process.
InRewrite == UNION {Readable(kept[c]) : c \in {d \in Calls : pc[d] = "write"}}

NewestWritten ==
  {written[i] : i \in {j \in 1..Len(written) : j > Len(written) - Cap}}

\* In a history of locked, uninterrupted calls no row is lost before Cap newer
\* ones exist: the trims of concurrent processes drop only the oldest rows and
\* no row shares its line with another.
NewestRowsKept ==
  ~aged /\ faults = 0 /\ bare = {} => NewestWritten \subseteq Readable(lines) \cup InRewrite

IsWritten(c) == \E i \in 1..Len(written) : written[i] = c

Untrimmed == {c \in Calls \ trimmed : IsWritten(c)}

\* Whatever is stolen, crashes or fails, the file has at most one line above
\* the cap for each call that wrote a row and has not finished a trim: the
\* backlog of the calls that skip the trim, and never more.
LedgerBounded == Len(lines) <= Cap + Cardinality(Untrimmed)

\* What the program counter of a call says about its locals and its row.
CallInv ==
  \A c \in Calls :
    /\ pc[c] \in {"idle", "create", "stat", "remove"} 
         => attempt[c] < Attempts /\ ~locked[c]
    /\ pc[c] \in {"read", "truncate", "write", "drop"} => locked[c]
    /\ pc[c] \in {"truncate", "write"} => Len(kept[c]) <= Cap
    /\ pc[c] \in {"idle", "create", "stat", "remove", "append"}
         => ~IsWritten(c) /\ c \notin trimmed

\* Until a lock file ages nobody sees a stale one or sets out to remove one.
FreshInv ==
  /\ ~aged => ~lock.stale /\ \A c \in Calls : pc[c] # "remove"
  /\ open => lines # <<>>

\* The inductive invariant of the module: TypeOK, HoldersSerialized and
\* LedgerBounded, strengthened by what they rest on.
IndInv == TypeOK /\ CallInv /\ FreshInv /\ HoldersSerialized /\ LedgerBounded

\* A call that started returns, holder, waiter or thief alike: "recording can
\* never block a caller".
EveryCallReturns ==
  \A c \in Calls : pc[c] = "create" ~> pc[c] \in {"returned", "crashed"}
==============================================================================
