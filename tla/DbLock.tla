------------------------------- MODULE DbLock -------------------------------
(* Database.connect: a transaction with an optional lock on a table or a     *)
(* row, tried again while somebody else has the lock.  It is a generator     *)
(* behind "async with": the body runs at its yield, what the body raises     *)
(* comes out of the yield, and a second yield is an error of the caller.     *)
(*                                                                           *)
(* The database is SQLite, whose lock is the whole file, or Postgres.  Time  *)
(* is counted for each call, in units of the first delay.                    *)
EXTENDS Integers

CONSTANTS Callers,      \* calls of connect, one each
          Rows,
          RowOf,        \* Callers -> the row that the body reads and writes
          LockOf,       \* Callers -> "table", "row" or "none"
          Existing,     \* the rows that exist when they are locked
          LockTimeout   \* lock_timeout in units of the first delay

ASSUME DbLockAssumption ==
    /\ LockOf \in [Callers -> {"table", "row", "none"}] /\ RowOf \in [Callers -> Rows]
    /\ Existing \subseteq Rows /\ LockTimeout \in Nat \ {0}

VARIABLES
    dbKind,     \* "SQLITE" or "POSTGRES"
    at,         \* where each call is
    locked,     \* Callers -> the rows that its transaction has locked
    yielded,    \* Callers -> whether the body was entered
    elapsed,    \* Callers -> time.time() - start_time
    delay,      \* Callers -> retry_delay
    rowVersion, \* Rows -> how often they were written
    seen,       \* Callers -> the version that its body has read
    committed,  \* Callers -> how often its transaction was committed
    outcome     \* Callers -> what the caller is told: "ok" or "raised"

lockVars == <<dbKind, at, locked, yielded, elapsed, delay, rowVersion, seen, committed, outcome>>

DbLockInit ==
    /\ dbKind \in {"SQLITE", "POSTGRES"}
    /\ at = [c \in Callers |-> "trying"]
    /\ locked = [c \in Callers |-> {}]
    /\ yielded = [c \in Callers |-> FALSE]
    /\ elapsed = [c \in Callers |-> 0] /\ delay = [c \in Callers |-> 1]
    /\ rowVersion = [r \in Rows |-> 0] /\ seen = [c \in Callers |-> 0]
    /\ committed = [c \in Callers |-> 0]
    /\ outcome = [c \in Callers |-> "none"]

Goes(c, to) == at' = [at EXCEPT ![c] = to]
Told(c, what) == outcome' = [outcome EXCEPT ![c] = what]
Unlocks(c) == locked' = [locked EXCEPT ![c] = {}]
Clock == <<elapsed, delay>>
Data == <<rowVersion, seen, committed>>

(* Mutant of LockSet: the row is locked where the table should be.           *)
LockSetByRow(c) ==
    IF LockOf[c] = "none" THEN {} ELSE {RowOf[c]} \cap Existing
(* lock_table: BEGIN EXCLUSIVE, LOCK TABLE, or SELECT ... FOR UPDATE, which  *)
(* locks nothing if there is no such row.                                    *)
LockSet(c) ==
    IF LockOf[c] = "none" THEN {}
    ELSE IF dbKind = "SQLITE" \/ LockOf[c] = "table" THEN Rows
    ELSE {RowOf[c]} \cap Existing
Unlocked(c, rows) == \A d \in Callers \ {c} : locked[d] \cap rows = {}

InTime(c) == at[c] = "trying" /\ elapsed[c] < LockTimeout

(* acquire_lock succeeds and the connection is yielded, to the body; or, if  *)
(* this is a second trial after the body has ended, to contextlib, which     *)
(* raises RuntimeError and leaves the generator where it is.                 *)
Yield(c) ==
    /\ InTime(c) /\ Unlocked(c, LockSet(c))
    /\ locked' = [locked EXCEPT ![c] = LockSet(c)]
    /\ yielded' = [yielded EXCEPT ![c] = TRUE]
    /\ IF yielded[c]
       THEN Goes(c, "abandoned") /\ Told(c, "raised") /\ UNCHANGED seen
       ELSE Goes(c, "body") /\ seen' = [seen EXCEPT ![c] = rowVersion[RowOf[c]]] /\ UNCHANGED outcome
    /\ UNCHANGED <<dbKind, Clock, rowVersion, committed>>

(* The lock is taken, by one of the calls or by another process.             *)
LockException(c) ==
    /\ InTime(c) /\ LockOf[c] # "none"
    /\ Goes(c, "sleeping")
    /\ UNCHANGED <<dbKind, locked, yielded, Clock, Data, outcome>>

OtherException(c) ==
    /\ InTime(c)
    /\ Goes(c, "over") /\ Told(c, "raised")
    /\ UNCHANGED <<dbKind, locked, yielded, Clock, Data>>

(* "failed to acquire database lock"                                         *)
FailedToAcquire(c) ==
    /\ at[c] = "trying" /\ elapsed[c] >= LockTimeout
    /\ Goes(c, "over") /\ Told(c, "raised")
    /\ UNCHANGED <<dbKind, locked, yielded, Clock, Data>>

(* _handle_lock_retry; near the timeout the next delay may be negative, and  *)
(* a sleep of that is none.  It may take longer than asked for.              *)
LockRetry(c) ==
    /\ at[c] = "sleeping" /\ Goes(c, "trying")
    /\ \E longer \in {0, 1} :
         LET now == elapsed[c] + longer + (IF delay[c] > 0 THEN delay[c] ELSE 0)
             left == LockTimeout - now
         IN  /\ elapsed' = [elapsed EXCEPT ![c] = now]
             /\ delay' = [delay EXCEPT ![c] = IF 2 * @ < left THEN 2 * @ ELSE left]
    /\ UNCHANGED <<dbKind, locked, yielded, Data, outcome>>

(* The body raises, or is cancelled: the transaction is rolled back.         *)
BodyRaises(c) ==
    /\ at[c] = "body"
    /\ Goes(c, "over") /\ Unlocks(c) /\ Told(c, "raised")
    /\ UNCHANGED <<dbKind, yielded, Clock, Data>>

\* a transaction without the lock of SQLite meets somebody else's
MeetsLock(c) == dbKind = "SQLITE" /\ LockOf[c] = "none"

(* Mutant of MeetsLockInside: the lock exception is taken for the end.       *)
LockExceptionSwallowed(c) ==
    /\ at[c] \in {"body", "committing"} /\ MeetsLock(c)
    /\ Goes(c, "over") /\ Unlocks(c) /\ Told(c, "ok")
    /\ UNCHANGED <<dbKind, yielded, Clock, Data>>
(* "database is locked", raised by the body or by the commit after it, is    *)
(* rolled back and tried again.                                              *)
MeetsLockInside(c) ==
    /\ at[c] \in {"body", "committing"} /\ MeetsLock(c)
    /\ Goes(c, "sleeping") /\ Unlocks(c)
    /\ UNCHANGED <<dbKind, yielded, Clock, Data, outcome>>

BodyReturns(c) ==
    /\ at[c] = "body" /\ Goes(c, "committing")
    /\ UNCHANGED <<dbKind, locked, yielded, Clock, Data, outcome>>

(* session.begin() ends: the row is written, for which a transaction without *)
(* a lock waits.  The answer of a Postgres server may be lost.               *)
Commit(c) ==
    /\ at[c] = "committing" /\ Unlocked(c, {RowOf[c]})
    /\ rowVersion' = [rowVersion EXCEPT ![RowOf[c]] = @ + 1]
    /\ committed' = [committed EXCEPT ![c] = @ + 1]
    /\ Goes(c, "over") /\ Unlocks(c)
    /\ \/ Told(c, "ok")
       \/ dbKind = "POSTGRES" /\ Told(c, "unknown")
    /\ UNCHANGED <<dbKind, yielded, Clock, seen>>

(* The event loop closes the abandoned generator: rolled back.               *)
GeneratorClosed(c) ==
    /\ at[c] = "abandoned" /\ Goes(c, "over") /\ Unlocks(c)
    /\ UNCHANGED <<dbKind, yielded, Clock, Data, outcome>>

DbLockNext ==
    \E c \in Callers :
       \/ Yield(c) \/ LockException(c) \/ OtherException(c) \/ FailedToAcquire(c)
       \/ LockRetry(c) \/ BodyRaises(c) \/ MeetsLockInside(c) \/ BodyReturns(c)
       \/ Commit(c) \/ GeneratorClosed(c)

DbLockSpec == DbLockInit /\ [][DbLockNext]_lockVars

(* ------------------------------- properties ------------------------------ *)

(* What a body reads under its lock stays as it is until it commits, on      *)
(* either database and after any number of trials: this is what the checks   *)
(* of db/write.py rely on.  On Postgres a lock on a row needs the row.       *)
LockedReadsStayTrue ==
    \A c \in Callers :
      /\ at[c] \in {"body", "committing"}
      /\ LockOf[c] # "none"
      /\ LockOf[c] = "row" /\ dbKind = "POSTGRES" => RowOf[c] \in Existing
      => rowVersion[RowOf[c]] = seen[c]

(* A caller that goes on after "async with" has committed, once, and one     *)
(* that gets an exception has not, unless the server's answer was lost: the  *)
(* trials repeat the lock and never the body (connect).                      *)
ToldWhatCommitted ==
    \A c \in Callers :
      at[c] \in {"over", "abandoned"} =>
        committed[c] = IF outcome[c] = "raised" THEN 0 ELSE 1
=============================================================================
