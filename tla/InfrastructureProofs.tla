------------------------ MODULE InfrastructureProofs ------------------------
(***************************************************************************)
(* Proofs about what the mint stands on: the locks of its database, the    *)
(* watchdog of its balance, its Lightning backends, the upgrades of its    *)
(* database and its conversion to Postgres.                                *)
(***************************************************************************)
EXTENDS DbLock, Watchdog, Backends, Conversion, Migrations, FiniteSetTheorems, TLAPS

-----------------------------------------------------------------------------
(***************************************************************************)
(* Database.connect: what a body reads under its lock stays true, and what *)
(* a caller is told is what was committed, for any number of callers, rows *)
(* and trials, and any timeout.                                            *)
(***************************************************************************)

(* The inductive invariant *)

Places == {"trying", "sleeping", "body", "committing", "abandoned", "over"}

\* Every call is at a step of connect, and knows its rows and versions.
DbLockTypeOK ==
  /\ at \in [Callers -> Places]
  /\ locked \in [Callers -> SUBSET Rows]
  /\ rowVersion \in [Rows -> Nat] /\ seen \in [Callers -> Nat]
  /\ committed \in [Callers -> Nat]
  /\ outcome \in [Callers -> {"none", "ok", "raised", "unknown"}]

Inside(c) == at[c] \in {"body", "committing"}

\* A transaction has its locks for as long as it runs, whatever trial this is.
LockIsKept == \A c \in Callers : Inside(c) => locked[c] = LockSet(c)

\* Nothing is committed before the end, and a body that has ended without a
\* commit has told its caller so before connect tries once more.
NothingBeforeTheEnd ==
  \A c \in Callers :
    /\ at[c] # "over" => committed[c] = 0
    /\ at[c] = "abandoned" => outcome[c] = "raised"

DbLockIInv ==
  DbLockTypeOK /\ LockIsKept /\ NothingBeforeTheEnd /\ LockedReadsStayTrue /\ ToldWhatCommitted

-----------------------------------------------------------------------------
\* A lock that is asked for covers the row of the body, on SQLite because it is
\* the file, on Postgres when there is such a row.
LEMMA LockCoversTheRow ==
  ASSUME NEW c \in Callers, LockOf[c] # "none",
         LockOf[c] = "row" /\ dbKind = "POSTGRES" => RowOf[c] \in Existing,
         dbKind \in {"SQLITE", "POSTGRES"}
  PROVE  RowOf[c] \in LockSet(c)
<1>1. LockOf[c] \in {"table", "row", "none"} /\ RowOf[c] \in Rows
  BY DbLockAssumption
<1>2. QED
  BY <1>1 DEF LockSet

\* The kind of the database does not change.
LEMMA DbKindStays == DbLockSpec => [](dbKind \in {"SQLITE", "POSTGRES"})
<1>1. DbLockInit => dbKind \in {"SQLITE", "POSTGRES"}
  BY DEF DbLockInit
<1>2. dbKind \in {"SQLITE", "POSTGRES"} /\ [DbLockNext]_lockVars => (dbKind \in {"SQLITE", "POSTGRES"})'
  BY DEF DbLockNext, lockVars, Yield, LockException, OtherException, FailedToAcquire,
         LockRetry, BodyRaises, MeetsLockInside, BodyReturns, Commit, GeneratorClosed
<1>3. QED
  BY <1>1, <1>2, PTL DEF DbLockSpec

\* Types are kept by every step.
LEMMA DbLockTyped ==
  ASSUME DbLockTypeOK, NEW c \in Callers,
         \/ Yield(c) \/ LockException(c) \/ OtherException(c) \/ FailedToAcquire(c)
         \/ LockRetry(c) \/ BodyRaises(c) \/ MeetsLockInside(c) \/ BodyReturns(c)
         \/ Commit(c) \/ GeneratorClosed(c)
  PROVE  DbLockTypeOK'
<1>1. RowOf[c] \in Rows /\ LockSet(c) \subseteq Rows
  BY DbLockAssumption DEF LockSet
<1>2. CASE Yield(c)
  BY <1>1, <1>2 DEF Yield, DbLockTypeOK, Places, Goes, Told
<1>3. CASE LockException(c) \/ OtherException(c) \/ FailedToAcquire(c) \/ LockRetry(c)
  BY <1>3 DEF LockException, OtherException, FailedToAcquire, LockRetry, DbLockTypeOK,
              Places, Goes, Told, Data
<1>4. CASE BodyRaises(c) \/ MeetsLockInside(c) \/ BodyReturns(c) \/ GeneratorClosed(c)
  BY <1>4 DEF BodyRaises, MeetsLockInside, BodyReturns, GeneratorClosed, DbLockTypeOK,
              Places, Goes, Told, Unlocks, Data
<1>5. CASE Commit(c)
  <2>1. rowVersion[RowOf[c]] + 1 \in Nat /\ committed[c] + 1 \in Nat
    BY <1>1 DEF DbLockTypeOK
  <2>2. QED
    BY <1>1, <1>5, <2>1 DEF Commit, DbLockTypeOK, Places, Goes, Told, Unlocks
<1>6. QED
  BY <1>2, <1>3, <1>4, <1>5

\* A step of connect that leaves the rows alone, and enters no body.
LEMMA StepBesideTheRows ==
  ASSUME DbLockIInv, DbLockTypeOK', NEW c \in Callers, UNCHANGED <<dbKind, Data>>,
         at' = [at EXCEPT ![c] = at'[c]],
         locked' = [locked EXCEPT ![c] = locked'[c]],
         Inside(c)' => Inside(c) /\ locked'[c] = locked[c]
  PROVE  LockIsKept' /\ LockedReadsStayTrue'
<1>1. ASSUME NEW d \in Callers, Inside(d)'
      PROVE  Inside(d) /\ locked'[d] = locked[d]
  BY <1>1 DEF DbLockIInv, DbLockTypeOK, Inside
<1>2. LockIsKept'
  BY <1>1 DEF DbLockIInv, LockIsKept, LockSet
<1>3. LockedReadsStayTrue'
  BY <1>1 DEF DbLockIInv, LockedReadsStayTrue, Inside, Data
<1>4. QED
  BY <1>2, <1>3

\* The invariant holds in the beginning.
LEMMA DbLockStarts == DbLockInit => DbLockIInv
BY DEF DbLockInit, DbLockIInv, DbLockTypeOK, Places, Inside, LockIsKept, NothingBeforeTheEnd,
       LockedReadsStayTrue, ToldWhatCommitted

\* No step of a call of connect breaks it.
LEMMA DbLockSteps ==
  ASSUME DbLockIInv, dbKind \in {"SQLITE", "POSTGRES"}, NEW c \in Callers,
         \/ Yield(c) \/ LockException(c) \/ OtherException(c) \/ FailedToAcquire(c)
         \/ LockRetry(c) \/ BodyRaises(c) \/ MeetsLockInside(c) \/ BodyReturns(c)
         \/ Commit(c) \/ GeneratorClosed(c)
  PROVE  DbLockIInv'
<1> USE DEF Inside
<1>1. DbLockTypeOK /\ DbLockTypeOK'
  BY DbLockTyped DEF DbLockIInv
<1>2. CASE Yield(c)
  <2>1. LockIsKept'
    BY <1>1, <1>2 DEF DbLockIInv, DbLockTypeOK, LockIsKept, Yield, Goes, LockSet
  <2>2. LockedReadsStayTrue'
    BY <1>1, <1>2 DEF DbLockIInv, DbLockTypeOK, LockedReadsStayTrue, Yield, Goes
  <2>3. NothingBeforeTheEnd' /\ ToldWhatCommitted'
    BY <1>1, <1>2 DEF DbLockIInv, DbLockTypeOK, NothingBeforeTheEnd, ToldWhatCommitted,
                      Yield, InTime, Goes, Told
  <2>4. QED
    BY <1>1, <2>1, <2>2, <2>3 DEF DbLockIInv
<1>3. CASE LockException(c) \/ OtherException(c) \/ FailedToAcquire(c) \/ LockRetry(c)
  <2>1. LockIsKept' /\ LockedReadsStayTrue'
    <3>1. /\ UNCHANGED <<dbKind, Data, locked>> /\ ~Inside(c)'
          /\ at' = [at EXCEPT ![c] = at'[c]]
      BY <1>1, <1>3 DEF DbLockTypeOK, LockException, OtherException, FailedToAcquire, LockRetry,
                        Goes, Data
    <3>2. locked' = [locked EXCEPT ![c] = locked'[c]]
      BY <1>1, <3>1 DEF DbLockTypeOK
    <3>3. QED
      BY <1>1, <3>1, <3>2, StepBesideTheRows
  <2>2. NothingBeforeTheEnd' /\ ToldWhatCommitted'
    BY <1>1, <1>3 DEF DbLockIInv, DbLockTypeOK, NothingBeforeTheEnd, ToldWhatCommitted,
                      LockException, OtherException, FailedToAcquire, LockRetry, InTime,
                      Goes, Told, Data
  <2>3. QED
    BY <1>1, <2>1, <2>2 DEF DbLockIInv
<1>4. CASE BodyRaises(c) \/ MeetsLockInside(c) \/ BodyReturns(c) \/ GeneratorClosed(c)
  <2>1. LockIsKept' /\ LockedReadsStayTrue'
    <3>1. /\ UNCHANGED <<dbKind, Data>>
          /\ at' = [at EXCEPT ![c] = at'[c]]
          /\ locked' = [locked EXCEPT ![c] = locked'[c]]
      BY <1>1, <1>4 DEF DbLockTypeOK, BodyRaises, MeetsLockInside, BodyReturns, GeneratorClosed,
                        Goes, Unlocks, Data
    <3>2. Inside(c)' => Inside(c) /\ locked'[c] = locked[c]
      BY <1>1, <1>4 DEF DbLockTypeOK, BodyRaises, MeetsLockInside, BodyReturns, GeneratorClosed, Goes
    <3>3. QED
      BY <1>1, <3>1, <3>2, StepBesideTheRows
  <2>2. NothingBeforeTheEnd' /\ ToldWhatCommitted'
    BY <1>1, <1>4 DEF DbLockIInv, DbLockTypeOK, NothingBeforeTheEnd, ToldWhatCommitted,
                      BodyRaises, MeetsLockInside, BodyReturns, GeneratorClosed,
                      Goes, Told, Data
  <2>3. QED
    BY <1>1, <2>1, <2>2 DEF DbLockIInv
<1>5. CASE Commit(c)
  <2>1. LockIsKept'
    BY <1>1, <1>5 DEF DbLockIInv, DbLockTypeOK, LockIsKept, LockSet, Commit, Goes, Unlocks
  <2>2. LockedReadsStayTrue'
    <3> SUFFICES ASSUME NEW d \in Callers, Inside(d)', LockOf[d] # "none",
                        (LockOf[d] = "row" /\ dbKind = "POSTGRES" => RowOf[d] \in Existing)'
                 PROVE  (rowVersion[RowOf[d]] = seen[d])'
      BY DEF LockedReadsStayTrue
    <3>1. d # c /\ Inside(d) /\ dbKind' = dbKind /\ seen' = seen
      BY <1>1, <1>5 DEF DbLockTypeOK, Commit, Goes
    <3>2. RowOf[d] \in locked[d]
      BY <3>1, LockCoversTheRow DEF DbLockIInv, LockIsKept
    <3>3. RowOf[d] # RowOf[c]
      BY <1>5, <3>1, <3>2 DEF Commit, Unlocked
    <3>4. rowVersion[RowOf[d]] = seen[d]
      BY <3>1 DEF DbLockIInv, LockedReadsStayTrue
    <3>5. QED
      BY <1>1, <1>5, <3>1, <3>3, <3>4, DbLockAssumption DEF DbLockTypeOK, Commit
  <2>3. NothingBeforeTheEnd' /\ ToldWhatCommitted'
    BY <1>1, <1>5 DEF DbLockIInv, DbLockTypeOK, NothingBeforeTheEnd, ToldWhatCommitted,
                      Commit, Goes, Told
  <2>4. QED
    BY <1>1, <2>1, <2>2, <2>3 DEF DbLockIInv
<1>6. QED
  BY <1>2, <1>3, <1>4, <1>5

-----------------------------------------------------------------------------
\* The inductive invariant of connect.
THEOREM DbLockInvariant == DbLockSpec => []DbLockIInv
<1>1. DbLockIInv /\ dbKind \in {"SQLITE", "POSTGRES"} /\ [DbLockNext]_lockVars => DbLockIInv'
  <2> SUFFICES ASSUME DbLockIInv, dbKind \in {"SQLITE", "POSTGRES"}, [DbLockNext]_lockVars
               PROVE  DbLockIInv'
    OBVIOUS
  <2>1. CASE DbLockNext
    BY <2>1, DbLockSteps DEF DbLockNext
  <2>2. CASE UNCHANGED lockVars
    BY <2>2 DEF lockVars, DbLockIInv, DbLockTypeOK, LockIsKept, LockSet, Inside,
                NothingBeforeTheEnd, LockedReadsStayTrue, ToldWhatCommitted
  <2>3. QED
    BY <2>1, <2>2
<1>2. QED
  BY <1>1, DbLockStarts, DbKindStays, PTL DEF DbLockSpec

\* What _verify_spent_proofs_and_set_pending and its like have read under their
\* lock is still so when they commit, on either database (core/db.py).
THEOREM LockedReadsHold == DbLockSpec => []LockedReadsStayTrue
BY DbLockInvariant, PTL DEF DbLockIInv

\* "async with" ends normally after exactly one commit, and with an exception
\* after none, however often the lock was tried for (connect).
THEOREM CallersKnow == DbLockSpec => []ToldWhatCommitted
BY DbLockInvariant, PTL DEF DbLockIInv

-----------------------------------------------------------------------------
(***************************************************************************)
(* The watchdog: what can leave the node between two checks that find      *)
(* nothing is bounded by what is in flight, for any balances, number of    *)
(* payments, leaks and restarts.                                           *)
(***************************************************************************)

(* The inductive invariant *)

\* Money is counted in whole units; what a check has read is numbers.
WatchdogTypeOK ==
  /\ node \in Nat /\ ecash \in Nat /\ fees \in Nat
  /\ paidIn \in Nat /\ held \in Nat /\ leaked \in Nat /\ moves \in Nat
  /\ watch \in Checks
  /\ entry \in Checks \cup {NoEntry}
  /\ leakedAt \in [first : Int, last : Int]

\* Of what the node has beyond the mint's debt, some is in flight and some gone.
MoneyIsSomewhere ==
  /\ node - (ecash + fees) = Margin + paidIn + held - leaked
  /\ paidIn + held <= FlightMax

\* A difference of two balances, read while so much had leaked and with so many
\* moves between the reads, is off by no more than those and what is in flight.
Near(difference, gone, moved) ==
  /\ Margin - gone - moved <= difference
  /\ difference <= Margin + FlightMax - gone + moved

\* What a running check will find, or has found, is near the truth.
CheckIsNear ==
  /\ watch.step = "status" =>
       /\ 0 <= watch.late /\ watch.late <= LateMax
       /\ Near(watch.node - (ecash + fees), watch.leaked, watch.late)
  /\ watch.step = "read" => Near(Delta(watch), watch.leaked, LateMax)
  /\ watch.step = "asleep" => watch.late = 0

\* The differences in the log do not fall: the last is no less than the first
\* could be, and no more than it can be after all that has leaked.
LogIsNear ==
  IF entry = NoEntry THEN leakedAt.last = leakedAt.first
  ELSE /\ Margin - leakedAt.first - LateMax <= Delta(entry)
       /\ Delta(entry) <= Margin + FlightMax - leakedAt.last + LateMax

WatchdogIInv == WatchdogTypeOK /\ MoneyIsSomewhere /\ CheckIsNear /\ LogIsNear

-----------------------------------------------------------------------------
\* The invariant holds in the beginning.
LEMMA WatchdogStarts == WatchdogInit => WatchdogIInv
BY WatchdogAssumption
   DEF WatchdogInit, WatchdogIInv, WatchdogTypeOK, MoneyIsSomewhere, CheckIsNear, LogIsNear,
       Asleep, Cleared, Checks, Near, Delta

\* A payment, an issue, a melt or a leak keeps the count, and one that moves the
\* balance of the keysets is counted by a check that is between its reads.
LEMMA MoneyMoves ==
  ASSUME WatchdogIInv,
         \/ InvoiceArrives \/ EcashIssued \/ MeltHolds \/ MeltPaid \/ MeltRolledBack
         \/ SwapPaysFee \/ Leaks
  PROVE  WatchdogIInv'
<1> USE WatchdogAssumption DEF WatchdogIInv, WatchdogTypeOK
<1>1. entry' = entry /\ leakedAt' = leakedAt
  BY DEF InvoiceArrives, EcashIssued, MeltHolds, MeltPaid, MeltRolledBack, SwapPaysFee, Leaks,
         Log, watchVars
<1>2. LogIsNear'
  BY <1>1 DEF LogIsNear, Delta
<1>3. CASE InvoiceArrives \/ MeltPaid \/ SwapPaysFee \/ Leaks
  <2>1. watch' = watch /\ ecash' + fees' = ecash + fees
    BY <1>3 DEF InvoiceArrives, MeltPaid, SwapPaysFee, Leaks, watchVars
  <2>2. WatchdogTypeOK' /\ MoneyIsSomewhere'
    BY <1>1, <1>3, <2>1 DEF InvoiceArrives, MeltPaid, SwapPaysFee, Leaks, Moves, MoneyIsSomewhere
  <2>3. CheckIsNear'
    BY <2>1 DEF CheckIsNear, Near, Delta
  <2>4. QED
    BY <1>2, <2>2, <2>3
<1>4. CASE EcashIssued \/ MeltHolds \/ MeltRolledBack
  <2>1. /\ BalanceMoves /\ fees' = fees /\ node' = node
        /\ ecash' \in Nat /\ paidIn' \in Nat /\ held' \in Nat /\ leaked' \in Nat /\ moves' \in Nat
        /\ ecash' = ecash + 1 \/ ecash' = ecash - 1
    BY <1>4 DEF EcashIssued, MeltHolds, MeltRolledBack, Moves
  <2>2. MoneyIsSomewhere'
    <3>1. CASE EcashIssued
      BY <3>1 DEF EcashIssued, MoneyIsSomewhere
    <3>2. CASE MeltHolds
      BY <3>2 DEF MeltHolds, MoneyIsSomewhere
    <3>3. CASE MeltRolledBack
      BY <3>3 DEF MeltRolledBack, MoneyIsSomewhere
    <3>4. QED
      BY <1>4, <3>1, <3>2, <3>3
  <2>3. watch' \in Checks
    BY <2>1 DEF BalanceMoves, Checks
  <2>4. CASE watch.step = "status"
    <3>1. /\ watch.late < LateMax /\ watch'.late = watch.late + 1 /\ watch'.step = "status"
          /\ watch'.node = watch.node /\ watch'.leaked = watch.leaked
      BY <2>1, <2>4 DEF BalanceMoves, Checks
    <3>2. CheckIsNear'
      BY <2>1, <2>4, <3>1 DEF CheckIsNear, Near, Checks
    <3>3. QED
      BY <1>1, <1>2, <2>1, <2>2, <2>3, <3>2
  <2>5. CASE watch.step # "status"
    <3>1. watch' = watch
      BY <2>1, <2>5 DEF BalanceMoves
    <3>2. CheckIsNear'
      BY <2>5, <3>1 DEF CheckIsNear, Near, Delta
    <3>3. QED
      BY <1>1, <1>2, <2>1, <2>2, <2>3, <3>2
  <2>6. QED
    BY <2>4, <2>5
<1>5. QED
  BY <1>3, <1>4

\* The reads of a check, and the end and the start of the watchdog.
LEMMA WatchdogReads ==
  ASSUME WatchdogIInv, ReadsBackend \/ ReadsBalance \/ WatchdogDies \/ WatchdogDispatched
  PROVE  WatchdogIInv'
<1> USE WatchdogAssumption DEF WatchdogIInv, WatchdogTypeOK
<1>1. UNCHANGED moneyVars /\ entry' = entry /\ leakedAt' = leakedAt
  BY DEF ReadsBackend, ReadsBalance, WatchdogDies, WatchdogDispatched, Log
<1>2. MoneyIsSomewhere' /\ LogIsNear'
  BY <1>1 DEF moneyVars, MoneyIsSomewhere, LogIsNear, Delta
<1>3. CASE ReadsBackend
  <2>1. /\ watch' \in Checks /\ watch'.step = "status" /\ watch'.late = 0
        /\ watch'.node = node /\ watch'.leaked = leaked
    BY <1>3 DEF ReadsBackend, Checks, CheckIsNear
  <2>2. CheckIsNear'
    BY <1>1, <2>1 DEF moneyVars, CheckIsNear, Near, MoneyIsSomewhere
  <2>3. QED
    BY <1>1, <1>2, <2>1, <2>2 DEF moneyVars
<1>4. CASE ReadsBalance
  <2>1. /\ watch.step = "status" /\ watch' \in Checks /\ watch'.step = "read"
        /\ watch'.node = watch.node /\ watch'.leaked = watch.leaked
        /\ watch'.ecash = ecash /\ watch'.fees = fees
    BY <1>4 DEF ReadsBalance, Checks
  <2>2. watch.node \in Int /\ watch.leaked \in Int /\ watch.late \in Int
    BY DEF Checks
  <2>3. CheckIsNear'
    BY <1>1, <2>1, <2>2 DEF moneyVars, CheckIsNear, Near, Delta
  <2>4. QED
    BY <1>1, <1>2, <2>1, <2>3 DEF moneyVars
<1>5. CASE WatchdogDies \/ WatchdogDispatched
  <2>1. watch' \in Checks /\ watch'.step \in {"dead", "asleep"} /\ watch'.late = 0
    BY <1>5 DEF WatchdogDies, WatchdogDispatched, Asleep, Cleared, Checks
  <2>2. CheckIsNear'
    BY <2>1 DEF CheckIsNear
  <2>3. QED
    BY <1>1, <1>2, <2>1, <2>2 DEF moneyVars
<1>6. QED
  BY <1>3, <1>4, <1>5

\* A check that finds nothing stores no difference below the last one.
LEMMA WatchdogConcludes ==
  ASSUME WatchdogIInv, StoresEntry \/ Alarms
  PROVE  WatchdogIInv'
<1> USE WatchdogAssumption DEF WatchdogIInv, WatchdogTypeOK
<1>1. UNCHANGED moneyVars /\ watch' = Asleep
  BY DEF StoresEntry, Alarms
<1>2. MoneyIsSomewhere'
  BY <1>1 DEF moneyVars, MoneyIsSomewhere
<1>3. CheckIsNear' /\ watch' \in Checks
  BY <1>1 DEF CheckIsNear, Asleep, Cleared, Checks
<1>4. CASE StoresEntry
  <2>1. /\ watch.step = "read" /\ entry' = watch /\ entry' # NoEntry
        /\ leakedAt'.last = watch.leaked
        /\ leakedAt'.first = IF entry = NoEntry THEN watch.leaked ELSE leakedAt.first
        /\ leakedAt' \in [first : Int, last : Int]
        /\ Delta(watch) \in Int /\ watch.leaked \in Int
    BY <1>4, NoEntryAssumption DEF StoresEntry, Checks, Delta
  <2>2. Near(Delta(watch), watch.leaked, LateMax)
    BY <2>1 DEF CheckIsNear
  <2>3. LogIsNear'
    <3>1. CASE entry = NoEntry
      BY <2>1, <2>2, <3>1 DEF LogIsNear, Near, Delta
    <3>2. CASE entry # NoEntry
      <4>1. Delta(entry) <= Delta(watch) /\ Delta(entry) \in Int
        BY <1>4, <3>2 DEF StoresEntry, BalancesMatch, Delta, Checks
      <4>2. /\ Margin - leakedAt.first - LateMax <= Delta(entry)
            /\ leakedAt.first \in Int
        BY <3>2 DEF LogIsNear
      <4>3. /\ Margin - leakedAt'.first - LateMax <= Delta(watch)
            /\ Delta(watch) <= Margin + FlightMax - leakedAt'.last + LateMax
        BY <2>1, <2>2, <3>2, <4>1, <4>2 DEF Near
      <4>4. QED
        BY <2>1, <4>3 DEF LogIsNear, Delta
    <3>3. QED
      BY <3>1, <3>2
  <2>4. QED
    BY <1>1, <1>2, <1>3, <2>1, <2>3 DEF moneyVars
<1>5. CASE Alarms
  BY <1>1, <1>2, <1>3, <1>5 DEF Alarms, LogIsNear, Delta, moneyVars
<1>6. QED
  BY <1>4, <1>5

-----------------------------------------------------------------------------
\* The inductive invariant of the watchdog.
THEOREM WatchdogInvariant == WatchdogSpec => []WatchdogIInv
<1>1. WatchdogIInv /\ [WatchdogNext]_watchdogVars => WatchdogIInv'
  <2> SUFFICES ASSUME WatchdogIInv, [WatchdogNext]_watchdogVars
               PROVE  WatchdogIInv'
    OBVIOUS
  <2>1. CASE WatchdogNext
    BY <2>1, MoneyMoves, WatchdogReads, WatchdogConcludes DEF WatchdogNext
  <2>2. CASE UNCHANGED watchdogVars
    BY <2>2 DEF watchdogVars, moneyVars, watchVars, WatchdogIInv, WatchdogTypeOK,
                MoneyIsSomewhere, CheckIsNear, LogIsNear, Near, Delta
  <2>3. QED
    BY <2>1, <2>2
<1>2. QED
  BY <1>1, WatchdogStarts, PTL DEF WatchdogSpec

\* A slow leak is found as soon as it is larger than what is in flight at one
\* time and what moves between the two reads (check_balances_and_abort).
THEOREM SlowLeaksAreFound == WatchdogSpec => []NoSlowLeak
<1>1. WatchdogIInv => NoSlowLeak
  <2> SUFFICES ASSUME WatchdogIInv
               PROVE  NoSlowLeak
    OBVIOUS
  <2>1. leakedAt.first \in Int /\ leakedAt.last \in Int
    BY DEF WatchdogIInv, WatchdogTypeOK
  <2>2. CASE entry = NoEntry
    BY <2>1, <2>2, WatchdogAssumption DEF WatchdogIInv, LogIsNear, NoSlowLeak
  <2>3. CASE entry # NoEntry
    <3>1. Delta(entry) \in Int
      BY <2>3 DEF WatchdogIInv, WatchdogTypeOK, Checks, Delta
    <3>2. QED
      BY <2>1, <2>3, <3>1, WatchdogAssumption DEF WatchdogIInv, LogIsNear, NoSlowLeak
  <2>4. QED
    BY <2>2, <2>3
<1>2. QED
  BY <1>1, WatchdogInvariant, PTL

-----------------------------------------------------------------------------
(***************************************************************************)
(* The Lightning backends: what a backend says of a payment is true or an  *)
(* error, however the node and the connection behave, and a quote is what  *)
(* is sent.                                                                *)
(***************************************************************************)

\* An answer is true, and UNKNOWN in an answer means that there is no payment,
\* but for a Strike quote; in place of an answer some backends say UNKNOWN.
LEMMA StatusIsTrue ==
  ASSUME kind \in Kinds, NEW how
  PROVE  /\ Status(how) = "SETTLED" => payNode = "settled"
         /\ Status(how) = "FAILED" => payNode \notin {"none", "settled", "inflight"}
         /\ Status(how) = "UNKNOWN" /\ how = "answer" =>
              payNode = "none" \/ (kind = "strike" /\ ~byPaymentId)
         /\ Status(how) \in {"FAILED", "UNKNOWN"} /\ how # "answer" => kind \in Lnd \cup {"lnbits"}
<1>1. /\ Found = "SETTLED" => payNode = "settled"
      /\ Found = "FAILED" => payNode \notin {"none", "settled", "inflight"}
      /\ Found = "UNKNOWN" => payNode = "none"
  BY DEF Found, NodeResult
<1>2. kind \in {"clnrest", "corelightningrest", "lndrest", "lndgrpc", "lnbits", "blink", "strike"}
  BY BackendsAssumption
<1>3. \/ kind \in {"clnrest", "corelightningrest", "blink"}
         /\ Status(how) = IF how = "answer" THEN Found ELSE "raises"
      \/ kind = "lndrest" /\ Status(how) = LndRestStatus(how)
      \/ kind = "lndgrpc" /\ Status(how) = LndGrpcStatus(how)
      \/ kind = "lnbits" /\ Status(how) = LnbitsStatus(how)
      \/ kind = "strike" /\ Status(how) = StrikeStatus(how)
  BY <1>2 DEF Status, ClnStatus, CoreLightningStatus, BlinkStatus
<1>4. CASE kind \in {"clnrest", "corelightningrest", "blink"}
  BY <1>1, <1>3, <1>4
<1>5. CASE kind = "lndrest"
  BY <1>1, <1>3, <1>5 DEF LndRestStatus, Lnd
<1>6. CASE kind = "lndgrpc"
  BY <1>1, <1>3, <1>6 DEF LndGrpcStatus, Lnd
<1>7. CASE kind = "lnbits"
  BY <1>1, <1>3, <1>7 DEF LnbitsStatus
<1>8. CASE kind = "strike"
  BY <1>1, <1>3, <1>8 DEF StrikeStatus
<1>9. QED
  BY <1>2, <1>4, <1>5, <1>6, <1>7, <1>8

\* A call to pay is SETTLED only if the payment is.
LEMMA PayIsTrue ==
  ASSUME NEW how, PayResult(how) = "SETTLED"
  PROVE  payNode = "settled"
BY DEF PayResult, ClnPay, CoreLightningPay, LndRestPay, LndGrpcPay, LnbitsPay, BlinkPay, StrikePay,
       NodeResult

\* An invoice is SETTLED only if it is paid.
LEMMA InvoiceIsTrue ==
  ASSUME NEW how, InvoiceStatus(how) = "SETTLED"
  PROVE  invoice = "paid"
BY DEF InvoiceStatus, ClnInvoiceStatus, CoreLightningInvoiceStatus, LndRestInvoiceStatus,
       LndGrpcInvoiceStatus, LnbitsInvoiceStatus, BlinkInvoiceStatus, StrikeInvoiceStatus, NodeInvoice

\* Every backend quotes the amount of what is to be paid, in its unit.
LEMMA QuotedAmount ==
  ASSUME NEW msat, NEW quote \in QuoteFor(msat)
  PROVE  quote.amount = UnitUp(msat)
BY DEF QuoteFor, ClnQuote, CoreLightningQuote, LndRestQuote, LndGrpcQuote, LnbitsQuote, BlinkQuote,
       StrikeQuote, Quoted

\* Whole sats are rounded to themselves.
LEMMA WholeSats ==
  ASSUME NEW k \in Nat \ {0}, NEW n \in Nat, n % k = 0
  PROVE  CeilDiv(n, k) * k = n
<1>1. n = (n \div k) * k /\ n \div k \in Nat
  OBVIOUS
<1>2. (n + k - 1) \div k = n \div k
  <2> DEFINE d == n \div k
             e == (n + k - 1) \div k
  <2>1. d \in Nat /\ e \in Nat /\ n = d * k
    BY <1>1
  <2>2. e * k <= n + k - 1 /\ n + k - 1 < (e + 1) * k
    OBVIOUS
  <2> HIDE DEF d, e
  <2>3. ~(e < d)
    <3>1. SUFFICES ASSUME e < d PROVE FALSE
      OBVIOUS
    <3>2. (e + 1) * k <= d * k
      BY <2>1, <3>1
    <3>3. QED
      BY <2>1, <2>2, <3>2
  <2>4. ~(e > d)
    <3>1. SUFFICES ASSUME e > d PROVE FALSE
      OBVIOUS
    <3>2. (d + 1) * k <= e * k
      BY <2>1, <3>1
    <3>3. (d + 1) * k = d * k + k
      BY <2>1
    <3>4. QED
      BY <2>1, <2>2, <3>2, <3>3
  <2>5. QED
    BY <2>1, <2>3, <2>4 DEF d, e
<1>3. QED
  BY <1>1, <1>2 DEF CeilDiv

-----------------------------------------------------------------------------
(* The inductive invariant *)

\* Before a melt there is no payment; before the node has read the request, either.
PaymentFollowsRequest ==
  /\ kind \in Kinds /\ mpp \in BOOLEAN /\ (mpp => kind \in Mpp)
  /\ payNode \in {"none", "inflight", "settled", "failed"}
  /\ onWire => payNode = "none"
  /\ call = "none" => payNode = "none" /\ ~onWire
  /\ call \in {"none", "pay", "status"} => verdict = "PENDING" /\ ~blind

\* A part is of a quote that may be one, and any other amount is the invoice's.
QuoteIsOfInvoice ==
  call # "none" => /\ toPay \in Invoices
                   /\ isMpp => mpp
                   /\ ~isMpp => amount = UnitUp(toPay)

StreamTyped == cursor \in Int /\ since \in Int /\ paidCount \in Nat

BackendsIInv ==
  /\ PaymentFollowsRequest /\ QuoteIsOfInvoice /\ StreamTyped
  /\ PaidIsSettled /\ RollbackIsInformed /\ StreamSkipsNothing
  
LEMMA OutgoingKeeps ==
  ASSUME BackendsIInv, Outgoing
  PROVE  PaymentFollowsRequest' /\ QuoteIsOfInvoice' /\ PaidIsSettled' /\ RollbackIsInformed'
<1> USE DEF BackendsIInv
<1>1. CASE StartMelt
  <2>1. /\ UNCHANGED <<kind, unit, mpp, payNode, verdict, blind, late, credit, invoice>>
        /\ call = "none" /\ call' = "pay" /\ toPay' \in Invoices
    BY <1>1 DEF StartMelt, inVars
  <2>2. PICK part \in {toPay'} \cup {p \in Parts : mpp /\ p < toPay'} :
          /\ isMpp' = (part # toPay')
          /\ \E quote \in QuoteFor(part) : amount' = quote.amount /\ reserve' = quote.reserve
    BY <1>1 DEF StartMelt
  <2>3. amount' = UnitUp(part)
    BY <2>2, QuotedAmount
  <2>4. QuoteIsOfInvoice'
    BY <2>1, <2>2, <2>3 DEF QuoteIsOfInvoice, UnitUp
  <2>5. QED
    BY <2>1, <2>4 DEF PaymentFollowsRequest, PaidIsSettled, RollbackIsInformed
<1>2. CASE NodePays
  <2>1. UNCHANGED <<kind, unit, mpp, toPay, isMpp, amount, call, verdict, blind, credit, invoice>>
    BY <1>2 DEF NodePays, inVars
  <2>2. \/ onWire /\ onWire' = FALSE /\ payNode' = "inflight" /\ late' = (verdict = "UNPAID")
        \/ payNode = "inflight" /\ payNode' \in {"settled", "failed"} /\ UNCHANGED <<onWire, late>>
    BY <1>2 DEF NodePays
  <2>3. QuoteIsOfInvoice'
    BY <2>1 DEF QuoteIsOfInvoice, UnitUp
  <2>4. PaymentFollowsRequest'
    BY <2>1, <2>2 DEF PaymentFollowsRequest
  <2>5. (onWire \/ payNode = "inflight") => verdict # "PAID"
    BY DEF PaymentFollowsRequest, PaidIsSettled
  <2>6. PaidIsSettled'
    BY <2>1, <2>2, <2>5 DEF PaidIsSettled
  <2>7. RollbackIsInformed'
    BY <2>1, <2>2 DEF RollbackIsInformed
  <2>8. QED
    BY <2>3, <2>4, <2>6, <2>7
<1>3. CASE \E how \in Replies : PayReturns(how)
  <2>1. PICK how \in Replies : PayReturns(how)
    BY <1>3
  <2>2. /\ UNCHANGED <<kind, unit, mpp, toPay, isMpp, amount, payNode, onWire, blind, late, credit,
                       invoice>>
        /\ call = "pay" /\ call' \in {"done", "status"}
        /\ \/ verdict' = "PAID" /\ PayResult(how) = "SETTLED" /\ call' = "done"
           \/ verdict' = "PENDING"
    BY <2>1 DEF PayReturns, inVars, PaymentFollowsRequest
  <2>3. QuoteIsOfInvoice'
    BY <2>2 DEF QuoteIsOfInvoice, UnitUp
  <2>4. PayResult(how) = "SETTLED" => payNode = "settled"
    BY PayIsTrue
  <2>5. verdict = "PENDING" /\ ~blind
    BY <2>2 DEF PaymentFollowsRequest
  <2>6. PaymentFollowsRequest'
    BY <2>2, <2>5 DEF PaymentFollowsRequest
  <2>7. PaidIsSettled' /\ RollbackIsInformed'
    BY <2>2, <2>4, <2>5 DEF PaidIsSettled, RollbackIsInformed
  <2>8. QED
    BY <2>3, <2>6, <2>7
<1>4. CASE \E how \in Replies : StatusAfterPay(how)
  <2>1. PICK how \in Replies : StatusAfterPay(how)
    BY <1>4
  <2>2. /\ UNCHANGED <<kind, unit, mpp, toPay, isMpp, amount, payNode, onWire, late, credit, invoice>>
        /\ call = "status" /\ call' = "done"
        /\ verdict' = IF Status(how) \in {"FAILED", "UNKNOWN"} THEN "UNPAID" ELSE "PENDING"
        /\ blind' = (verdict' = "UNPAID" /\ (how # "answer" \/ (kind = "strike" /\ ~byPaymentId)))
    BY <2>1 DEF StatusAfterPay, inVars
  <2>3. QuoteIsOfInvoice'
    BY <2>2 DEF QuoteIsOfInvoice, UnitUp
  <2>4. QED
    BY <2>2, <2>3, StatusIsTrue DEF PaymentFollowsRequest, PaidIsSettled, RollbackIsInformed
<1>5. CASE \E how \in Replies : PollMelt(how)
  <2>1. PICK how \in Replies : PollMelt(how)
    BY <1>5
  <2>2. /\ UNCHANGED <<kind, unit, mpp, toPay, isMpp, amount, payNode, onWire, late, credit, invoice,
                       call, blind>>
        /\ call = "done"
        /\ \/ verdict' = "PAID" /\ Status(how) = "SETTLED"
           \/ verdict' = "UNPAID" /\ Status(how) = "FAILED"
    BY <2>1 DEF PollMelt, inVars
  <2>3. QuoteIsOfInvoice'
    BY <2>2 DEF QuoteIsOfInvoice, UnitUp
  <2>4. QED
    BY <2>2, <2>3, StatusIsTrue DEF PaymentFollowsRequest, PaidIsSettled, RollbackIsInformed
<1>6. QED
  BY <1>1, <1>2, <1>3, <1>4, <1>5 DEF Outgoing

LEMMA OutgoingElsewhere ==
  ASSUME BackendsIInv, UNCHANGED <<kind, unit, mpp, outVars>>
  PROVE  /\ PaymentFollowsRequest' /\ QuoteIsOfInvoice' /\ RollbackIsInformed'
         /\ (credit' => invoice' = "paid") => PaidIsSettled'
BY DEF BackendsIInv, outVars, PaymentFollowsRequest, QuoteIsOfInvoice, RollbackIsInformed, PaidIsSettled,
       UnitUp

LEMMA IncomingKeeps ==
  ASSUME BackendsIInv, Incoming
  PROVE  credit' => invoice' = "paid"
BY InvoiceIsTrue DEF BackendsIInv, PaidIsSettled, Incoming, CreateInvoice, InvoiceEnds, CheckInvoice

LEMMA StreamKeeps ==
  ASSUME BackendsIInv, Stream
  PROVE  StreamTyped' /\ StreamSkipsNothing'
<1> USE DEF BackendsIInv, StreamTyped, StreamSkipsNothing
<1>1. CASE NodeIsPaid
  BY <1>1 DEF NodeIsPaid, Callback
<1>2. CASE OpenStream
  <2>1. cursor' \in Int /\ since' = cursor' /\ UNCHANGED paidCount
    BY <1>2 DEF OpenStream
  <2>2. \A n \in Int : n + 1 .. n = {}
    OBVIOUS
  <2>3. since' + 1 .. cursor' \subseteq streamTold'
    BY <2>1, <2>2
  <2>4. QED
    BY <2>1, <2>3
<1>3. CASE StreamBreaks \/ Reconnect
  BY <1>3 DEF StreamBreaks, Reconnect
<1>4. CASE ClnWaitAny
  <2>1. /\ cursor' = cursor + 1 /\ UNCHANGED <<kind, paidCount>>
        /\ \/ since' = since /\ streamTold' = streamTold \cup {cursor + 1}
           \/ since' = -1
    BY <1>4 DEF ClnWaitAny, Callback
  <2>2. QED
    BY <2>1
<1>5. CASE CoreLightningWaitAny
  <2>1. /\ cursor' = cursor + 1 /\ UNCHANGED <<kind, paidCount>> /\ kind # "clnrest"
        /\ since' = since \/ since' = -1
    BY <1>5 DEF CoreLightningWaitAny, Callback
  <2>2. cursor' \in Int /\ since' \in Int /\ kind' # "clnrest"
    BY <2>1
  <2>3. QED
    BY <2>1, <2>2
<1>6. QED
  BY <1>1, <1>2, <1>3, <1>4, <1>5 DEF Stream

\* What is kept of a quote, a payment and a stream, whichever the backend is.
THEOREM BackendsInvariant == BackendsSpec => []BackendsIInv
<1>1. BackendsInit => BackendsIInv
  <2> SUFFICES ASSUME BackendsInit PROVE BackendsIInv
    OBVIOUS
  <2>1. /\ kind \in Kinds /\ mpp \in BOOLEAN /\ (mpp => kind \in Mpp) /\ ~onWire /\ ~blind /\ ~credit
        /\ payNode = "none" /\ call = "none" /\ verdict = "PENDING"
    BY DEF BackendsInit
  <2>2. PaymentFollowsRequest /\ QuoteIsOfInvoice
    BY <2>1 DEF PaymentFollowsRequest, QuoteIsOfInvoice
  <2>3. PaidIsSettled /\ RollbackIsInformed
    BY <2>1 DEF PaidIsSettled, RollbackIsInformed
  <2>4. StreamTyped /\ StreamSkipsNothing
    BY DEF BackendsInit, StreamTyped, StreamSkipsNothing
  <2>5. QED
    BY <2>2, <2>3, <2>4 DEF BackendsIInv
<1>2. BackendsIInv /\ [BackendsNext]_backendVars => BackendsIInv'
  <2> SUFFICES ASSUME BackendsIInv, [BackendsNext]_backendVars PROVE BackendsIInv'
    OBVIOUS
  <2>1. CASE Outgoing
    <3>1. UNCHANGED <<kind, streamVars>>
      BY <2>1 DEF Outgoing, StartMelt, NodePays, PayReturns, StatusAfterPay, PollMelt
    <3>2. StreamTyped' /\ StreamSkipsNothing'
      BY <3>1 DEF streamVars, BackendsIInv, StreamTyped, StreamSkipsNothing
    <3>3. QED
      BY <2>1, <3>2, OutgoingKeeps DEF BackendsIInv
  <2>2. CASE Incoming
    <3>1. UNCHANGED <<kind, unit, mpp, outVars, streamVars>>
      BY <2>2 DEF Incoming, CreateInvoice, InvoiceEnds, CheckInvoice
    <3>2. StreamTyped' /\ StreamSkipsNothing'
      BY <3>1 DEF streamVars, BackendsIInv, StreamTyped, StreamSkipsNothing
    <3>3. QED
      BY <2>2, <3>1, <3>2, IncomingKeeps, OutgoingElsewhere DEF BackendsIInv
  <2>3. CASE Stream
    <3>1. UNCHANGED <<kind, unit, mpp, outVars, inVars>>
      BY <2>3 DEF Stream, NodeIsPaid, OpenStream, StreamBreaks, Reconnect, ClnWaitAny,
                   CoreLightningWaitAny
    <3>2. credit' => invoice' = "paid"
      BY <3>1 DEF inVars, BackendsIInv, PaidIsSettled
    <3>3. QED
      BY <2>3, <3>1, <3>2, StreamKeeps, OutgoingElsewhere DEF BackendsIInv
  <2>4. CASE UNCHANGED backendVars
    <3>1. UNCHANGED <<kind, unit, mpp, outVars, inVars, streamVars>>
      BY <2>4 DEF backendVars
    <3>2. StreamTyped' /\ StreamSkipsNothing' /\ (credit' => invoice' = "paid")
      BY <3>1 DEF streamVars, inVars, BackendsIInv, StreamTyped, StreamSkipsNothing, PaidIsSettled
    <3>3. QED
      BY <3>1, <3>2, OutgoingElsewhere DEF BackendsIInv
  <2>5. QED
    BY <2>1, <2>2, <2>3, <2>4 DEF BackendsNext
<1>3. QED
  BY <1>1, <1>2, PTL DEF BackendsSpec

\* A quote is paid only when the node's payment or invoice is settled.
THEOREM BackendsTellTheTruth == BackendsSpec => []PaidIsSettled
BY BackendsInvariant, PTL DEF BackendsIInv

\* A payment that is under way was rolled back only by a check that could not
\* see it, and never through c-lightning or Blink.
THEOREM RollbacksAreInformed == BackendsSpec => []RollbackIsInformed
BY BackendsInvariant, PTL DEF BackendsIInv

\* However often its connection is lost, a stream of c-lightning settles every
\* invoice from where it was opened up to its index.
THEOREM StreamsSkipNothing == BackendsSpec => []StreamSkipsNothing
BY BackendsInvariant, PTL DEF BackendsIInv

\* A quote sends what it was for, when sats are whole.
THEOREM QuotesAreSent == BackendsSpec => []QuoteIsWhatIsSent
<1>1. BackendsIInv => QuoteIsWhatIsSent
  <2> SUFFICES ASSUME BackendsIInv, call # "none", unit = "sat", toPay % Kmsat = 0
               PROVE  Sends = IF isMpp THEN InMsat(amount) ELSE toPay
    BY DEF QuoteIsWhatIsSent
  <2>1. /\ toPay \in Nat /\ Kmsat \in Nat \ {0} /\ kind \in Kinds /\ (isMpp => mpp)
        /\ mpp => kind \in Mpp
    BY BackendsAssumption DEF BackendsIInv, PaymentFollowsRequest, QuoteIsOfInvoice
  <2>2. InMsat(amount) = amount * Kmsat
    BY DEF InMsat
  <2>3. ~isMpp => amount * Kmsat = toPay
    BY <2>1, WholeSats DEF BackendsIInv, QuoteIsOfInvoice, UnitUp
  <2>4. QED
    BY <2>1, <2>2, <2>3 DEF Sends, ClnSends, LndRestSends, LndGrpcSends, Mpp, Lnd
<1>2. QED
  BY <1>1, BackendsInvariant, PTL

-----------------------------------------------------------------------------
(***************************************************************************)
(* The conversion to Postgres: one that reports success has lost no spent  *)
(* note, for any number of notes, batches and attempts.                    *)
(***************************************************************************)

LEMMA OrderedTables ==
  /\ Tables = {"promises", "proofs_used", "proofs_pending"}
  /\ Len(Ordered) = 3
  /\ \A i \in 1..3 : Ordered[i] \in Tables /\ (Ordered[i] = "proofs_used" <=> i = 2)
  /\ \A t \in Tables : \E i \in 1..3 : Ordered[i] = t
<1>1. DOMAIN Ordered = 1..3 /\ Ordered[1] = "promises" /\ Ordered[2] = "proofs_used"
      /\ Ordered[3] = "proofs_pending" /\ Len(Ordered) = 3
  BY DEF Ordered
<1>2. Tables = {Ordered[i] : i \in 1..3}
  BY <1>1 DEF Tables
<1>3. \A i \in 1..3 : i = 1 \/ i = 2 \/ i = 3
  OBVIOUS
<1>4. QED
  BY <1>1, <1>2, <1>3

Rows3 == [Tables -> SUBSET NoteRows]
Progress == [at : {"none", "copy", "batches", "count", "counts"}, table : 1..3, left : SUBSET NoteRows]

ConversionTyped ==
  /\ sqlite \in Rows3 /\ postgres \in Rows3 /\ mintRuns \in BOOLEAN
  /\ converting \in Progress
  /\ report \in {"none", "refused", "success", "warnings"}
  /\ counted \in BOOLEAN /\ quiet \in BOOLEAN

\* a spent note stays spent in SQLite, so what was read of it stays true
UsedIsCopied ==
  /\ postgres["proofs_used"] \subseteq sqlite["proofs_used"]
  /\ converting.at = "batches" /\ converting.table = 2 => converting.left \subseteq sqlite["proofs_used"]

\* a mint that did not run at the start never does
QuietIsCopied ==
  quiet => /\ ~mintRuns
           /\ \A t \in Tables : postgres[t] \subseteq sqlite[t]
           /\ converting.at = "batches" => converting.left \subseteq sqlite[Table]

\* the tables that were counted, once the copy is over
WasCounted(i) ==
  \/ report = "success"
  \/ /\ counted
     /\ \/ converting.at = "counts"
        \/ converting.at = "count" /\ i < converting.table

CountedIsEqual ==
  /\ WasCounted(2) => postgres["proofs_used"] = usedWhenCounted
  /\ \A i \in 1..3 : quiet /\ WasCounted(i) => postgres[Ordered[i]] = sqlite[Ordered[i]]
  /\ converting.at # "none" => report = "none"

ConversionIInv == ConversionTyped /\ UsedIsCopied /\ QuietIsCopied /\ CountedIsEqual

LEMMA StartsNotConverting == NotConverting \in Progress /\ NotConverting.at = "none"
<1>1. 1 \in 1..3 /\ {} \in SUBSET NoteRows /\ "none" \in {"none", "copy", "batches", "count", "counts"}
  OBVIOUS
<1>2. QED
  BY <1>1 DEF Progress, NotConverting

LEMMA ProgressGoes ==
  ASSUME NEW c \in Progress, NEW place \in {"none", "copy", "batches", "count", "counts"}, NEW i \in 1..3
  PROVE  /\ [c EXCEPT !.at = place] \in Progress /\ [c EXCEPT !.at = place].at = place
         /\ [c EXCEPT !.table = i, !.at = place] \in Progress
         /\ [c EXCEPT !.table = i, !.at = place].at = place
         /\ [c EXCEPT !.table = i, !.at = place].table = i
<1>1. [c EXCEPT !.at = place] \in Progress /\ [c EXCEPT !.at = place].at = place
  BY DEF Progress
<1>2. [c EXCEPT !.table = i, !.at = place] \in Progress
  BY DEF Progress
<1>3. [c EXCEPT !.table = i, !.at = place].at = place
  BY DEF Progress
<1>4. [c EXCEPT !.table = i, !.at = place].table = i
  BY DEF Progress
<1>5. QED
  BY <1>1, <1>2, <1>3, <1>4

\* What the mint writes while it runs keeps what is spent.
LEMMA MintKeepsCopy ==
  ASSUME ConversionIInv, NEW n \in NoteRows, RowIssued(n) \/ RowPending(n) \/ RowSpent(n) \/ RowReleased(n)
  PROVE  ConversionIInv'
<1> USE OrderedTables DEF ConversionIInv
<1>1. /\ mintRuns /\ UNCHANGED <<postgres, mintRuns, converterVars>>
      /\ sqlite' \in Rows3 /\ sqlite["proofs_used"] \subseteq sqlite'["proofs_used"]
  BY DEF RowIssued, RowPending, RowSpent, RowReleased, MintWrites, ConversionTyped, Rows3
<1>2. ~quiet
  BY <1>1 DEF QuietIsCopied
<1>3. ConversionTyped' /\ UsedIsCopied'
  BY <1>1 DEF ConversionTyped, UsedIsCopied, converterVars
<1>4. QuietIsCopied' /\ CountedIsEqual'
  BY <1>1, <1>2 DEF QuietIsCopied, CountedIsEqual, WasCounted, converterVars
<1>5. QED
  BY <1>3, <1>4

LEMMA CopyKeeps ==
  ASSUME ConversionIInv, PreCheck \/ SelectTable \/ CopyBatch \/ TableCopied
  PROVE  ConversionIInv'
<1> USE OrderedTables DEF ConversionIInv
<1>1. CASE PreCheck
  <2>1. /\ converting.at = "none" /\ counted' = TRUE
        /\ UNCHANGED <<sqlite, postgres, mintRuns, usedWhenCounted>>
        /\ \/ report' = "refused" /\ UNCHANGED <<converting, quiet>>
           \/ /\ converting' = [NotConverting EXCEPT !.at = "copy"]
              /\ report' = "none" /\ quiet' = ~mintRuns /\ \A t \in Tables : postgres[t] = {}
    BY <1>1 DEF PreCheck, Populated
  <2>2. ConversionTyped'
    <3>1. converting' \in Progress
      <4>1. NotConverting \in Progress /\ "copy" \in {"none", "copy", "batches", "count", "counts"}
        BY StartsNotConverting
      <4>2. [NotConverting EXCEPT !.at = "copy"] \in Progress
        BY <4>1 DEF Progress
      <4>3. QED
        BY <2>1, <4>2 DEF ConversionTyped
    <3>2. quiet' \in BOOLEAN /\ report' \in {"none", "refused", "success", "warnings"}
      BY <2>1 DEF ConversionTyped
    <3>3. QED
      BY <2>1, <3>1, <3>2 DEF ConversionTyped
  <2>3. converting'.at \in {"none", "copy"}
    BY <2>1 DEF NotConverting
  <2>4. UsedIsCopied' /\ QuietIsCopied'
    <3>1. quiet' => ~mintRuns' /\ \A t \in Tables : postgres'[t] \subseteq sqlite'[t]
      BY <2>1 DEF QuietIsCopied
    <3>2. QED
      BY <2>1, <2>3, <3>1 DEF UsedIsCopied, QuietIsCopied
  <2>5. CountedIsEqual'
    BY <2>1, <2>3 DEF CountedIsEqual, WasCounted
  <2>6. QED
    BY <2>2, <2>4, <2>5
<1>2. CASE SelectTable
  <2>1. /\ converting.at = "copy"
        /\ UNCHANGED <<sqlite, postgres, mintRuns, report, counted, quiet, usedWhenCounted>>
        /\ converting' = [converting EXCEPT !.at = "batches", !.left = sqlite[Table]]
    BY <1>2 DEF SelectTable, Unreported
  <2>2. converting'.at = "batches" /\ converting'.table = converting.table /\ converting'.left = sqlite[Table]
        /\ Table' = Table /\ Table \in Tables /\ (converting.table = 2 => Table = "proofs_used")
    BY <2>1 DEF ConversionTyped, Progress, Table
  <2>3. ConversionTyped'
    BY <2>1, <2>2 DEF ConversionTyped, Progress, Rows3
  <2>4. UsedIsCopied' /\ QuietIsCopied'
    BY <2>1, <2>2 DEF UsedIsCopied, QuietIsCopied
  <2>5. CountedIsEqual'
    BY <2>1, <2>2 DEF CountedIsEqual, WasCounted
  <2>6. QED
    BY <2>3, <2>4, <2>5
<1>3. CASE CopyBatch
  <2>1. PICK batch \in SUBSET converting.left :
          /\ converting.at = "batches"
          /\ postgres' = [postgres EXCEPT ![Table] = @ \union batch]
          /\ converting' = [converting EXCEPT !.left = @ \ batch]
          /\ UNCHANGED <<sqlite, mintRuns, report, counted, quiet, usedWhenCounted>>
    BY <1>3 DEF CopyBatch, Unreported
  <2>2. converting'.at = "batches" /\ converting'.table = converting.table
        /\ converting'.left = converting.left \ batch
        /\ Table' = Table /\ Table \in Tables /\ (Table = "proofs_used" <=> converting.table = 2)
    BY <2>1 DEF ConversionTyped, Progress, Table
  <2>3. ConversionTyped'
    BY <2>1, <2>2 DEF ConversionTyped, Progress, Rows3
  <2>4. UsedIsCopied'
    BY <2>1, <2>2 DEF UsedIsCopied, ConversionTyped, Rows3
  <2>5. QuietIsCopied'
    BY <2>1, <2>2 DEF QuietIsCopied, ConversionTyped, Rows3
  <2>6. CountedIsEqual'
    BY <2>1, <2>2 DEF CountedIsEqual, WasCounted
  <2>7. QED
    BY <2>3, <2>4, <2>5, <2>6
<1>4. CASE TableCopied
  <2>1. /\ converting.at = "batches"
        /\ UNCHANGED <<sqlite, postgres, mintRuns, report, counted, quiet, usedWhenCounted>>
        /\ \/ converting.table < 3 /\ converting' = [converting EXCEPT !.table = @ + 1, !.at = "copy"]
           \/ converting' = [converting EXCEPT !.table = 1, !.at = "count"]
    BY <1>4 DEF TableCopied, Unreported, NextTable
  <2>2. ConversionTyped'
    <3>1. converting' \in Progress
      <4>1. CASE converting.table < 3 /\ converting' = [converting EXCEPT !.table = @ + 1, !.at = "copy"]
        <5>1. converting.table \in 1..3 /\ converting.table + 1 \in 1..3
          BY <4>1 DEF ConversionTyped, Progress
        <5>2. QED
          BY <4>1, <5>1, ProgressGoes DEF ConversionTyped
      <4>2. CASE converting' = [converting EXCEPT !.table = 1, !.at = "count"]
        <5>1. 1 \in 1..3
          OBVIOUS
        <5>2. QED
          BY <4>2, <5>1, ProgressGoes DEF ConversionTyped
      <4>3. QED
        BY <2>1, <4>1, <4>2
    <3>2. QED
      BY <2>1, <3>1 DEF ConversionTyped
  <2>4. converting'.at = "copy" \/ (converting'.at = "count" /\ converting'.table = 1)
    BY <2>1 DEF ConversionTyped, Progress
  <2>3. UsedIsCopied' /\ QuietIsCopied'
    BY <2>1, <2>4 DEF UsedIsCopied, QuietIsCopied
  <2>5. CountedIsEqual'
    BY <2>1, <2>4 DEF CountedIsEqual, WasCounted
  <2>6. QED
    BY <2>2, <2>3, <2>5
<1>5. QED
  BY <1>1, <1>2, <1>3, <1>4

LEMMA CountKeeps ==
  ASSUME ConversionIInv, CountTable
  PROVE  ConversionIInv'
<1> USE OrderedTables DEF ConversionIInv
<1> DEFINE i == converting.table
           t == Ordered[i]
<1>1. /\ converting.at = "count" /\ UNCHANGED <<sqlite, postgres, mintRuns, report, quiet>>
      /\ counted' = (counted /\ Cardinality(sqlite[t]) = Cardinality(postgres[t]))
      /\ usedWhenCounted' = IF t = "proofs_used" THEN sqlite[t] ELSE usedWhenCounted
      /\ \/ i < 3 /\ converting' = [converting EXCEPT !.table = @ + 1, !.at = "count"]
         \/ i >= 3 /\ converting' = [converting EXCEPT !.table = 1, !.at = "counts"]
  BY DEF CountTable, NextTable, Table, ConversionTyped, Progress
<1>2. i \in 1..3 /\ t \in Tables /\ sqlite[t] \subseteq NoteRows /\ postgres[t] \subseteq NoteRows
  BY DEF ConversionTyped, Progress, Rows3
<1>3. postgres[t] \subseteq sqlite[t] /\ counted' => postgres[t] = sqlite[t]
  <2>1. IsFiniteSet(sqlite[t])
    BY <1>2, ConversionAssumption, FS_Subset
  <2>2. QED
    <3>1. SUFFICES ASSUME postgres[t] \subseteq sqlite[t], counted' PROVE postgres[t] = sqlite[t]
      OBVIOUS
    <3>2. Cardinality(sqlite[t]) = Cardinality(postgres[t])
      BY <1>1, <3>1
    <3>3. QED
      BY <2>1, <3>1, <3>2, FS_Subset
<1>4. ConversionTyped'
  <2>1. converting' \in Progress
    <3>1. CASE i < 3 /\ converting' = [converting EXCEPT !.table = @ + 1, !.at = "count"]
      <4>1. i + 1 \in 1..3
        BY <1>2, <3>1
      <4>2. QED
        BY <3>1, <4>1, ProgressGoes DEF ConversionTyped
    <3>2. CASE converting' = [converting EXCEPT !.table = 1, !.at = "counts"]
      <4>1. 1 \in 1..3
        OBVIOUS
      <4>2. QED
        BY <3>2, <4>1, ProgressGoes DEF ConversionTyped
    <3>3. QED
      BY <1>1, <3>1, <3>2
  <2>2. QED
    BY <1>1, <2>1 DEF ConversionTyped
<1>5. /\ converting'.at \in {"count", "counts"}
      /\ converting'.at = "count" => i < 3 /\ converting'.table = i + 1
      /\ converting'.at = "counts" => i = 3
  <2>1. CASE i < 3 /\ converting' = [converting EXCEPT !.table = @ + 1, !.at = "count"]
    BY <2>1 DEF ConversionTyped, Progress
  <2>2. CASE i >= 3 /\ converting' = [converting EXCEPT !.table = 1, !.at = "counts"]
    BY <1>2, <2>2 DEF ConversionTyped, Progress
  <2>3. QED
    BY <1>1, <2>1, <2>2
<1>6. UsedIsCopied' /\ QuietIsCopied'
  BY <1>1, <1>5 DEF UsedIsCopied, QuietIsCopied
<1>7. report' = "none"
  BY <1>1 DEF CountedIsEqual
<1>8. \A j \in 1..3 : WasCounted(j)' => counted' /\ (j = i \/ WasCounted(j))
  <2>1. SUFFICES ASSUME NEW j \in 1..3, WasCounted(j)' PROVE counted' /\ (j = i \/ WasCounted(j))
    OBVIOUS
  <2>2. counted' /\ counted
    BY <1>1, <1>7, <2>1 DEF WasCounted
  <2>3. j <= i
    BY <1>2, <1>5, <1>7, <2>1 DEF WasCounted
  <2>4. j = i \/ j < i
    BY <1>2, <2>3
  <2>5. QED
    BY <1>1, <2>2, <2>4 DEF WasCounted
<1>9. WasCounted(2)' => postgres'["proofs_used"] = usedWhenCounted'
  <2>1. CASE i = 2
    BY <1>1, <1>2, <1>3, <1>8, <2>1 DEF UsedIsCopied
  <2>2. CASE i # 2
    BY <1>1, <1>2, <1>8, <2>2 DEF CountedIsEqual
  <2>3. QED
    BY <2>1, <2>2
<1>10. ASSUME NEW j \in 1..3, quiet', WasCounted(j)'
       PROVE  postgres'[Ordered[j]] = sqlite'[Ordered[j]]
  <2>1. CASE j = i
    BY <1>1, <1>2, <1>3, <1>8, <1>10, <2>1 DEF QuietIsCopied
  <2>2. CASE j # i
    BY <1>1, <1>8, <1>10, <2>2 DEF CountedIsEqual
  <2>3. QED
    BY <2>1, <2>2
<1>11. QED
  BY <1>4, <1>6, <1>7, <1>9, <1>10 DEF CountedIsEqual

LEMMA EndKeeps ==
  ASSUME ConversionIInv, StopMint \/ Report \/ ConversionDies \/ ResetPostgres \/ UNCHANGED conversionVars
  PROVE  ConversionIInv'
<1> USE OrderedTables DEF ConversionIInv
<1>1. CASE StopMint \/ UNCHANGED conversionVars
  <2>1. UNCHANGED <<sqlite, postgres, converterVars>> /\ mintRuns' \in {mintRuns, FALSE}
    BY <1>1 DEF StopMint, conversionVars
  <2>2. QED
    <3>1. UNCHANGED <<sqlite, postgres, converting, report, counted, quiet, usedWhenCounted, Table>>
      BY <2>1 DEF converterVars, Table
    <3>2. ConversionTyped' /\ UsedIsCopied'
      BY <2>1, <3>1 DEF ConversionTyped, UsedIsCopied
    <3>3. QuietIsCopied'
      BY <2>1, <3>1 DEF QuietIsCopied, ConversionTyped
    <3>4. CountedIsEqual'
      BY <3>1 DEF CountedIsEqual, WasCounted
    <3>5. QED
      BY <3>2, <3>3, <3>4
<1>2. CASE Report
  <2>1. /\ converting.at = "counts" /\ report' \in {"success", "warnings"} /\ (report' = "success" => counted)
        /\ converting' = NotConverting
        /\ UNCHANGED <<sqlite, postgres, mintRuns, counted, quiet, usedWhenCounted>>
    BY <1>2 DEF Report
  <2>2. \A i \in 1..3 : WasCounted(i)' => WasCounted(i)
    BY <2>1 DEF WasCounted, NotConverting
  <2>3. ConversionTyped' /\ UsedIsCopied' /\ QuietIsCopied'
    BY <2>1 DEF ConversionTyped, Progress, UsedIsCopied, QuietIsCopied, NotConverting
  <2>4. CountedIsEqual'
    BY <2>1, <2>2 DEF CountedIsEqual, NotConverting
  <2>5. QED
    BY <2>3, <2>4
<1>3. CASE ConversionDies
  <2>1. /\ converting.at # "none" /\ converting' = NotConverting
        /\ UNCHANGED <<sqlite, postgres, mintRuns, report, counted, quiet, usedWhenCounted>>
    BY <1>3 DEF ConversionDies
  <2>2. \A i \in 1..3 : ~WasCounted(i)'
    BY <2>1 DEF WasCounted, NotConverting, CountedIsEqual
  <2>3. ConversionTyped' /\ UsedIsCopied' /\ QuietIsCopied'
    BY <2>1 DEF ConversionTyped, Progress, UsedIsCopied, QuietIsCopied, NotConverting
  <2>4. CountedIsEqual'
    BY <2>1, <2>2 DEF CountedIsEqual, NotConverting
  <2>5. QED
    BY <2>3, <2>4
<1>4. CASE ResetPostgres
  <2>1. /\ converting.at = "none" /\ postgres' = Empty /\ report' = "none"
        /\ UNCHANGED <<sqlite, mintRuns, converting, counted, quiet, usedWhenCounted>>
    BY <1>4 DEF ResetPostgres
  <2>2. \A t \in Tables : postgres'[t] = {}
    BY <2>1 DEF Empty
  <2>3. ConversionTyped'
    BY <2>1 DEF ConversionTyped, Empty, Rows3
  <2>4. UsedIsCopied' /\ QuietIsCopied'
    BY <2>1, <2>2 DEF UsedIsCopied, QuietIsCopied
  <2>5. CountedIsEqual'
    BY <2>1 DEF CountedIsEqual, WasCounted
  <2>6. QED
    BY <2>3, <2>4, <2>5
<1>5. QED
  BY <1>1, <1>2, <1>3, <1>4

\* What has been copied and counted, at each stage of an attempt.
THEOREM ConversionInvariant == ConversionSpec => []ConversionIInv
<1>1. ConversionInit => ConversionIInv
  <2> SUFFICES ASSUME ConversionInit PROVE ConversionIInv
    OBVIOUS
  <2> USE OrderedTables DEF ConversionInit, Empty, NotConverting
  <2>1. ConversionTyped
    <3>1. sqlite \in Rows3 /\ postgres \in Rows3
      BY DEF Rows3
    <3>2. QED
      BY <3>1, StartsNotConverting DEF ConversionTyped
  <2>2. UsedIsCopied /\ QuietIsCopied
    BY DEF UsedIsCopied, QuietIsCopied
  <2>3. CountedIsEqual
    BY DEF CountedIsEqual, WasCounted
  <2>4. QED
    BY <2>1, <2>2, <2>3 DEF ConversionIInv
<1>2. ConversionIInv /\ [ConversionNext]_conversionVars => ConversionIInv'
  BY MintKeepsCopy, CopyKeeps, CountKeeps, EndKeeps DEF ConversionNext
<1>3. QED
  BY <1>1, <1>2, PTL DEF ConversionSpec

\* "Migration successful" is printed only if no spent note was left behind, and
\* of a mint that was stopped only if the tables are the same, whatever died.
THEOREM SuccessfulConversionsLoseNothing == ConversionSpec => []SuccessLosesNothing
<1>1. ConversionIInv => SuccessLosesNothing
  <2> SUFFICES ASSUME ConversionIInv, report = "success" PROVE SuccessLosesNothing
    BY DEF SuccessLosesNothing
  <2>1. \A i \in 1..3 : WasCounted(i)
    BY DEF WasCounted
  <2>2. postgres["proofs_used"] = usedWhenCounted
    BY <2>1 DEF ConversionIInv, CountedIsEqual
  <2>3. quiet => \A t \in Tables : postgres[t] = sqlite[t]
    BY <2>1, OrderedTables DEF ConversionIInv, CountedIsEqual
  <2>4. quiet => postgres = sqlite
    BY <2>3 DEF ConversionIInv, ConversionTyped, Rows3
  <2>5. QED
    BY <2>2, <2>4 DEF SuccessLosesNothing
<1>2. QED
  BY <1>1, ConversionInvariant, PTL

-----------------------------------------------------------------------------
(***************************************************************************)
(* The migrations: what the mint owes is owed after an upgrade, from any of *)
(* the versions, for any number of notes and wherever the process dies.     *)
(***************************************************************************)

\* the id of a row once migration 26 has filled it in
Filled(k) == IF k = "null" THEN "hex" ELSE k

FilledIn(rows) == EachRow(rows, LAMBDA r : [r EXCEPT !.id = Filled(@)])

\* the last migration that the database went through
Applied == IF opening = "record" THEN version + 1 ELSE version

HasColumns(d) ==
  /\ d = [used |-> d.used, pending |-> d.pending, promise |-> d.promise, keysets |-> d.keysets,
          keysetsOld |-> d.keysetsOld, quotesNew |-> d.quotesNew, balance |-> d.balance,
          mint |-> d.mint, melt |-> d.melt, blanks |-> d.blanks, fails |-> d.fails]
  /\ d.mint = [paid |-> d.mint.paid, issued |-> d.mint.issued, state |-> d.mint.state]
  /\ d.melt = [paid |-> d.melt.paid, state |-> d.melt.state, outputs |-> d.melt.outputs]
IsDatabase(d) ==
  HasColumns(d) /\ d.used \in [Notes -> Row \cup {Null}] /\ d.promise \in [Notes -> {"b64", "hex", "null"}]

\* A spent note keeps its row, whose y is new from 16 on; from 26 on no row of it
\* or of a promise is without an id.
RowsAreKept(d, e) ==
  \A n \in Notes :
    /\ d.used[n] = Null <=> was.used[n] = Null
    /\ d.used[n] # Null =>
         /\ d.used[n].id \in {was.used[n].id, Filled(was.used[n].id)}
         /\ e >= 16 => d.used[n].y = "new"
         /\ e >= 26 => d.used[n].id = Filled(was.used[n].id)
    /\ d.promise[n] \in {was.promise[n], Filled(was.promise[n])}
    /\ e >= 26 => d.promise[n] = Filled(was.promise[n])

WasIssued == was.mint.issued \/ was.mint.state \in {"issued", "ISSUED"}

\* What was issued or paid is told by the flags before 20, and by the state then.
FlagsAreKept ==
  /\ WasIssued /\ version < 20 => db.mint.issued
  /\ was.melt.paid => db.melt.paid
StatesAreKept(d, e) ==
  /\ WasIssued /\ e >= 20 => d.mint.state \in {"issued", "ISSUED"}
  /\ WasIssued /\ e >= 22 => d.mint.state = "ISSUED"
  /\ was.melt.paid /\ e >= 20 => d.melt.state \in {"paid", "PAID"}
  /\ was.melt.paid /\ e >= 22 => d.melt.state = "PAID"

\* Unless the keysets were lost both ids are known from 18 on, and the balances are the view's from 27 on.
BalancesAreTheView(d, e) ==
  /\ keysetsTable = "whole" => d.keysets # {} /\ (e >= 18 => d.keysets = {"b64", "hex"})
  /\ e >= 27 => d.balance = [k \in d.keysets |-> View(d, k)]

Keeps(d, e) == RowsAreKept(d, e) /\ StatesAreKept(d, e) /\ BalancesAreTheView(d, e)

MigrationsIInv ==
  /\ version \in Nat /\ (opening = "up" => version = Latest)
  /\ IsDatabase(was) /\ IsDatabase(db) /\ FlagsAreKept /\ Keeps(db, Applied)

\* The columns of a database, and what a migration does to those the properties
\* are about.
Columns(us, pe, pr, ks, ko, qn, ba, bl, fa, mp, mi, ms, lp, ls, lo) ==
  [used |-> us, pending |-> pe, promise |-> pr, keysets |-> ks, keysetsOld |-> ko,
   quotesNew |-> qn, balance |-> ba, mint |-> [paid |-> mp, issued |-> mi, state |-> ms],
   melt |-> [paid |-> lp, state |-> ls, outputs |-> lo], blanks |-> bl, fails |-> fa]

Changes(v, d, m) ==
  /\ m.used = IF v \in {14, 16} THEN WithY(d.used, "new")
              ELSE IF v = 26 THEN FilledIn(d.used)
              ELSE d.used
  /\ m.promise = IF v = 26 THEN [n \in Notes |-> Filled(d.promise[n])] ELSE d.promise
  /\ m.keysets = IF v = 18 /\ d.keysets # {} THEN {"b64", "hex"} ELSE d.keysets
  /\ m.balance = IF v = 27 THEN [k \in d.keysets |-> View(d, k)] ELSE d.balance
  /\ m.mint.issued = IF v = 32 THEN FALSE ELSE d.mint.issued
  /\ v \notin {20, 22} => m.mint.state = d.mint.state /\ m.melt.state = d.melt.state
  /\ v = 20 => /\ d.mint.issued => m.mint.state = "issued"
               /\ d.melt.paid => m.melt.state = "paid"
  /\ v = 22 => m.mint.state = ValueOf(d.mint.state) /\ m.melt.state = ValueOf(d.melt.state)
  /\ m.melt.paid = d.melt.paid

LEMMA MigratedColumns ==
  ASSUME NEW v \in Nat, NEW d, HasColumns(d)
  PROVE  HasColumns(Migrated(v, d)) /\ Changes(v, d, Migrated(v, d))
<1> DEFINE m == Migrated(v, d)
<1>1. PICK us, pe, pr, ks, ko, qn, ba, bl, fa, mp, mi, ms, lp, ls, lo :
        d = Columns(us, pe, pr, ks, ko, qn, ba, bl, fa, mp, mi, ms, lp, ls, lo)
  BY DEF HasColumns, Columns
<1>11. CASE v = 11
  <2>1. m = m011(d)
    BY <1>11 DEF Migrated
  <2>2. m = Columns(us, pe, pr, ks, ko, qn, ba, bl, fa, FALSE, mi, ms, lp, ls, lo)
    <3>1. m = [d EXCEPT !.mint.paid = FALSE]
      BY <2>1 DEF m011
    <3> HIDE DEF m
    <3>2. QED
      BY <1>1, <3>1 DEF Columns
  <2>3. HasColumns(m)
    BY <2>2 DEF HasColumns, Columns
  <2>4. /\ m.used = d.used /\ m.promise = d.promise /\ m.keysets = d.keysets
        /\ m.balance = d.balance /\ m.mint.state = d.mint.state /\ m.melt.state = d.melt.state
        /\ m.melt.paid = d.melt.paid /\ m.mint.issued = d.mint.issued
    BY <1>1, <2>2 DEF Columns
  <2>5. v \notin {14, 16, 18, 20, 22, 26, 27, 32}
    BY <1>11
  <2> HIDE DEF m
  <2>6. Changes(v, d, m)
    BY <1>11, <2>4, <2>5 DEF Changes
  <2>7. QED
    BY <2>3, <2>6 DEF m
<1>12. CASE v \in {12, 13}
  <2>1. m = m012(d)
    BY <1>12 DEF Migrated, m013
  <2>2. m = Columns(us, pe, pr, ks, {}, qn, ba, bl, fa, mp, mi, ms, lp, ls, lo)
    BY <1>1, <2>1 DEF m012, Columns
  <2>3. HasColumns(m)
    BY <2>2 DEF HasColumns, Columns
  <2>4. /\ m.used = d.used /\ m.promise = d.promise /\ m.keysets = d.keysets
        /\ m.balance = d.balance /\ m.mint.state = d.mint.state /\ m.melt.state = d.melt.state
        /\ m.melt.paid = d.melt.paid /\ m.mint.issued = d.mint.issued
    BY <1>1, <2>2 DEF Columns
  <2>5. v \notin {14, 16, 18, 20, 22, 26, 27} /\ v # 32
    BY <1>12
  <2> HIDE DEF m
  <2>6. Changes(v, d, m)
    BY <1>12, <2>4, <2>5 DEF Changes
  <2>7. QED
    BY <2>3, <2>6 DEF m
<1>14. CASE v = 14
  <2>1. m = m014(d)
    BY <1>14 DEF Migrated
  <2>2. m = Columns(WithY(us, "new"), WithY(pe, "new"), pr, ks, ko, qn, ba, bl, fa, mp, mi, ms, lp, ls, lo)
    BY <1>1, <2>1 DEF m014, Columns
  <2>3. QED
    BY <1>1, <1>14, <2>2 DEF HasColumns, Changes, Columns
<1>16. CASE v = 16
  <2>1. m = m016(d)
    BY <1>16 DEF Migrated
  <2>2. m = Columns(WithY(us, "new"), pe, pr, ks, ko, qn, ba, bl, fa, mp, mi, ms, lp, ls, lo)
    BY <1>1, <2>1 DEF m016, Columns
  <2>3. QED
    BY <1>1, <1>16, <2>2 DEF HasColumns, Changes, Columns
<1>18. CASE v = 18
  <2>1. m = m018(d)
    BY <1>18 DEF Migrated
  <2>2. m = Columns(us, pe, pr, IF ks = {} THEN {} ELSE {"b64", "hex"}, ko, qn, ba, bl, fa, mp, mi, ms,
                    lp, ls, lo)
    BY <1>1, <2>1 DEF m018, Columns
  <2>3. QED
    BY <1>1, <1>18, <2>2 DEF HasColumns, Changes, Columns
<1>20. CASE v = 20
  <2>1. m = m020(d)
    BY <1>20 DEF Migrated
  <2>2. PICK ms2, ls2 :
          /\ m = Columns(us, pe, pr, ks, ko, qn, ba, bl, fa, mp, mi, ms2, lp, ls2, lo)
          /\ mi => ms2 = "issued"
          /\ lp => ls2 = "paid"
    <3> DEFINE x == IF d.mint.issued THEN "issued" ELSE IF d.mint.paid THEN "paid" ELSE "unpaid"
               y == IF d.melt.paid THEN "paid" ELSE "unpaid"
    <3>1. m = [d EXCEPT !.mint.state = x, !.melt.state = y]
      BY <2>1 DEF m020
    <3>2. (mi => x = "issued") /\ (lp => y = "paid")
      BY <1>1 DEF Columns
    <3> HIDE DEF x, y, m
    <3>3. m = Columns(us, pe, pr, ks, ko, qn, ba, bl, fa, mp, mi, x, lp, y, lo)
      BY <1>1, <3>1 DEF Columns
    <3>4. QED
      BY <3>2, <3>3
  <2>3. QED
    BY <1>1, <1>20, <2>2 DEF HasColumns, Changes, Columns
<1>22. CASE v = 22
  <2>1. m = m022(d)
    BY <1>22 DEF Migrated
  <2>2. m = Columns(us, pe, pr, ks, ko, qn, ba, bl, fa, mp, mi, ValueOf(ms), lp, ValueOf(ls), lo)
    <3> DEFINE x == ValueOf(d.mint.state)
               y == ValueOf(d.melt.state)
    <3>1. m = [d EXCEPT !.mint.state = x, !.melt.state = y]
      BY <2>1 DEF m022
    <3>2. x = ValueOf(ms) /\ y = ValueOf(ls)
      BY <1>1 DEF Columns
    <3> HIDE DEF x, y, m
    <3>3. m = Columns(us, pe, pr, ks, ko, qn, ba, bl, fa, mp, mi, x, lp, y, lo)
      BY <1>1, <3>1 DEF Columns
    <3>4. QED
      BY <3>2, <3>3
  <2>3. QED
    BY <1>1, <1>22, <2>2 DEF HasColumns, Changes, Columns
<1>26. CASE v = 26
  <2>1. m = m026(d)
    BY <1>26 DEF Migrated
  <2>2. m = Columns(FilledIn(us),
                    FilledIn(pe),
                    [k \in Notes |-> Filled(pr[k])], ks, ko, qn, ba, bl, fa, mp, mi, ms, lp, ls, lo)
    <3> DEFINE x == [n \in Notes |-> Filled(d.promise[n])]
               y == FilledIn(d.used)
               z == FilledIn(d.pending)
    <3>1. m = [d EXCEPT !.promise = x, !.used = y, !.pending = z]
      BY <2>1 DEF m026, FilledIn, Filled, EachRow
    <3>2. d.promise = pr /\ d.used = us /\ d.pending = pe
      BY <1>1 DEF Columns
    <3> HIDE DEF x, y, z, m
    <3>3. m = Columns(y, z, x, ks, ko, qn, ba, bl, fa, mp, mi, ms, lp, ls, lo)
      BY <1>1, <3>1 DEF Columns
    <3>4. QED
      BY <3>2, <3>3 DEF x, y, z
  <2>3. QED
    BY <1>1, <1>26, <2>2 DEF HasColumns, Changes, Columns
<1>27. CASE v = 27
  <2>1. m = m027(d)
    BY <1>27 DEF Migrated
  <2>2. m = Columns(us, pe, pr, ks, ko, qn, [k \in ks |-> View(d, k)], bl, fa, mp, mi, ms, lp, ls, lo)
    BY <1>1, <2>1 DEF m027, Columns
  <2>3. QED
    BY <1>1, <1>27, <2>2 DEF HasColumns, Changes, Columns
<1>28. CASE v = 28
  <2>1. m = m028(d)
    BY <1>28 DEF Migrated
  <2>2. PICK bl2 : m = Columns(us, pe, pr, ks, ko, qn, ba, bl2, fa, mp, mi, ms, lp, ls, Null)
    BY <1>1, <2>1 DEF m028, Columns
  <2>3. QED
    BY <1>1, <1>28, <2>2 DEF HasColumns, Changes, Columns
<1>32. CASE v = 32
  <2>1. m = m032(d)
    BY <1>32 DEF Migrated
  <2>2. m = Columns(us, pe, pr, ks, ko, qn, ba, bl, fa, FALSE, FALSE, ms, lp, ls, lo)
    BY <1>1, <2>1 DEF m032, Columns
  <2>3. HasColumns(m)
    BY <2>2 DEF HasColumns, Columns
  <2>4. /\ m.used = d.used /\ m.promise = d.promise /\ m.keysets = d.keysets
        /\ m.balance = d.balance /\ m.mint.state = d.mint.state /\ m.melt.state = d.melt.state
        /\ m.melt.paid = d.melt.paid /\ m.mint.issued = FALSE
    BY <1>1, <2>2 DEF Columns
  <2>5. v \notin {14, 16, 18, 20, 22, 26, 27}
    BY <1>32
  <2> HIDE DEF m
  <2>6. Changes(v, d, m)
    BY <1>32, <2>4, <2>5 DEF Changes
  <2>7. QED
    BY <2>3, <2>6 DEF m
<1>33. CASE v \notin {11, 12, 13, 14, 16, 18, 20, 22, 26, 27, 28, 32}
  <2>1. m = d
    BY <1>33 DEF Migrated
  <2>2. QED
    BY <1>1, <1>33, <2>1 DEF HasColumns, Changes, Columns
<1>34. QED
  BY <1>11, <1>12, <1>14, <1>16, <1>18, <1>20, <1>22, <1>26, <1>27, <1>28, <1>32, <1>33

\* What holds after a migration held before it, too.
LEMMA EarlierIsKept ==
  ASSUME NEW d, NEW e \in Nat, NEW f \in Nat, f <= e, Keeps(d, e)
  PROVE  Keeps(d, f)
BY DEF Keeps, RowsAreKept, StatesAreKept, BalancesAreTheView

\* A row whose column is set is a row.
LEMMA RowsStayRows ==
  ASSUME NEW rows \in [Notes -> Row \cup {Null}]
  PROVE  /\ WithY(rows, "new") \in [Notes -> Row \cup {Null}]
         /\ FilledIn(rows) \in [Notes -> Row \cup {Null}]
         /\ \A n \in Notes :
              /\ rows[n] = Null => WithY(rows, "new")[n] = Null /\ FilledIn(rows)[n] = Null
              /\ rows[n] # Null =>
                   /\ WithY(rows, "new")[n] # Null /\ FilledIn(rows)[n] # Null
                   /\ WithY(rows, "new")[n].y = "new" /\ WithY(rows, "new")[n].id = rows[n].id
                   /\ FilledIn(rows)[n].y = rows[n].y /\ FilledIn(rows)[n].id = Filled(rows[n].id)
<1>1. WithY(rows, "new") = [n \in Notes |-> IF rows[n] = Null THEN Null ELSE [rows[n] EXCEPT !.y = "new"]]
  BY DEF WithY, EachRow
<1>2. FilledIn(rows) = [n \in Notes |-> IF rows[n] = Null THEN Null
                                        ELSE [rows[n] EXCEPT !.id = Filled(rows[n].id)]]
  BY DEF FilledIn, EachRow
<1>3. ASSUME NEW n \in Notes, rows[n] # Null
      PROVE  /\ [rows[n] EXCEPT !.y = "new"] \in Row
             /\ [rows[n] EXCEPT !.y = "new"].y = "new" /\ [rows[n] EXCEPT !.y = "new"].id = rows[n].id
             /\ [rows[n] EXCEPT !.id = Filled(rows[n].id)] \in Row
             /\ [rows[n] EXCEPT !.id = Filled(rows[n].id)].y = rows[n].y
             /\ [rows[n] EXCEPT !.id = Filled(rows[n].id)].id = Filled(rows[n].id)
  <2>1. rows[n] \in Row
    BY <1>3
  <2>2. QED
    BY <2>1 DEF Row, Filled
<1>4. Null \notin Row
  BY MigrationsAssumption
<1>5. ASSUME NEW n \in Notes
      PROVE  /\ WithY(rows, "new")[n] \in Row \cup {Null} /\ FilledIn(rows)[n] \in Row \cup {Null}
             /\ rows[n] = Null => WithY(rows, "new")[n] = Null /\ FilledIn(rows)[n] = Null
             /\ rows[n] # Null =>
                  /\ WithY(rows, "new")[n] # Null /\ FilledIn(rows)[n] # Null
                  /\ WithY(rows, "new")[n].y = "new" /\ WithY(rows, "new")[n].id = rows[n].id
                  /\ FilledIn(rows)[n].y = rows[n].y /\ FilledIn(rows)[n].id = Filled(rows[n].id)
  <2>1. CASE rows[n] = Null
    BY <1>1, <1>2, <2>1
  <2>2. CASE rows[n] # Null
    <3>1. /\ WithY(rows, "new")[n] = [rows[n] EXCEPT !.y = "new"]
          /\ FilledIn(rows)[n] = [rows[n] EXCEPT !.id = Filled(rows[n].id)]
      BY <1>1, <1>2, <2>2
    <3>2. WithY(rows, "new")[n] # Null /\ FilledIn(rows)[n] # Null
      BY <1>3, <1>4, <2>2, <3>1
    <3>3. QED
      BY <1>3, <2>2, <3>1, <3>2
  <2>3. QED
    BY <2>1, <2>2
<1>6. QED
  BY <1>1, <1>2, <1>5

\* Every migration keeps what the mint owes.
LEMMA MigrationKeeps ==
  ASSUME NEW e \in Nat, IsDatabase(db), FlagsAreKept, version = e, Keeps(db, e)
  PROVE  LET m == Migrated(e + 1, db) IN
         /\ IsDatabase(m) /\ Keeps(m, e + 1)
         /\ WasIssued /\ version < 20 => m.mint.issued
         /\ was.melt.paid => m.melt.paid
<1> DEFINE v == e + 1
           m == Migrated(v, db)
<1>1. v \in Nat /\ HasColumns(m) /\ Changes(v, db, m)
  BY MigratedColumns DEF IsDatabase
<1> HIDE DEF m
<1>2. IsDatabase(m)
  <2>1. m.used \in [Notes -> Row \cup {Null}]
    BY <1>1, RowsStayRows DEF Changes, IsDatabase
  <2>2. m.promise \in [Notes -> {"b64", "hex", "null"}]
    BY <1>1 DEF Changes, IsDatabase, Filled
  <2>3. QED
    BY <1>1, <2>1, <2>2 DEF IsDatabase
<1>3. RowsAreKept(m, v)
  <2> SUFFICES ASSUME NEW n \in Notes
               PROVE  /\ m.used[n] = Null <=> was.used[n] = Null
                      /\ m.used[n] # Null =>
                           /\ m.used[n].id \in {was.used[n].id, Filled(was.used[n].id)}
                           /\ v >= 16 => m.used[n].y = "new"
                           /\ v >= 26 => m.used[n].id = Filled(was.used[n].id)
                      /\ m.promise[n] \in {was.promise[n], Filled(was.promise[n])}
                      /\ v >= 26 => m.promise[n] = Filled(was.promise[n])
    BY DEF RowsAreKept
  <2>1. /\ db.used[n] = Null <=> was.used[n] = Null
        /\ db.used[n] # Null =>
             /\ db.used[n].id \in {was.used[n].id, Filled(was.used[n].id)}
             /\ e >= 16 => db.used[n].y = "new"
             /\ e >= 26 => db.used[n].id = Filled(was.used[n].id)
        /\ db.promise[n] \in {was.promise[n], Filled(was.promise[n])}
        /\ e >= 26 => db.promise[n] = Filled(was.promise[n])
    BY DEF Keeps, RowsAreKept
  <2>2. \A k : Filled(Filled(k)) = Filled(k)
    BY DEF Filled
  <2>3. CASE v \in {14, 16}
    <3>1. m.used = WithY(db.used, "new") /\ m.promise = db.promise
      BY <1>1, <2>3 DEF Changes
    <3>2. QED
      BY <2>1, <2>3, <3>1, RowsStayRows DEF IsDatabase
  <2>4. CASE v = 26
    <3>1. m.used = FilledIn(db.used) /\ m.promise = [k \in Notes |-> Filled(db.promise[k])]
      BY <1>1, <2>4 DEF Changes
    <3>2. m.promise[n] = Filled(was.promise[n])
      BY <2>1, <2>2, <3>1
    <3>3. QED
      BY <2>1, <2>2, <2>4, <3>1, <3>2, RowsStayRows DEF IsDatabase
  <2>5. CASE v \notin {14, 16, 26}
    <3>1. m.used = db.used /\ m.promise = db.promise
      BY <1>1, <2>5 DEF Changes
    <3>2. (v >= 16 <=> e >= 16) /\ (v >= 26 <=> e >= 26)
      BY <2>5
    <3>3. QED
      BY <2>1, <3>1, <3>2
  <2>6. QED
    BY <2>3, <2>4, <2>5
<1>4. StatesAreKept(m, v)
  <2>1. StatesAreKept(db, e)
    BY DEF Keeps
  <2>2. CASE v \notin {20, 22}
    <3>1. m.mint.state = db.mint.state /\ m.melt.state = db.melt.state
      BY <1>1, <2>2 DEF Changes
    <3>2. (v >= 20 <=> e >= 20) /\ (v >= 22 <=> e >= 22)
      BY <2>2
    <3>3. QED
      BY <2>1, <3>1, <3>2 DEF StatesAreKept
  <2>3. CASE v = 20
    <3>1. /\ db.mint.issued => m.mint.state = "issued"
          /\ db.melt.paid => m.melt.state = "paid"
      BY <1>1, <2>3 DEF Changes
    <3>2. ~(v >= 22) /\ version < 20
      BY <2>3
    <3>3. QED
      BY <3>1, <3>2 DEF StatesAreKept, FlagsAreKept
  <2>4. CASE v = 22
    <3>1. m.mint.state = ValueOf(db.mint.state) /\ m.melt.state = ValueOf(db.melt.state)
      BY <1>1, <2>4 DEF Changes
    <3>2. e >= 20
      BY <2>4
    <3>3. /\ ValueOf("issued") = "ISSUED" /\ ValueOf("ISSUED") = "ISSUED"
          /\ ValueOf("paid") = "PAID" /\ ValueOf("PAID") = "PAID"
      BY DEF ValueOf
    <3>4. QED
      BY <2>1, <3>1, <3>2, <3>3 DEF StatesAreKept
  <2>5. QED
    BY <2>2, <2>3, <2>4
<1>5. BalancesAreTheView(m, v)
  <2>1. keysetsTable = "whole" => m.keysets # {} /\ (v >= 18 => m.keysets = {"b64", "hex"})
    <3>1. m.keysets = IF v = 18 /\ db.keysets # {} THEN {"b64", "hex"} ELSE db.keysets
      BY <1>1 DEF Changes
    <3>2. keysetsTable = "whole" => db.keysets # {} /\ (e >= 18 => db.keysets = {"b64", "hex"})
      BY DEF Keeps, BalancesAreTheView
    <3>3. v >= 18 => v = 18 \/ e >= 18
      OBVIOUS
    <3>4. QED
      BY <3>1, <3>2, <3>3
  <2>2. ASSUME v >= 27
        PROVE  m.balance = [k \in m.keysets |-> View(m, k)]
    <3>1. m.used = db.used /\ m.promise = db.promise /\ m.keysets = db.keysets
      BY <1>1, <2>2 DEF Changes
    <3>2. \A k : View(m, k) = View(db, k)
      BY <3>1 DEF View, Redeemed, Present
    <3>3. m.balance = IF v = 27 THEN [k \in db.keysets |-> View(db, k)] ELSE db.balance
      BY <1>1 DEF Changes
    <3>4. v = 27 \/ e >= 27
      BY <2>2
    <3>5. m.balance = [k \in db.keysets |-> View(db, k)]
      BY <3>3, <3>4 DEF Keeps, BalancesAreTheView
    <3>6. QED
      BY <3>1, <3>2, <3>5
  <2>3. QED
    BY <2>1, <2>2 DEF BalancesAreTheView
<1>6. /\ WasIssued /\ version < 20 => m.mint.issued
      /\ was.melt.paid => m.melt.paid
  BY <1>1 DEF Changes, FlagsAreKept
<1>7. QED
  BY <1>2, <1>3, <1>4, <1>5, <1>6 DEF Keeps, m

\* The first tables are as an old version left them.
LEMMA MigrationsStart == MigrationsInit => MigrationsIInv
<1> SUFFICES ASSUME MigrationsInit PROVE MigrationsIInv
  OBVIOUS
<1>1. /\ version \in 10 .. 26 /\ db \in OldDatabase(version) /\ was = db /\ opening = "down" /\ keysetsTable = "whole"
  BY MigrationsAssumption DEF MigrationsInit
<1> DEFINE v == version
<1>2. PICK ks, rows, promise, mint, melt :
        /\ ks \in IF v >= 18 THEN {{"b64", "hex"}} ELSE {{"b64"}, {"hex"}}
        /\ rows \in RowsOf(v, ks \cup (IF v < 26 THEN {"null"} ELSE {}))
        /\ promise \in [Notes -> ks \cup (IF v < 26 THEN {"null"} ELSE {})]
        /\ mint \in MintQuotesOf(v) /\ melt \in MeltQuotesOf(v)
        /\ db = [used |-> [n \in Notes |-> rows[n][1]], pending |-> [n \in Notes |-> rows[n][2]],
                 promise |-> promise, keysets |-> ks, keysetsOld |-> {}, quotesNew |-> FALSE,
                 balance |-> [k \in ks |-> 0], mint |-> mint, melt |-> melt, blanks |-> {}, fails |-> FALSE]
  <2> DEFINE Ids(ks) == ks \cup (IF v < 26 THEN {"null"} ELSE {})
             Database(ks, rows, promise, mint, melt) ==
               [used |-> [n \in Notes |-> rows[n][1]], pending |-> [n \in Notes |-> rows[n][2]],
                promise |-> promise, keysets |-> ks, keysetsOld |-> {}, quotesNew |-> FALSE,
                balance |-> [k \in ks |-> 0], mint |-> mint, melt |-> melt, blanks |-> {}, fails |-> FALSE]
             Old(ks) == {Database(ks, rows, promise, mint, melt) :
                           rows \in RowsOf(v, Ids(ks)), promise \in [Notes -> Ids(ks)],
                           mint \in MintQuotesOf(v), melt \in MeltQuotesOf(v)}
  <2>1. OldDatabase(v) = UNION {Old(ks) : ks \in IF v >= 18 THEN {{"b64", "hex"}} ELSE {{"b64"}, {"hex"}}}
    BY DEF OldDatabase
  <2> HIDE DEF Old
  <2>2. PICK ks \in IF v >= 18 THEN {{"b64", "hex"}} ELSE {{"b64"}, {"hex"}} : db \in Old(ks)
    BY <1>1, <2>1
  <2> HIDE DEF Database
  <2>3. PICK rows \in RowsOf(v, Ids(ks)), promise \in [Notes -> Ids(ks)],
             mint \in MintQuotesOf(v), melt \in MeltQuotesOf(v) :
               db = Database(ks, rows, promise, mint, melt)
    BY <2>2 DEF Old
  <2>4. QED
    BY <2>2, <2>3 DEF Database
<1>3. ks \subseteq {"b64", "hex"} /\ ks # {} /\ (v >= 18 => ks = {"b64", "hex"})
  BY <1>2
<1>4. /\ mint = [paid |-> mint.paid, issued |-> mint.issued, state |-> mint.state]
      /\ v < 20 => mint.state = Null
      /\ v >= 20 => /\ mint.issued => mint.state \in {"issued", "ISSUED"}
                    /\ mint.state \in {"issued", "ISSUED"} => mint.issued
      /\ v >= 22 => (mint.issued => mint.state = "ISSUED")
  BY <1>1, <1>2 DEF MintQuotesOf, ValueOf
<1>5. /\ melt = [paid |-> melt.paid, state |-> melt.state, outputs |-> melt.outputs]
      /\ v >= 20 => (melt.paid => melt.state \in {"paid", "PAID"})
      /\ v >= 22 => (melt.paid => melt.state = "PAID")
  BY <1>1, <1>2 DEF MeltQuotesOf, ValueOf
<1> DEFINE y == IF v < 14 THEN "none" ELSE IF v < 16 THEN "old" ELSE "new"
           ids == ks \cup (IF v < 26 THEN {"null"} ELSE {})
<1>6. \A n \in Notes : rows[n][1] \in {Null} \cup {[y |-> y, id |-> k] : k \in ids}
  BY <1>1, <1>2 DEF RowsOf
<1>7. ids \subseteq {"b64", "hex", "null"} /\ (v >= 26 => ids = {"b64", "hex"})
  BY <1>1, <1>3
<1> HIDE DEF ids
<1>8. IsDatabase(db)
  <2>1. HasColumns(db)
    BY <1>2, <1>4, <1>5 DEF HasColumns
  <2>2. db.used \in [Notes -> Row \cup {Null}]
    BY <1>2, <1>6, <1>7 DEF Row
  <2>3. db.promise \in [Notes -> {"b64", "hex", "null"}]
    BY <1>2, <1>7 DEF ids
  <2>4. QED
    BY <2>1, <2>2, <2>3 DEF IsDatabase
<1>9. RowsAreKept(db, v)
  <2>1. ASSUME NEW n \in Notes
        PROVE  /\ db.used[n] # Null =>
                    /\ v >= 16 => db.used[n].y = "new"
                    /\ v >= 26 => db.used[n].id \in {"b64", "hex"}
               /\ v >= 26 => db.promise[n] \in {"b64", "hex"}
    <3>1. db.used[n] = rows[n][1] /\ db.promise[n] \in ids
      BY <1>2 DEF ids
    <3>2. db.used[n] # Null => \E k \in ids : db.used[n] = [y |-> y, id |-> k]
      BY <1>6, <3>1
    <3>3. v >= 16 => y = "new"
      BY <1>1
    <3> HIDE DEF y
    <3>4. ASSUME db.used[n] # Null
          PROVE  db.used[n].y = y /\ db.used[n].id \in ids
      <4>1. PICK k \in ids : db.used[n] = [y |-> y, id |-> k]
        BY <3>2, <3>4
      <4>2. QED
        BY <4>1
    <3>5. QED
      BY <1>7, <3>1, <3>3, <3>4
  <2>2. QED
    BY <1>1, <2>1 DEF RowsAreKept, Filled
<1>10. FlagsAreKept /\ StatesAreKept(db, v)
  <2>1. db.mint = mint /\ db.melt = melt
    BY <1>2
  <2>2. QED
    BY <1>1, <1>4, <1>5, <2>1, MigrationsAssumption DEF FlagsAreKept, StatesAreKept, WasIssued
<1>11. BalancesAreTheView(db, v)
  BY <1>1, <1>2, <1>3 DEF BalancesAreTheView
<1>12. QED
  BY <1>1, <1>8, <1>9, <1>10, <1>11 DEF MigrationsIInv, Keeps, Applied, Latest

\* Every step of the start.
LEMMA UpgradeKeeps ==
  ASSUME MigrationsIInv, [MigrationsNext]_migrationVars
  PROVE  MigrationsIInv'
<1> USE DEF MigrationsIInv
<1>1. CASE OpenDatabase \/ Record \/ Die \/ UNCHANGED migrationVars
  <2>1. UNCHANGED <<db, was, keysetsTable>> /\ version' \in Nat /\ (opening' = "up" => version' = Latest)
    BY <1>1 DEF OpenDatabase, Record, Die, migrationVars, Latest
  <2>2. Applied' \in Nat /\ Applied \in Nat /\ Applied' <= Applied /\ version <= version'
    BY <1>1 DEF OpenDatabase, Record, Die, migrationVars, Applied
  <2>3. Keeps(db, Applied')
    BY <2>2, EarlierIsKept
  <2>4. Keeps(db, Applied)'
    BY <2>1, <2>3 DEF Keeps, RowsAreKept, StatesAreKept, BalancesAreTheView, WasIssued
  <2>5. FlagsAreKept'
    BY <2>1, <2>2 DEF FlagsAreKept, WasIssued
  <2>6. QED
    BY <2>1, <2>4, <2>5 DEF IsDatabase, HasColumns
<1>2. CASE Migrate /\ ~Raises(version + 1)
  <2>1. /\ opening = "migrate" /\ opening' = "record" /\ UNCHANGED <<was, version, keysetsTable>>
        /\ db' = Migrated(version + 1, db)
    BY <1>2 DEF Migrate
  <2>2. Applied = version /\ Applied' = version + 1
    BY <2>1 DEF Applied
  <2>3. LET m == Migrated(version + 1, db) IN
         /\ IsDatabase(m) /\ Keeps(m, version + 1)
         /\ WasIssued /\ version < 20 => m.mint.issued
         /\ was.melt.paid => m.melt.paid
    BY <2>2, MigrationKeeps
  <2>4. FlagsAreKept'
    BY <2>1, <2>3 DEF FlagsAreKept, WasIssued
  <2>5. Keeps(db', Applied')
    BY <2>1, <2>2, <2>3
  <2>6. Keeps(db, Applied)'
    BY <2>1, <2>5 DEF Keeps, RowsAreKept, StatesAreKept, BalancesAreTheView, WasIssued
  <2>7. IsDatabase(db)' /\ IsDatabase(was)'
    BY <2>1, <2>3 DEF IsDatabase, HasColumns
  <2>8. QED
    BY <2>1, <2>4, <2>6, <2>7
<1>3. CASE (Migrate /\ Raises(version + 1)) \/ DieAfterDdl
  <2>1. /\ opening = "migrate" /\ opening' \in {"stuck", "down"} /\ UNCHANGED <<was, version>>
        /\ \/ /\ UNCHANGED keysetsTable
              /\ \/ db' = db
                 \/ \E ko2 : db' = [db EXCEPT !.keysetsOld = ko2]
                 \/ db' = [db EXCEPT !.quotesNew = TRUE]
           \/ /\ version + 1 \in {12, 13} /\ keysetsTable' # "whole"
              /\ db' = [db EXCEPT !.keysetsOld = db.keysets, !.keysets = {}]
    BY <1>3 DEF Migrate, DieAfterDdl
  <2>2. Applied = version /\ Applied' = version
    BY <2>1 DEF Applied
  <2>3. /\ HasColumns(db') /\ db'.used = db.used /\ db'.promise = db.promise
        /\ db'.mint = db.mint /\ db'.melt = db.melt /\ db'.balance = db.balance
        /\ version >= 18 => db'.keysets = db.keysets
        /\ keysetsTable' = "whole" => keysetsTable = "whole" /\ db'.keysets = db.keysets
    <3>1. PICK us, pe, pr, ks, ko, qn, ba, bl, fa, mp, mi, ms, lp, ls, lo :
            db = Columns(us, pe, pr, ks, ko, qn, ba, bl, fa, mp, mi, ms, lp, ls, lo)
      BY DEF IsDatabase, HasColumns, Columns
    <3>2. PICK ks2, ko2, qn2 :
            /\ db' = Columns(us, pe, pr, ks2, ko2, qn2, ba, bl, fa, mp, mi, ms, lp, ls, lo)
            /\ version >= 18 => ks2 = ks
            /\ keysetsTable' = "whole" => keysetsTable = "whole" /\ ks2 = ks
      <4>1. CASE UNCHANGED keysetsTable /\ db' = db
        BY <3>1, <4>1
      <4>2. CASE UNCHANGED keysetsTable /\ \E ko2 : db' = [db EXCEPT !.keysetsOld = ko2]
        <5>1. PICK ko2 : db' = [db EXCEPT !.keysetsOld = ko2]
          BY <4>2
        <5>2. db' = Columns(us, pe, pr, ks, ko2, qn, ba, bl, fa, mp, mi, ms, lp, ls, lo)
          BY <3>1, <5>1 DEF Columns
        <5>3. QED
          BY <4>2, <5>2
      <4>3. CASE /\ version + 1 \in {12, 13} /\ keysetsTable' # "whole"
                 /\ db' = [db EXCEPT !.keysetsOld = db.keysets, !.keysets = {}]
        <5>1. db' = Columns(us, pe, pr, {}, ks, qn, ba, bl, fa, mp, mi, ms, lp, ls, lo)
          BY <3>1, <4>3 DEF Columns
        <5>2. ~(version >= 18)
          BY <4>3
        <5>3. QED
          BY <4>3, <5>1, <5>2
      <4>4. CASE UNCHANGED keysetsTable /\ db' = [db EXCEPT !.quotesNew = TRUE]
        <5>1. db' = Columns(us, pe, pr, ks, ko, TRUE, ba, bl, fa, mp, mi, ms, lp, ls, lo)
          BY <3>1, <4>4 DEF Columns
        <5>2. QED
          BY <4>4, <5>1
      <4>5. QED
        BY <2>1, <4>1, <4>2, <4>3, <4>4
    <3>3. QED
      BY <3>1, <3>2 DEF Columns, HasColumns
  <2>4. \A k : View(db', k) = View(db, k)
    BY <2>3 DEF View, Redeemed, Present
  <2>5. Keeps(db, Applied)'
    <3>1. RowsAreKept(db, Applied)'
      BY <2>1, <2>2, <2>3 DEF Keeps, RowsAreKept
    <3>2. StatesAreKept(db, Applied)'
      BY <2>1, <2>2, <2>3 DEF Keeps, StatesAreKept, WasIssued
    <3>3. /\ keysetsTable' = "whole" =>
               db'.keysets # {} /\ (version >= 18 => db'.keysets = {"b64", "hex"})
          /\ version >= 27 => db'.balance = [k \in db'.keysets |-> View(db', k)]
      BY <2>2, <2>3, <2>4 DEF Keeps, BalancesAreTheView
    <3>4. BalancesAreTheView(db, Applied)'
      BY <2>2, <3>3 DEF BalancesAreTheView
    <3>5. QED
      BY <3>1, <3>2, <3>4 DEF Keeps
  <2>6. FlagsAreKept'
    BY <2>1, <2>3 DEF FlagsAreKept, WasIssued
  <2>7. IsDatabase(db)' /\ IsDatabase(was)'
    BY <2>1, <2>3 DEF IsDatabase, HasColumns
  <2>8. QED
    BY <2>1, <2>5, <2>6, <2>7
<1>4. QED
  BY <1>1, <1>2, <1>3 DEF MigrationsNext

\* The sum of the view over both ids, if no id has spent notes and no promise.
LEMMA ViewAddsUp ==
  ASSUME NEW d, IsDatabase(d),
         \A n \in Notes : d.promise[n] \in {"b64", "hex"} /\ (d.used[n] # Null => d.used[n].id \in {"b64", "hex"}),
         \A n \in Present(d.used) : \E p \in Notes : d.promise[p] = d.used[n].id
  PROVE  View(d, "b64") + View(d, "hex") = Cardinality(Notes) - Cardinality(Present(d.used))
<1> DEFINE Issued(k) == {n \in Notes : d.promise[n] = k}
           Spent(k) == {n \in Present(d.used) : d.used[n].id = k}
<1>1. Present(d.used) \subseteq Notes
  BY DEF Present
<1>2. \A S \in SUBSET Notes : IsFiniteSet(S) /\ Cardinality(S) \in Nat
  BY FS_Subset, FS_CardinalityType, MigrationsAssumption
<1>3. ASSUME NEW k
      PROVE  View(d, k) = Cardinality(Issued(k)) - Cardinality(Spent(k))
  <2>1. Issued(k) \in SUBSET Notes /\ Spent(k) \in SUBSET Notes
    BY <1>1
  <2>2. Issued(k) = {} => Spent(k) = {}
    BY <1>1
  <2>3. Cardinality(Issued(k)) = 0 <=> Issued(k) = {}
    BY <1>2, <2>1, FS_EmptySet
  <2>4. Cardinality({}) = 0
    BY FS_EmptySet
  <2>5. View(d, k) = IF Cardinality(Issued(k)) > 0 THEN Cardinality(Issued(k)) - Cardinality(Spent(k)) ELSE 0
    BY DEF View, Redeemed
  <2> HIDE DEF Issued, Spent
  <2>6. QED
    BY <1>2, <2>1, <2>2, <2>3, <2>4, <2>5
<1>4. ASSUME NEW S \in SUBSET Notes, NEW T \in SUBSET Notes, S \cap T = {}
      PROVE  Cardinality(S \cup T) = Cardinality(S) + Cardinality(T)
  <2>1. Cardinality(S \cup T) = Cardinality(S) + Cardinality(T) - Cardinality(S \cap T)
    BY <1>2, FS_Union
  <2>2. Cardinality(S \cap T) = 0
    BY <1>4, FS_EmptySet
  <2>3. QED
    BY <1>2, <2>1, <2>2
<1>5. Cardinality(Notes) = Cardinality(Issued("b64")) + Cardinality(Issued("hex"))
  <2>1. Issued("b64") \cup Issued("hex") = Notes /\ Issued("b64") \cap Issued("hex") = {}
    OBVIOUS
  <2>2. QED
    BY <1>4, <2>1
<1>6. Cardinality(Present(d.used)) = Cardinality(Spent("b64")) + Cardinality(Spent("hex"))
  <2>1. Spent("b64") \cup Spent("hex") = Present(d.used) /\ Spent("b64") \cap Spent("hex") = {}
    BY <1>1 DEF Present
  <2>2. Spent("b64") \in SUBSET Notes /\ Spent("hex") \in SUBSET Notes
    BY <1>1
  <2>3. QED
    BY <1>4, <2>1, <2>2
<1>7. /\ Issued("b64") \in SUBSET Notes /\ Issued("hex") \in SUBSET Notes
      /\ Spent("b64") \in SUBSET Notes /\ Spent("hex") \in SUBSET Notes
  BY <1>1
<1> HIDE DEF Issued, Spent
<1>8. QED
  BY <1>2, <1>3, <1>5, <1>6, <1>7

\* The inductive invariant of an upgrade: at each version the rows, the states
\* and the balances are what the migrations so far have made of the first ones.
THEOREM MigrationsInvariant == MigrationsSpec => []MigrationsIInv
BY MigrationsStart, UpgradeKeeps, PTL DEF MigrationsSpec

\* An upgrade keeps what the mint owes, from any of the versions, for any number
\* of notes and wherever the process dies: spent notes are found spent, and issued
\* and paid quotes stay so.  The keysets are there, and the balances are what was
\* issued less what was spent, unless the process died where the new table of
\* keysets was empty.
THEOREM UpgradesLoseNothing == MigrationsSpec => []UpgradeLosesNothing
<1>1. MigrationsIInv => UpgradeLosesNothing
  <2> SUFFICES ASSUME MigrationsIInv, opening = "up"
               PROVE  /\ \A n \in Present(was.used) : db.used[n] # Null /\ db.used[n].y = "new"
                      /\ was.mint.issued \/ was.mint.state \in {"issued", "ISSUED"} => db.mint.state = "ISSUED"
                      /\ was.melt.paid => db.melt.state = "PAID"
                      /\ keysetsTable = "whole" => db.keysets = {"b64", "hex"}
                      /\ /\ keysetsTable = "whole"
                         /\ \A n \in Present(was.used) : \E p \in Notes : was.promise[p] = was.used[n].id
                         => LET of(k) == IF k \in db.keysets THEN db.balance[k] ELSE 0
                            IN of("b64") + of("hex") = Cardinality(Notes) - Cardinality(Present(was.used))
    BY DEF UpgradeLosesNothing
  <2>1. RowsAreKept(db, 32) /\ StatesAreKept(db, 32) /\ BalancesAreTheView(db, 32)
    BY DEF MigrationsIInv, Applied, Latest, Keeps
  <2>2. \A n \in Present(was.used) : db.used[n] # Null /\ db.used[n].y = "new"
    BY <2>1 DEF RowsAreKept, Present
  <2>3. /\ WasIssued => db.mint.state = "ISSUED"
        /\ was.melt.paid => db.melt.state = "PAID"
    BY <2>1 DEF StatesAreKept
  <2>4. ASSUME keysetsTable = "whole",
               \A n \in Present(was.used) : \E p \in Notes : was.promise[p] = was.used[n].id
        PROVE  LET of(k) == IF k \in db.keysets THEN db.balance[k] ELSE 0
               IN of("b64") + of("hex") = Cardinality(Notes) - Cardinality(Present(was.used))
    <3>1. Present(db.used) = Present(was.used)
      BY <2>1 DEF RowsAreKept, Present
    <3>2. \A n \in Notes :
            /\ db.promise[n] = Filled(was.promise[n])
            /\ db.used[n] # Null => db.used[n].id = Filled(was.used[n].id)
      BY <2>1 DEF RowsAreKept
    <3>3. \A n \in Present(db.used) : \E p \in Notes : db.promise[p] = db.used[n].id
      BY <2>4, <3>1, <3>2 DEF Present
    <3>4. \A n \in Notes : /\ was.promise[n] \in {"b64", "hex", "null"}
                           /\ was.used[n] # Null => was.used[n].id \in {"b64", "hex", "null"}
      BY DEF MigrationsIInv, IsDatabase, Row
    <3>5. \A n \in Notes : /\ db.promise[n] \in {"b64", "hex"}
                           /\ db.used[n] # Null => db.used[n].id \in {"b64", "hex"}
      BY <2>1, <3>2, <3>4 DEF Filled, RowsAreKept
    <3>6. IsDatabase(db)
      BY DEF MigrationsIInv
    <3>7. View(db, "b64") + View(db, "hex") = Cardinality(Notes) - Cardinality(Present(db.used))
      BY <3>3, <3>5, <3>6, ViewAddsUp
    <3>8. db.keysets = {"b64", "hex"} /\ db.balance = [k \in db.keysets |-> View(db, k)]
      BY <2>1, <2>4 DEF BalancesAreTheView
    <3>9. QED
      BY <3>1, <3>7, <3>8
  <2>5. keysetsTable = "whole" => db.keysets = {"b64", "hex"}
    BY <2>1 DEF BalancesAreTheView
  <2>6. QED
    BY <2>2, <2>3, <2>4, <2>5 DEF WasIssued
<1>2. QED
  BY <1>1, MigrationsInvariant, PTL
=============================================================================
