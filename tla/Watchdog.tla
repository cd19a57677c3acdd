------------------------------ MODULE Watchdog ------------------------------
(* The watchdog of a unit: from time to time it reads the balance of the     *)
(* node and then what the mint owes, and compares both with what it found    *)
(* the last time, while invoices are paid, ecash is issued and melts run.    *)
(* Money may leave the node on other ways.                                   *)
EXTENDS Integers

CONSTANTS Margin,       \* what the node has beyond what the mint owes, at first
          Owed,         \* what the mint owes at first
          FlightMax,    \* bound: what is in flight at a time
          MovesMax,     \* bound: how often money starts to move
          LateMax,      \* bound: how often the balance moves during one check
          LeakMax,      \* bound: what leaves the node otherwise
          NoEntry

ASSUME WatchdogAssumption ==
    Margin \in Nat /\ Owed \in Nat /\ FlightMax \in Nat
    /\ MovesMax \in Nat /\ LateMax \in Nat /\ LeakMax \in Nat

\* what a check has read, and where it is; leaked and late are history: what
\* had leaked when the node was read, and the moves of the balance since
Checks == [step : {"asleep", "status", "read", "dead"},
           node : Int, ecash : Int, fees : Int, leaked : Int, late : Int]
ASSUME NoEntryAssumption == NoEntry \notin Checks

VARIABLES
    node,        \* the balance of the backend
    ecash, fees, \* keysets.balance and keysets.fees_paid of the unit
    paidIn,      \* of paid invoices for which nothing has been issued yet
    held,        \* of melts whose proofs are pending and which have not been paid
    leaked,      \* what has left the node otherwise
    moves,       \* how often money has started to move
    watch,       \* the step of dispatch_backend_checker, with what it has read
    entry,       \* the last row of balance_log
    leakedAt,    \* what had leaked when the node was read for the first entry,
                 \* and for the last
    alarms       \* whether the watchdog has put something into the abort queue

moneyVars == <<node, ecash, fees, paidIn, held, leaked, moves>>
watchVars == <<watch, entry, leakedAt, alarms>>
watchdogVars == <<moneyVars, watchVars>>

Cleared(step) == [step |-> step, node |-> 0, ecash |-> 0, fees |-> 0, leaked |-> 0, late |-> 0]
Asleep == Cleared("asleep")

WatchdogInit ==
    /\ node = Owed + Margin /\ ecash = Owed /\ fees = 0
    /\ paidIn = 0 /\ held = 0 /\ leaked = 0 /\ moves = 0
    /\ watch = Asleep /\ entry = NoEntry
    /\ leakedAt = [first |-> 0, last |-> 0]
    /\ alarms = FALSE

(* ------------------------------ the money ------------------------------- *)

Moves == moves < MovesMax /\ moves' = moves + 1
\* the balance of the keysets moves, between the reads of a check or not
BalanceMoves ==
    IF watch.step = "status"
    THEN watch.late < LateMax /\ watch' = [watch EXCEPT !.late = @ + 1]
    ELSE UNCHANGED watch
Log == UNCHANGED <<entry, leakedAt, alarms>>

InvoiceArrives ==
    /\ Moves /\ paidIn + held < FlightMax
    /\ node' = node + 1 /\ paidIn' = paidIn + 1
    /\ UNCHANGED <<ecash, fees, held, leaked, watchVars>>
\* store_blinded_message and the signing of it bump the balance
EcashIssued ==
    /\ paidIn > 0 /\ paidIn' = paidIn - 1 /\ ecash' = ecash + 1 /\ BalanceMoves
    /\ Log /\ UNCHANGED <<node, fees, held, leaked, moves>>
\* proofs leave the balance when they become pending, ...
MeltHolds ==
    /\ Moves /\ ecash > 0 /\ paidIn + held < FlightMax
    /\ ecash' = ecash - 1 /\ held' = held + 1 /\ BalanceMoves
    /\ Log /\ UNCHANGED <<node, fees, paidIn, leaked>>
MeltPaid ==
    /\ held > 0 /\ node > 0 /\ held' = held - 1 /\ node' = node - 1
    /\ UNCHANGED <<ecash, fees, paidIn, leaked, moves, watchVars>>
\* ... and come back to it with a melt that has failed
MeltRolledBack ==
    /\ held > 0 /\ held' = held - 1 /\ ecash' = ecash + 1 /\ BalanceMoves
    /\ Log /\ UNCHANGED <<node, fees, paidIn, leaked, moves>>
SwapPaysFee ==
    /\ Moves /\ ecash > 0 /\ ecash' = ecash - 1 /\ fees' = fees + 1
    /\ UNCHANGED <<node, paidIn, held, leaked, watchVars>>
Leaks ==
    /\ leaked < LeakMax /\ node > 0
    /\ leaked' = leaked + 1 /\ node' = node - 1
    /\ UNCHANGED <<ecash, fees, paidIn, held, moves, watchVars>>

(* ----------------------------- the watchdog ----------------------------- *)

(* backend.status()                                                          *)
ReadsBackend ==
    /\ watch.step = "asleep"
    /\ watch' = [step |-> "status", node |-> node, ecash |-> 0, fees |-> 0,
                  leaked |-> leaked, late |-> 0]
    /\ Log /\ UNCHANGED moneyVars
(* get_unit_balance_and_fees, in a connection of its own                     *)
ReadsBalance ==
    /\ watch.step = "status"
    /\ watch' = [step |-> "read", node |-> watch.node, ecash |-> ecash, fees |-> fees,
                  leaked |-> watch.leaked, late |-> watch.late]
    /\ Log /\ UNCHANGED moneyVars

Delta(e) == e.node - (e.ecash + e.fees)
(* Mutant of BalancesMatch: the log is written and not looked at.            *)
BalancesMatchNow == watch.ecash + watch.fees <= watch.node
(* check_balances_and_abort                                                  *)
BalancesMatch ==
    /\ watch.ecash + watch.fees <= watch.node
    /\ entry # NoEntry => Delta(entry) <= Delta(watch)

(* The entry is stored in the connection of the reads.                       *)
StoresEntry ==
    /\ watch.step = "read" /\ BalancesMatch
    /\ entry' = watch /\ watch' = Asleep
    /\ leakedAt' = [first |-> IF entry = NoEntry THEN watch.leaked ELSE leakedAt.first,
                    last  |-> watch.leaked]
    /\ UNCHANGED <<moneyVars, alarms>>
(* The queue, which nobody reads, is told; nothing is stored.                *)
Alarms ==
    /\ watch.step = "read" /\ ~BalancesMatch
    /\ alarms' = TRUE /\ watch' = Asleep
    /\ UNCHANGED <<moneyVars, entry, leakedAt>>

(* The process ends, or an exception ends the task; the log stays, and the   *)
(* next start has a watchdog again.                                          *)
WatchdogDies ==
    /\ watch.step # "dead" /\ watch' = Cleared("dead")
    /\ Log /\ UNCHANGED moneyVars
WatchdogDispatched ==
    /\ watch.step = "dead" /\ watch' = Asleep
    /\ Log /\ UNCHANGED moneyVars

WatchdogNext ==
    \/ InvoiceArrives \/ EcashIssued \/ MeltHolds \/ MeltPaid \/ MeltRolledBack \/ SwapPaysFee
    \/ Leaks
    \/ ReadsBackend \/ ReadsBalance \/ StoresEntry \/ Alarms
    \/ WatchdogDies \/ WatchdogDispatched

WatchdogSpec == WatchdogInit /\ [][WatchdogNext]_watchdogVars

(* ------------------------------- properties ------------------------------ *)

(* Between the first check that found nothing and the last one, however many *)
(* there were, no more has left the node than what is in flight at one time, *)
(* and what is issued or melted between the two reads of a check, can hide   *)
(* (check_balances_and_abort, and that a mismatch stores no entry).          *)
NoSlowLeak == leakedAt.last - leakedAt.first <= FlightMax + 2 * LateMax

(* The watchdog only alarms when something has left the node. Violated:      *)
(* while a melt is pending its amount is in neither balance, and the entry   *)
(* that is made then cannot be reached again once it is paid.                *)
AlarmsForALeak == alarms => leaked > 0
=============================================================================
