-------------------------------- MODULE Upkeep --------------------------------
(* The start of the mint and its regular task, which asks the backends again *)
(* and again about the melt quotes that have pending proofs.  Melt has the   *)
(* steps of one such question; here are the rounds of them, one quote after  *)
(* the other, whose first exception ends the round.                          *)
EXTENDS Integers, Sequences, SequencesExt

CONSTANTS HeldQuotes,    \* melt quotes of Lightning payments
          BackendOrder,  \* the backends, in the order of Ledger.backends
          DeathMax       \* bound: how often the mint ends while it is up

ASSUME UpkeepAssumption == DeathMax \in Nat

VARIABLES
    process,   \* the mint: "down", "starting" or "up"
    checked,   \* how many backends the startup has checked
    task,      \* the regular task: "none", "round", "asleep" or "ended"
    round,     \* the quotes that the round has still to ask about
    payment,   \* HeldQuotes -> "none", "inflight", "settled", "failed"
    pendingQuotes,  \* the quotes with rows in proofs_pending
    deaths

startVars == <<process, checked, deaths>>
upkeepVars == <<startVars, task, round, payment, pendingQuotes>>

UpkeepInit ==
    /\ process = "down" /\ checked = 0 /\ deaths = 0
    /\ task = "none" /\ round = <<>>
    /\ payment = [q \in HeldQuotes |-> "none"] /\ pendingQuotes = {}

(* ------------------------------- the start ------------------------------- *)

(* Somebody starts the process: migrate_databases, _startup_keysets.         *)
StartMint ==
    /\ process = "down" /\ process' = "starting" /\ checked' = 0
    /\ UNCHANGED <<deaths, task, round, payment, pendingQuotes>>
(* _check_backends finds a backend in order ...                              *)
BackendWorks ==
    /\ process = "starting" /\ checked < Len(BackendOrder)
    /\ checked' = checked + 1
    /\ UNCHANGED <<process, deaths, task, round, payment, pendingQuotes>>
(* ... or not, and the mint exits.                                           *)
BackendReportsError ==
    /\ process = "starting" /\ checked < Len(BackendOrder)
    /\ process' = "down"
    /\ UNCHANGED <<checked, deaths, task, round, payment, pendingQuotes>>
(* startup_ledger creates the regular task, whose first round begins at once.*)
StartLedger ==
    /\ process = "starting" /\ checked = Len(BackendOrder)
    /\ process' = "up" /\ task' = "asleep"
    /\ UNCHANGED <<checked, deaths, round, payment, pendingQuotes>>
(* shutdown_ledger cancels the tasks, and a death does not ask them.         *)
MintEnds ==
    /\ process = "up" /\ deaths < DeathMax
    /\ process' = "down" /\ deaths' = deaths + 1
    /\ task' = "none" /\ round' = <<>>
    /\ UNCHANGED <<checked, payment, pendingQuotes>>

(* ------------------------------- the melts ------------------------------- *)

(* A melt leaves its quote pending: the backend has said so, or it timed out.*)
MeltLeftPending(q) ==
    /\ process = "up" /\ q \notin pendingQuotes
    /\ pendingQuotes' = pendingQuotes \union {q}
    /\ payment' = [payment EXCEPT ![q] = "inflight"]
    /\ UNCHANGED <<startVars, task, round>>
PaymentEnds(q) ==
    /\ payment[q] = "inflight"
    /\ \E how \in {"settled", "failed"} : payment' = [payment EXCEPT ![q] = how]
    /\ UNCHANGED <<startVars, task, round, pendingQuotes>>

(* --------------------------- the regular task ---------------------------- *)

(* The sleep is over: get_all_melt_quotes_from_pending_proofs, in any order. *)
RoundBegins ==
    /\ task = "asleep" /\ task' = "round"
    /\ round' \in SetToSeqs(pendingQuotes)
    /\ UNCHANGED <<startVars, payment, pendingQuotes>>

Asks(q) == task = "round" /\ round # <<>> /\ q = Head(round)

(* get_melt_quote, whose question the backend answers: a payment that has    *)
(* ended takes the pending proofs with it, spent or released.                *)
QuoteAnswered(q) ==
    /\ Asks(q) /\ round' = Tail(round)
    /\ pendingQuotes' = IF payment[q] = "inflight" THEN pendingQuotes ELSE pendingQuotes \ {q}
    /\ UNCHANGED <<startVars, task, payment>>
(* The answer is UNKNOWN, which a poll leaves alone.                         *)
QuoteUnknown(q) ==
    /\ Asks(q) /\ round' = Tail(round)
    /\ UNCHANGED <<startVars, task, payment, pendingQuotes>>

(* Mutant of RoundFails: the exception is caught outside of the loop.        *)
RoundFailsForGood(q) ==
    /\ Asks(q) /\ round' = <<>> /\ task' = "ended"
    /\ UNCHANGED <<startVars, payment, pendingQuotes>>
(* get_melt_quote raises, and the task sleeps.                               *)
RoundFails(q) ==
    /\ Asks(q) /\ round' = <<>> /\ task' = "asleep"
    /\ UNCHANGED <<startVars, payment, pendingQuotes>>
RoundEnds ==
    /\ task = "round" /\ round = <<>> /\ task' = "asleep"
    /\ UNCHANGED <<startVars, round, payment, pendingQuotes>>

TaskStep ==
    \/ RoundBegins \/ RoundEnds
    \/ \E q \in HeldQuotes : QuoteAnswered(q) \/ QuoteUnknown(q) \/ RoundFails(q)

UpkeepNext ==
    \/ StartMint \/ BackendWorks \/ BackendReportsError \/ StartLedger \/ MintEnds
    \/ \E q \in HeldQuotes : MeltLeftPending(q) \/ PaymentEnds(q)
    \/ TaskStep

UpkeepSpec == UpkeepInit /\ [][UpkeepNext]_upkeepVars

(* ------------------------------- properties ------------------------------ *)

(* However many polls raise or are answered with UNKNOWN, and however often  *)
(* the mint is started again, a payment that has ended has its quote and its *)
(* proofs resolved by a round that gets as far as to it                      *)
(* (_check_pending_proofs_and_melt_quotes, _run_regular_tasks).              *)
HeldQuotesAreResolved ==
    \A q \in HeldQuotes : payment[q] \in {"settled", "failed"} ~> q \notin pendingQuotes
=============================================================================
