-------------------------------- MODULE Melt --------------------------------
(***************************************************************************)
(* Ledger.melt pays a Lightning invoice with proofs; Ledger.get_melt_quote, *)
(* called by clients, at startup and by the regular task, asks the backend  *)
(* about a PENDING quote and finishes or rolls back the melt itself.        *)
(*                                                                         *)
(* Both are coroutines that act on the same quote, proofs and blank outputs *)
(* in many separate transactions.  Only the first two of melt lock and      *)
(* re-read what they write; the poll writes what it read before it asked    *)
(* the backend.  The payment goes on at the node whatever becomes of them.  *)
(***************************************************************************)
EXTENDS MintQuote

CONSTANTS
  MeltAmount,      \* amount of a melt quote
  FeeReserve,      \* fee reserve of a melt quote
  FeeUnit,         \* the node counts fees in 1/FeeUnit of the mint's unit
  Internal,        \* the mint quote with the same invoice, or NoQuote
  Melts,           \* melt requests
  MeltPollers,     \* callers of get_melt_quote
  UnknownInFlight, \* the backend may answer UNKNOWN for any payment
  DisableOnError,  \* settings.mint_disable_melt_on_error
  NewCheckingId,   \* pay_invoice may answer with another checking_id (Strike)
  MaxCrashes       \* bound on crashes of the mint process

ASSUME FeeUnitAssumption == FeeUnit \in Nat \ {0}
ASSUME MeltQuotesAssumption ==
  /\ MeltAmount \in [MeltQuotes -> Nat] /\ FeeReserve \in [MeltQuotes -> Nat]
  /\ Internal \in [MeltQuotes -> MintQuotes \cup {NoQuote}]
ASSUME AskersAssumption == MeltPollers \cap Melts = {}

VARIABLES
  meltState,       \* melt_quotes.state
  pay, payFee,     \* the payment at the node, and the fee it cost
  disabled,        \* Ledger.disable_melt
  meltPc, meltFor, meltIns, meltOuts, \* melt requests: place, quote, proofs, outputs
  askPc, askFor, askIns, askOuts,     \* polls: place, quote, what was read
  crashes,
  happened         \* history: rollbacks by polls, answers that came too late

meltQuoteVars == <<meltState, pay, payFee, disabled>>
meltLocals == <<meltPc, meltFor, meltIns, meltOuts>>
askLocals == <<askPc, askFor, askIns, askOuts>>
meltOwnVars == <<meltQuoteVars, meltLocals, askLocals, crashes, happened>>
mintSideVars == <<quoteVars, mintLocals, quotePollLocals, mintCrashes>>
meltVars == <<storeVars, mintSideVars, meltOwnVars>>

MeltPcs == {"idle", "verified", "held", "locked", "ready", "settling",
            "paying", "checking", "rollback", "released", "unlocked",
            "won", "spent", "freed", "sign", "signed", "changed",
            "parked", "succeeded", "failed", "dead"}
AskPcs == {"idle", "asking", "settled", "commit", "committed", "change",
           "signed", "changed", "failed", "unpaid", "freeing", "freed", "returned"}

\* get_melt_quote is called by clients and the mint's tasks, and first of all
\* by melt itself.
Askers == MeltPollers \cup Melts

MeltTypeOK ==
  /\ MintTypeOK
  /\ meltState \in [MeltQuotes -> {"unpaid", "pending", "paid"}]
  /\ pay \in [MeltQuotes -> {"none", "inflight", "settled", "failed"}]
  /\ payFee \in [MeltQuotes -> Nat]
  /\ disabled \in BOOLEAN
  /\ meltPc \in [Melts -> MeltPcs]
  /\ meltFor \in [Melts -> Quotes]
  /\ meltIns \in [Melts -> SUBSET Tokens]
  /\ meltOuts \in [Melts -> SUBSET Tokens]
  /\ askPc \in [Askers -> AskPcs]
  /\ askFor \in [Askers -> Quotes]
  /\ askIns \in [Askers -> SUBSET Tokens]
  /\ askOuts \in [Askers -> SUBSET Tokens]
  /\ crashes \in Nat
  /\ happened \subseteq {"undone", "rewritten"}

MeltInit ==
  /\ MintInit
  /\ meltState = [q \in MeltQuotes |-> "unpaid"]
  /\ pay = [q \in MeltQuotes |-> "none"]
  /\ payFee = [q \in MeltQuotes |-> 0]
  /\ disabled = FALSE
  /\ meltPc = [m \in Melts |-> "idle"]
  /\ meltFor = [m \in Melts |-> NoQuote]
  /\ meltIns = [m \in Melts |-> {}]
  /\ meltOuts = [m \in Melts |-> {}]
  /\ askPc = [g \in Askers |-> "idle"]
  /\ askFor = [g \in Askers |-> NoQuote]
  /\ askIns = [g \in Askers |-> {}]
  /\ askOuts = [g \in Askers |-> {}]
  /\ crashes = 0
  /\ happened = {}

SetMeltState(q, s) == meltState' = [meltState EXCEPT ![q] = s]
MeltGoto(m, pc) == meltPc' = [meltPc EXCEPT ![m] = pc]
AskGoto(g, pc) == askPc' = [askPc EXCEPT ![g] = pc]

\* frame of a step of a request, which touches neither polls nor crashes
KeepMelt == UNCHANGED <<mintSideVars, meltFor, meltIns, meltOuts, askLocals, crashes,
                        happened>>
\* frame of a step of a poll
KeepAsk == UNCHANGED <<mintSideVars, meltLocals, askFor, pay, payFee, disabled,
                       crashes, happened>>

-----------------------------------------------------------------------------
(* Transactions and answers that melt and get_melt_quote share *)

\* _invalidate_proofs: UNIQUE (y); a fee is recorded per keyset
InvalidateProofs(P, q) ==
  /\ CanInvalidate(P)
  /\ used' = used \cup P
  /\ usedFor' = Column(usedFor, P, q)
  /\ balance' = Bumped({}, P)
  /\ feesPaid' = FeesAfter(P)
  /\ told' = Column(told, P, "spent")
  /\ UNCHANGED <<active, promises, pendings>>

\* delete_blinded_messages_melt_id
DeleteOutputs(q) ==
  LET gone == {t \in stored : promiseFor[t] = q}
  IN /\ stored' = stored \ gone
     /\ promiseFor' = Column(promiseFor, gone, NoQuote)
     /\ UNCHANGED <<active, signed, spends, pendings, balance, feesPaid, told>>

\* mutant: the fee of the payment is returned as well
OverpaidAndPaymentFee(q, P, fee) == Value(P) - MeltAmount[q] - Fee(P)

\* fee_provided - fee_paid of _generate_change_promises
Overpaid(q, P, fee) == Value(P) - MeltAmount[q] - Fee(P) - fee

\* Amount.to: melt rounds the fee up to the unit, get_melt_quote down
RoundedUp(fee) == (fee + FeeUnit - 1) \div FeeUnit
RoundedDown(fee) == fee \div FeeUnit

MeltOverpaid(m) ==
  Overpaid(meltFor[m], meltIns[m], RoundedUp(payFee[meltFor[m]]))
AskOverpaid(g) ==
  Overpaid(askFor[g], askIns[g], RoundedDown(payFee[askFor[g]]))

\* _generate_change_promises: as much as the blank outputs can return, and
\* nothing at all unless something was overpaid
Changes(O, over) ==
  {C \in SUBSET O : /\ Value(C) <= over
                    /\ \A t \in O \ C : Value(C \cup {t}) > over}

PendingFor(q) == {t \in pending : pendingFor[t] = q}
OutputsFor(q) == {t \in stored : promiseFor[t] = q}

\* What get_payment_status may answer: the truth, or that it does not know.
\* A backend that raises is answered like one that does not know by the
\* poll, and by melt with disable_melt.
StatusOf(q) ==
  (CASE pay[q] = "settled" -> {"settled"}
     [] pay[q] = "failed" -> {"failed"}
     [] pay[q] = "inflight" -> {"pending"}
     [] pay[q] = "none" -> {"unknown"})
  \cup (IF UnknownInFlight THEN {"unknown"} ELSE {})

-----------------------------------------------------------------------------
(* The node *)

PaymentSettles(q) ==
  /\ pay[q] = "inflight"
  /\ pay' = [pay EXCEPT ![q] = "settled"]
  /\ \E f \in 0..(FeeReserve[q] * FeeUnit) : payFee' = [payFee EXCEPT ![q] = f]
  /\ UNCHANGED <<storeVars, mintSideVars, meltState, disabled, meltLocals,
                 askLocals, crashes, happened>>

PaymentFails(q) ==
  /\ pay[q] = "inflight"
  /\ pay' = [pay EXCEPT ![q] = "failed"]
  /\ UNCHANGED <<storeVars, mintSideVars, meltState, payFee, disabled,
                 meltLocals, askLocals, crashes, happened>>

\* the mint's own invoice is paid over Lightning while a melt names it
InvoiceWorld(q) ==
  /\ InvoicePaid(q) \/ ListenerMarksPaid(q)
  /\ UNCHANGED meltOwnVars

-----------------------------------------------------------------------------
(* Ledger.melt: checks, locks, storage *)

\* The quote was read as UNPAID, or as PENDING and the poll rolled it back,
\* which is not read again; outputs and inputs are valid, inputs cover amount
\* and reserve.
MeltVerify(m, q, P, O) ==
  /\ meltPc[m] = "idle"
  /\ \/ askPc[m] = "idle" /\ meltState[q] = "unpaid" /\ ~(disabled /\ DisableOnError)
     \/ askPc[m] = "returned" /\ askFor[m] = q
  /\ O = {} \/ OutputsVerify(O)
  /\ ProofsVerify(P)
  /\ Value(P) >= MeltAmount[q] + FeeReserve[q] + Fee(P)
  /\ MeltGoto(m, "verified")
  /\ meltFor' = [meltFor EXCEPT ![m] = q]
  /\ meltIns' = [meltIns EXCEPT ![m] = P]
  /\ meltOuts' = [meltOuts EXCEPT ![m] = O]
  /\ AskGoto(m, "idle")
  /\ UNCHANGED <<storeVars, mintSideVars, meltQuoteVars, askFor, askIns, askOuts,
                 crashes, happened>>

MeltHold(m) ==
  /\ meltPc[m] = "verified"
  /\ SetProofsPending(meltIns[m], meltFor[m])
  /\ MeltGoto(m, "held")
  /\ UNCHANGED meltQuoteVars /\ KeepMelt

\* _set_melt_quote_pending reads the quote again under a lock
MeltLock(m) ==
  /\ meltPc[m] = "held"
  /\ meltState[meltFor[m]] = "unpaid"
  /\ SetMeltState(meltFor[m], "pending")
  /\ MeltGoto(m, "locked")
  /\ UNCHANGED <<storeVars, pay, payFee, disabled>> /\ KeepMelt

MeltStore(m) ==
  /\ meltPc[m] = "locked"
  /\ StoreOutputs(meltOuts[m], meltFor[m])
  /\ MeltGoto(m, "ready")
  /\ UNCHANGED meltQuoteVars /\ KeepMelt

\* mutant: proofs that could not be set pending are released all the same
MeltRaisesAndReleases(m) ==
  /\ meltPc[m] = "verified"
  /\ UnsetProofsPending(meltIns[m])
  /\ MeltGoto(m, "failed")
  /\ UNCHANGED meltQuoteVars /\ KeepMelt

\* Whatever raises leaves things as they are, for nothing here has a handler
\* that would undo it: spent or pending proofs, a quote that is not unpaid, an
\* output stored meanwhile, an inactive keyset, no lock in time; a mint quote
\* that is not unpaid; what get_melt_quote has done in the meantime.
MeltRaises(m) ==
  /\ \/ meltPc[m] \in {"verified", "held", "locked"}
     \/ /\ meltPc[m] = "ready" /\ Internal[meltFor[m]] # NoQuote
        /\ mintState[Internal[meltFor[m]]] # "unpaid"
     \/ meltPc[m] = "released" /\ meltState[meltFor[m]] # "pending"
     \/ meltPc[m] = "won" /\ ~CanInvalidate(meltIns[m])
     \/ /\ meltPc[m] = "sign"
        /\ \A C \in Changes(meltOuts[m], MeltOverpaid(m)) :
             ~CanSign(C)
  /\ MeltGoto(m, "failed")
  /\ UNCHANGED <<storeVars, meltQuoteVars>> /\ KeepMelt

-----------------------------------------------------------------------------
(* Ledger.melt: the payment *)

\* melt_mint_settle_internally reads the mint quote, then writes both
MeltSettleReads(m) ==
  /\ meltPc[m] = "ready"
  /\ Internal[meltFor[m]] # NoQuote
  /\ SettleReads(Internal[meltFor[m]])
  /\ MeltGoto(m, "settling")
  /\ UNCHANGED <<storeVars, mintLocals, quotePollLocals, mintCrashes,
                 meltQuoteVars, meltFor, meltIns, meltOuts, askLocals, crashes,
                 happened>>

MeltSettleWrites(m) ==
  /\ meltPc[m] = "settling"
  /\ SettleWrites(Internal[meltFor[m]])
  /\ SetMeltState(meltFor[m], "paid")
  /\ MeltGoto(m, "won")
  /\ UNCHANGED <<storeVars, mintLocals, quotePollLocals, mintCrashes, pay,
                 payFee, disabled, meltFor, meltIns, meltOuts, askLocals, crashes,
                 happened>>

\* pay_invoice reaches the node, which refuses to pay an invoice twice, or
\* the call is lost on the way
MeltPay(m) ==
  LET q == meltFor[m]
  IN /\ meltPc[m] = "ready"
     /\ Internal[q] = NoQuote
     /\ \/ pay[q] \in {"none", "failed"} /\ pay' = [pay EXCEPT ![q] = "inflight"]
        \/ UNCHANGED pay
     /\ MeltGoto(m, "paying")
     /\ UNCHANGED <<storeVars, meltState, payFee, disabled>> /\ KeepMelt

\* The answer to pay_invoice, or an exception, which counts as UNKNOWN.  A
\* node that has the payment already answers this call with FAILED.  If it
\* names another checking_id, the quote is written with it, and with the state
\* PENDING it had before the call.
MeltReply(m) ==
  LET q == meltFor[m]
  IN /\ meltPc[m] = "paying"
     /\ \/ pay[q] = "settled" /\ MeltGoto(m, "won")
        \/ pay[q] = "inflight" /\ MeltGoto(m, "parked")
        \/ MeltGoto(m, "checking")
     /\ \/ UNCHANGED <<meltState, happened>>
        \/ /\ NewCheckingId
           /\ SetMeltState(q, "pending")
           /\ happened' = happened \cup (IF meltState[q] = "pending" THEN {} ELSE {"rewritten"})
     /\ UNCHANGED <<storeVars, mintSideVars, pay, payFee, disabled, meltFor, meltIns,
                    meltOuts, askLocals, crashes>>

\* the status check after FAILED or UNKNOWN
MeltCheckAgrees(m) ==
  /\ meltPc[m] = "checking"
  /\ StatusOf(meltFor[m]) \cap {"failed", "unknown"} # {}
  /\ MeltGoto(m, "rollback")
  /\ UNCHANGED <<storeVars, meltQuoteVars>> /\ KeepMelt

\* PENDING, SETTLED, or no status to be had: keep everything pending
MeltCheckDiffers(m) ==
  /\ meltPc[m] = "checking"
  /\ disabled' = TRUE
  /\ MeltGoto(m, "parked")
  /\ UNCHANGED <<storeVars, meltState, pay, payFee>> /\ KeepMelt

-----------------------------------------------------------------------------
(* Ledger.melt: rollback in three transactions *)

MeltReleaseProofs(m) ==
  /\ meltPc[m] = "rollback"
  /\ UnsetProofsPending(meltIns[m])
  /\ MeltGoto(m, "released")
  /\ UNCHANGED meltQuoteVars /\ KeepMelt

\* _unset_melt_quote_pending
MeltUnlock(m) ==
  /\ meltPc[m] = "released"
  /\ meltState[meltFor[m]] = "pending"
  /\ SetMeltState(meltFor[m], "unpaid")
  /\ MeltGoto(m, "unlocked")
  /\ UNCHANGED <<storeVars, pay, payFee, disabled>> /\ KeepMelt

MeltForgetOutputs(m) ==
  /\ meltPc[m] = "unlocked"
  /\ DeleteOutputs(meltFor[m])
  /\ MeltGoto(m, "failed")
  /\ UNCHANGED meltQuoteVars /\ KeepMelt

-----------------------------------------------------------------------------
(* Ledger.melt: success in five transactions *)

MeltInvalidate(m) ==
  /\ meltPc[m] = "won"
  /\ InvalidateProofs(meltIns[m], meltFor[m])
  /\ MeltGoto(m, "spent")
  /\ UNCHANGED meltQuoteVars /\ KeepMelt

\* change only for a request with outputs that overpaid; without it the
\* outputs stay stored
MeltFree(m) ==
  /\ meltPc[m] = "spent"
  /\ UnsetProofsPending(meltIns[m])
  /\ MeltGoto(m, IF meltOuts[m] # {} /\ MeltOverpaid(m) > 0
                 THEN "sign" ELSE "changed")
  /\ UNCHANGED meltQuoteVars /\ KeepMelt

MeltSignChange(m) ==
  /\ meltPc[m] = "sign"
  /\ \E C \in Changes(meltOuts[m], MeltOverpaid(m)) :
       SignOutputs(C)
  /\ MeltGoto(m, "signed")
  /\ UNCHANGED meltQuoteVars /\ KeepMelt

MeltDropBlanks(m) ==
  /\ meltPc[m] = "signed"
  /\ DeleteOutputs(meltFor[m])
  /\ MeltGoto(m, "changed")
  /\ UNCHANGED meltQuoteVars /\ KeepMelt

MeltFinish(m) ==
  /\ meltPc[m] = "changed"
  /\ SetMeltState(meltFor[m], "paid")
  /\ MeltGoto(m, "succeeded")
  /\ UNCHANGED <<storeVars, pay, payFee, disabled>> /\ KeepMelt

-----------------------------------------------------------------------------
(* Ledger.get_melt_quote *)

\* reads a PENDING quote; one with a mint quote is never checked
AskReads(g, q) ==
  /\ askPc[g] = "idle"
  /\ meltState[q] = "pending"
  /\ Internal[q] = NoQuote
  /\ AskGoto(g, "asking")
  /\ askFor' = [askFor EXCEPT ![g] = q]
  /\ UNCHANGED <<storeVars, mintSideVars, meltQuoteVars, meltLocals, askIns,
                 askOuts, crashes, happened>>

\* melt begins with get_melt_quote, which polls a PENDING quote; the request
\* goes on only if that poll rolled it back
MeltAsks(m, q) ==
  /\ meltPc[m] = "idle"
  /\ ~(disabled /\ DisableOnError)
  /\ AskReads(m, q)

\* mutant: a payment that is not settled yet counts as failed
AskGivesUp(g) ==
  /\ askPc[g] = "asking"
  /\ AskGoto(g, IF pay[askFor[g]] = "settled" THEN "settled" ELSE "failed")
  /\ UNCHANGED <<storeVars, meltState, askIns, askOuts>> /\ KeepAsk

AskAnswered(g) ==
  /\ askPc[g] = "asking"
  /\ \E s \in StatusOf(askFor[g]) \cap {"settled", "failed"} : AskGoto(g, s)
  /\ UNCHANGED <<storeVars, meltState, askIns, askOuts>> /\ KeepAsk

\* PENDING, UNKNOWN, or the backend raised: nothing is written
AskLearnsNothing(g) ==
  /\ askPc[g] = "asking"
  /\ AskGoto(g, "idle")
  /\ UNCHANGED <<storeVars, meltState, askIns, askOuts>> /\ KeepAsk

\* get_pending_proofs_for_quote, on either path
AskReadsProofs(g) ==
  /\ \/ askPc[g] = "settled" /\ AskGoto(g, "commit")
     \/ askPc[g] = "unpaid" /\ AskGoto(g, "freeing")
  /\ askIns' = [askIns EXCEPT ![g] = PendingFor(askFor[g])]
  /\ UNCHANGED <<storeVars, meltState, askOuts>> /\ KeepAsk

\* mutant: the release does not bump the balance back
AskCommitsWithoutBump(g) ==
  LET P == askIns[g]
  IN /\ askPc[g] = "commit"
     /\ CanInvalidate(P)
     /\ used' = used \cup P
     /\ usedFor' = Column(usedFor, P, askFor[g])
     /\ pending' = pending \ P
     /\ pendingFor' = Column(pendingFor, P, NoQuote)
     /\ balance' = Bumped({}, P)
     /\ feesPaid' = FeesAfter(P)
     /\ told' = Column(told, P, "spent")
     /\ AskGoto(g, "committed")
     /\ UNCHANGED <<active, promises, meltState, askIns, askOuts>> /\ KeepAsk

\* SETTLED: invalidate and release in one transaction
AskCommits(g) ==
  LET P == askIns[g]
  IN /\ askPc[g] = "commit"
     /\ CanInvalidate(P)
     /\ used' = used \cup P
     /\ usedFor' = Column(usedFor, P, askFor[g])
     /\ pending' = pending \ P
     /\ pendingFor' = Column(pendingFor, P, NoQuote)
     /\ balance' = Bumped(P, P)
     /\ feesPaid' = FeesAfter(P)
     /\ told' = Column(told, P, "spent")
     /\ AskGoto(g, "committed")
     /\ UNCHANGED <<active, promises, meltState, askIns, askOuts>> /\ KeepAsk

\* get_blinded_messages_melt_id; the fees of no proofs at all raise
AskReadsOutputs(g) ==
  LET O == OutputsFor(askFor[g])
  IN /\ askPc[g] = "committed"
     /\ AskGoto(g, CASE O = {} -> "changed"
                     [] O # {} /\ askIns[g] = {} -> "idle"
                     [] OTHER -> IF AskOverpaid(g) > 0
                                 THEN "change" ELSE "changed")
     /\ askOuts' = [askOuts EXCEPT ![g] = O]
     /\ UNCHANGED <<storeVars, meltState, askIns>> /\ KeepAsk

AskSignsChange(g) ==
  /\ askPc[g] = "change"
  /\ \E C \in Changes(askOuts[g], AskOverpaid(g)) :
       SignOutputs(C)
  /\ AskGoto(g, "signed")
  /\ UNCHANGED <<meltState, askIns, askOuts>> /\ KeepAsk

AskDropsBlanks(g) ==
  /\ askPc[g] = "signed"
  /\ DeleteOutputs(askFor[g])
  /\ AskGoto(g, "changed")
  /\ UNCHANGED <<meltState, askIns, askOuts>> /\ KeepAsk

\* mutant: the quote of a settled payment is returned and not written
AskForgetsToWrite(g) ==
  /\ \/ askPc[g] = "changed" /\ UNCHANGED meltState /\ AskGoto(g, "idle")
     \/ askPc[g] = "failed" /\ SetMeltState(askFor[g], "unpaid") /\ AskGoto(g, "unpaid")
  /\ UNCHANGED <<storeVars, askIns, askOuts>> /\ KeepAsk

\* update_melt_quote with the object read at the start, on either path
AskWritesQuote(g) ==
  /\ \/ /\ askPc[g] = "changed" /\ SetMeltState(askFor[g], "paid") /\ AskGoto(g, "idle")
        /\ UNCHANGED happened
     \/ /\ askPc[g] = "failed" /\ SetMeltState(askFor[g], "unpaid") /\ AskGoto(g, "unpaid")
        /\ happened' = happened \cup {"undone"}
  /\ UNCHANGED <<storeVars, mintSideVars, pay, payFee, disabled, meltLocals, askFor,
                 askIns, askOuts, crashes>>

AskFrees(g) ==
  /\ askPc[g] = "freeing"
  /\ UnsetProofsPending(askIns[g])
  /\ AskGoto(g, "freed")
  /\ UNCHANGED <<meltState, askIns, askOuts>> /\ KeepAsk

AskForgetsOutputs(g) ==
  /\ askPc[g] = "freed"
  /\ DeleteOutputs(askFor[g])
  /\ AskGoto(g, IF g \in Melts THEN "returned" ELSE "idle")
  /\ UNCHANGED <<meltState, askIns, askOuts>> /\ KeepAsk

\* UNIQUE (y), or outputs that are gone or whose keyset is inactive; or a
\* check of the request that goes on after its poll
AskRaises(g) ==
  /\ \/ askPc[g] = "returned"
     \/ askPc[g] = "commit" /\ ~CanInvalidate(askIns[g])
     \/ /\ askPc[g] = "change"
        /\ \A C \in Changes(askOuts[g], AskOverpaid(g)) :
             ~CanSign(C)
  /\ AskGoto(g, "idle")
  /\ UNCHANGED <<storeVars, meltState, askIns, askOuts>> /\ KeepAsk

-----------------------------------------------------------------------------

MeltRunning(m) == meltPc[m] \notin {"idle", "parked", "succeeded", "failed", "dead"}

\* the process dies; startup and the regular task poll what is pending
MeltCrash ==
  /\ crashes < MaxCrashes
  /\ \/ \E m \in Melts : MeltRunning(m)
     \/ \E g \in Askers : askPc[g] # "idle"
  /\ crashes' = crashes + 1
  /\ meltPc' = [m \in Melts |-> IF MeltRunning(m) THEN "dead" ELSE meltPc[m]]
  /\ askPc' = [g \in Askers |-> "idle"]
  /\ disabled' = FALSE
  /\ UNCHANGED <<storeVars, mintSideVars, meltState, pay, payFee, meltFor, meltIns,
                 meltOuts, askFor, askIns, askOuts, happened>>

MeltRotate ==
  /\ \E k \in Keysets : DeactivateKeyset(k)
  /\ UNCHANGED <<mintSideVars, meltOwnVars>>

MeltStep(m) ==
  \/ MeltHold(m) \/ MeltLock(m) \/ MeltStore(m) \/ MeltRaises(m)
  \/ MeltSettleReads(m) \/ MeltSettleWrites(m)
  \/ MeltPay(m) \/ MeltReply(m) \/ MeltCheckAgrees(m) \/ MeltCheckDiffers(m)
  \/ MeltReleaseProofs(m) \/ MeltUnlock(m) \/ MeltForgetOutputs(m)
  \/ MeltInvalidate(m) \/ MeltFree(m) \/ MeltSignChange(m)
  \/ MeltDropBlanks(m) \/ MeltFinish(m)

AskStep(g) ==
  \/ AskReadsProofs(g) \/ AskCommits(g) \/ AskReadsOutputs(g)
  \/ AskSignsChange(g) \/ AskDropsBlanks(g) \/ AskWritesQuote(g)
  \/ AskFrees(g) \/ AskForgetsOutputs(g) \/ AskRaises(g)

MeltNext ==
  \/ \E m \in Melts : \/ MeltStep(m)
                      \/ \E q \in MeltQuotes, P \in SUBSET signed,
                         O \in SUBSET (Tokens \ signed) : MeltVerify(m, q, P, O)
                      \/ \E q \in MeltQuotes : MeltAsks(m, q)
  \/ \E g \in Askers : AskStep(g) \/ AskAnswered(g) \/ AskLearnsNothing(g)
  \/ \E g \in MeltPollers, q \in MeltQuotes : AskReads(g, q)
  \/ \E q \in MeltQuotes : PaymentSettles(q) \/ PaymentFails(q)
  \/ \E q \in MintQuotes : InvoiceWorld(q)
  \/ MeltRotate
  \/ MeltCrash

MeltSpec == MeltInit /\ [][MeltNext]_meltVars

\* Requests and polls run to their end, the node settles or fails what it
\* has in flight (its HTLCs time out), the regular task polls a quote with
\* pending proofs again and again, and a backend that is asked again and
\* again answers.
TaskReads(g, q) == AskReads(g, q) /\ PendingFor(q) # {}

MeltFairSpec ==
  /\ MeltSpec
  /\ \A m \in Melts : WF_meltVars(MeltStep(m))
  /\ \A q \in MeltQuotes : /\ WF_meltVars(PaymentSettles(q) \/ PaymentFails(q))
                           /\ SF_meltVars(\E g \in MeltPollers : TaskReads(g, q))
  /\ \A g \in Askers : WF_meltVars(AskStep(g)) /\ SF_meltVars(AskAnswered(g))

-----------------------------------------------------------------------------
(* Safety *)

\* Whole units that left the mint for a quote, or are about to: a payment in
\* flight may cost the fee reserve; an internal melt credits the mint quote.
Outflow(q) ==
  CASE pay[q] = "inflight" -> MeltAmount[q] + FeeReserve[q]
    [] pay[q] = "settled" -> MeltAmount[q] + RoundedDown(payFee[q])
    [] Internal[q] # NoQuote /\ meltState[q] = "paid" -> MeltAmount[q]
    [] OTHER -> 0

ChangeFor(q) == {t \in signed : promiseFor[t] = q}
SpentFor(q) == {t \in used : usedFor[t] = q}

ChangeLeavesFee(q, fee) ==
  ChangeFor(q) # {} =>
    Value(ChangeFor(q)) + MeltAmount[q] + fee + Fee(SpentFor(q))
      <= Value(SpentFor(q))

\* Change for a quote never gives back a unit more than its proofs left over
\* after the payment and the input fees, whoever returns it: the request, a
\* poll that overtakes it, or a poll after a crash; after rollbacks and
\* retries.  (A fraction of a unit it does: see below.)
ChangeIsCovered == \A q \in MeltQuotes : ChangeLeavesFee(q, RoundedDown(payFee[q]))

\* The docstring of _generate_change_promises: the change is the difference
\* to "the actual Lightning fee paid by the mint", or "a smaller amount".
ChangeNeverExceedsFee ==
  \A q \in MeltQuotes : ChangeLeavesFee(q, RoundedUp(payFee[q]))

\* While a payment of the quote is in flight or settled, notes that cover it
\* and its input fees are locked for it or spent on it: no step of a
\* concurrent poll, request or restart hands them back.
PaymentsAreCovered ==
  \A q \in MeltQuotes :
    LET P == (PendingFor(q) \ used) \cup SpentFor(q)
    IN Outflow(q) > 0 =>
         Value(P) >= Outflow(q) + Fee(P) + Value(ChangeFor(q))

\* "set proofs to pending to avoid race conditions": from there until the
\* request itself rolls back, its proofs are pending or spent, unless its
\* payment has failed.
Paying(m) == /\ meltPc[m] \in {"ready", "settling", "paying", "won", "spent"}
             /\ pay[meltFor[m]] # "failed"

HeldProofsStayHeld ==
  \A m \in Melts : Paying(m) => meltIns[m] \subseteq pending \cup used

Requested(m) == meltPc[m] # "idle"

\* Every request has a quote, proofs and outputs of its own.
RequestsApart ==
  \A m, n \in Melts : m # n /\ Requested(m) /\ Requested(n) =>
    /\ meltFor[m] # meltFor[n]
    /\ meltIns[m] \cap meltIns[n] = {} /\ meltOuts[m] \cap meltOuts[n] = {}

\* What the code does give: until a poll has rolled a quote back, whoever
\* holds proofs holds them alone, whatever the requests share, whatever their
\* own polls find settled and however often they roll back themselves; and
\* after such a poll too, if the requests share nothing.
HeldUnlessUndone == "undone" \notin happened \/ RequestsApart => HeldProofsStayHeld

\* keysets.balance is bumped with every row written, and also when there was
\* no row to delete: whatever interleaves or crashes, it is never less than
\* what the tables say, so the watchdog errs on the alarming side.
BalanceNeverUndercounts ==
  \A k \in Keysets :
    balance[k] >= Value(Of(signed, k)) - Value(Of(used, k)) - Value(Of(pending, k))

-----------------------------------------------------------------------------
(* Liveness *)

\* A quote whose payment has come to an end at the node does not stay
\* PENDING: the request or the regular task finishes it or rolls it back,
\* unless an answer that brought another checking_id came after that and
\* wrote the quote back as PENDING.
PendingMeltResolves ==
  \A q \in MeltQuotes :
    pay[q] \in {"settled", "failed"} /\ meltState[q] = "pending"
      ~> meltState[q] # "pending" \/ "rewritten" \in happened
=============================================================================
