------------------------------ MODULE MintQuote ------------------------------
(***************************************************************************)
(* Mint quotes: an invoice, the three places that mark its quote paid (the  *)
(* invoice listener, get_mint_quote, and a melt that pays the quote         *)
(* internally), and Ledger.mint, which turns a paid quote into promises.    *)
(*                                                                         *)
(* A mint request locks its quote as PENDING, stores and signs the outputs  *)
(* in separate transactions and moves the quote to ISSUED, or back to PAID  *)
(* when anything raised.  The locked transactions re-read the quote; the    *)
(* internal settlement reads it without a lock and writes it later.         *)
(***************************************************************************)
EXTENDS NoteStore

CONSTANTS
  MintQuotes,      \* mint quotes, each with one invoice
  QuoteAmount,     \* their amounts
  Mints,           \* mint requests
  QuotePollers,    \* callers of get_mint_quote
  MaxMintCrashes   \* bound on crashes of the mint process

ASSUME MintsAssumption == IsFiniteSet(Mints)

VARIABLES
  mintState,       \* mint_quotes.state
  invoice,         \* the invoice at the node: "open" or "settled"
  settling,        \* the one internal melt of the quote: none, read or paid
  issues,          \* how often promises were signed for the quote
  mintPc, mintFor, mintOuts, \* mint requests: place, quote, outputs
  pollPc, pollFor, \* get_mint_quote calls: place, quote
  mintCrashes

quoteVars == <<mintState, invoice, settling, issues>>
mintLocals == <<mintPc, mintFor, mintOuts>>
quotePollLocals == <<pollPc, pollFor>>
mintVars == <<storeVars, quoteVars, mintLocals, quotePollLocals, mintCrashes>>

MintPcs == {"idle", "verified", "held", "stored", "signed", "failing",
            "done", "failed", "stuck", "dead"}

MintTypeOK ==
  /\ StoreTypeOK
  /\ mintState \in [MintQuotes -> {"unpaid", "paid", "pending", "issued"}]
  /\ invoice \in [MintQuotes -> {"open", "settled"}]
  /\ settling \in [MintQuotes -> {"none", "read", "paid"}]
  /\ issues \in [MintQuotes -> Nat]
  /\ mintPc \in [Mints -> MintPcs]
  /\ mintFor \in [Mints -> MintQuotes \cup {NoQuote}]
  /\ mintOuts \in [Mints -> SUBSET Tokens]
  /\ pollPc \in [QuotePollers -> {"idle", "asking", "settled"}]
  /\ pollFor \in [QuotePollers -> MintQuotes \cup {NoQuote}]
  /\ mintCrashes \in Nat

MintInit ==
  /\ StoreInit
  /\ mintState = [q \in MintQuotes |-> "unpaid"]
  /\ invoice = [q \in MintQuotes |-> "open"]
  /\ settling = [q \in MintQuotes |-> "none"]
  /\ issues = [q \in MintQuotes |-> 0]
  /\ mintPc = [m \in Mints |-> "idle"]
  /\ mintFor = [m \in Mints |-> NoQuote]
  /\ mintOuts = [m \in Mints |-> {}]
  /\ pollPc = [g \in QuotePollers |-> "idle"]
  /\ pollFor = [g \in QuotePollers |-> NoQuote]
  /\ mintCrashes = 0

SetMintState(q, s) == mintState' = [mintState EXCEPT ![q] = s]
MintGoto(m, pc) == mintPc' = [mintPc EXCEPT ![m] = pc]
KeepMint == UNCHANGED <<mintFor, mintOuts, quotePollLocals, mintCrashes>>

-----------------------------------------------------------------------------
(* The node, and who marks a quote paid *)

InvoicePaid(q) ==
  /\ invoice[q] = "open"
  /\ invoice' = [invoice EXCEPT ![q] = "settled"]
  /\ UNCHANGED <<storeVars, mintState, settling, issues, mintLocals,
                 quotePollLocals, mintCrashes>>

\* invoice_callback_dispatcher: reads and writes the quote under its lock
ListenerMarksPaid(q) ==
  /\ invoice[q] = "settled"
  /\ mintState[q] = "unpaid"
  /\ SetMintState(q, "paid")
  /\ UNCHANGED <<storeVars, invoice, settling, issues, mintLocals,
                 quotePollLocals, mintCrashes>>

\* get_mint_quote: read the quote, ask the node, then lock and look again
PollReads(g, q) ==
  /\ pollPc[g] = "idle"
  /\ mintState[q] = "unpaid"
  /\ pollPc' = [pollPc EXCEPT ![g] = "asking"]
  /\ pollFor' = [pollFor EXCEPT ![g] = q]
  /\ UNCHANGED <<storeVars, quoteVars, mintLocals, mintCrashes>>

PollAsks(g) ==
  /\ pollPc[g] = "asking"
  /\ pollPc' = [pollPc EXCEPT ![g] =
                  IF invoice[pollFor[g]] = "settled" THEN "settled" ELSE "idle"]
  /\ UNCHANGED <<storeVars, quoteVars, mintLocals, pollFor, mintCrashes>>

\* mutant: the quote is returned as paid and not written
PollForgets(g) ==
  /\ pollPc[g] = "settled"
  /\ pollPc' = [pollPc EXCEPT ![g] = "idle"]
  /\ UNCHANGED <<storeVars, quoteVars, mintLocals, pollFor, mintCrashes>>

PollMarksPaid(g) ==
  /\ pollPc[g] = "settled"
  /\ pollPc' = [pollPc EXCEPT ![g] = "idle"]
  /\ mintState' = [mintState EXCEPT ![pollFor[g]] =
                     IF @ = "unpaid" THEN "paid" ELSE @]
  /\ UNCHANGED <<storeVars, invoice, settling, issues, mintLocals,
                 pollFor, mintCrashes>>

\* melt_mint_settle_internally reads the quote without a lock ...
SettleReads(q) ==
  /\ settling[q] = "none"
  /\ mintState[q] = "unpaid"
  /\ settling' = [settling EXCEPT ![q] = "read"]
  /\ UNCHANGED <<mintState, invoice, issues>>

\* ... and writes it in a later transaction; _set_melt_quote_pending has
\* made sure that no other melt of this invoice gets here
SettleWrites(q) ==
  /\ settling[q] = "read"
  /\ settling' = [settling EXCEPT ![q] = "paid"]
  /\ SetMintState(q, "paid")
  /\ UNCHANGED <<invoice, issues>>

InternalPayment(q) ==
  /\ SettleReads(q) \/ SettleWrites(q)
  /\ UNCHANGED <<storeVars, mintLocals, quotePollLocals, mintCrashes>>

-----------------------------------------------------------------------------
(* Ledger.mint *)

\* _verify_outputs, and a quote that was PAID when it was read
MintVerify(m, q, O) ==
  /\ mintPc[m] = "idle"
  /\ OutputsVerify(O)
  /\ mintState[q] = "paid"
  /\ MintGoto(m, "verified")
  /\ mintFor' = [mintFor EXCEPT ![m] = q]
  /\ mintOuts' = [mintOuts EXCEPT ![m] = O]
  /\ UNCHANGED <<storeVars, quoteVars, quotePollLocals, mintCrashes>>

\* mutant: the quote is not read again under the lock
MintHoldStale(m) ==
  /\ mintPc[m] = "verified"
  /\ SetMintState(mintFor[m], "pending")
  /\ MintGoto(m, "held")
  /\ UNCHANGED <<storeVars, invoice, settling, issues>> /\ KeepMint

\* _set_mint_quote_pending
MintHold(m) ==
  /\ mintPc[m] = "verified"
  /\ mintState[mintFor[m]] = "paid"
  /\ SetMintState(mintFor[m], "pending")
  /\ MintGoto(m, "held")
  /\ UNCHANGED <<storeVars, invoice, settling, issues>> /\ KeepMint

\* mutant: _set_mint_quote_pending is called inside the try
MintRefuseRestores(m) ==
  /\ mintPc[m] = "verified"
  /\ mintState' = [mintState EXCEPT ![mintFor[m]] = IF @ = "pending" THEN "paid" ELSE @]
  /\ MintGoto(m, "failed")
  /\ UNCHANGED <<storeVars, invoice, settling, issues>> /\ KeepMint

\* not paid any more, or no lock in time
MintRefuse(m) ==
  /\ mintPc[m] = "verified"
  /\ MintGoto(m, "failed")
  /\ UNCHANGED <<storeVars, quoteVars>> /\ KeepMint

\* the expiry of the quote is not a column of mint_quotes: a quote read back
\* from the database has none, and the test of it never fails
MintStore(m) ==
  /\ mintPc[m] = "held"
  /\ Value(mintOuts[m]) = QuoteAmount[mintFor[m]]
  /\ StoreOutputs(mintOuts[m], NoQuote)
  /\ MintGoto(m, "stored")
  /\ UNCHANGED quoteVars /\ KeepMint

MintSign(m) ==
  /\ mintPc[m] = "stored"
  /\ SignOutputs(mintOuts[m])
  /\ issues' = [issues EXCEPT ![mintFor[m]] = @ + 1]
  /\ MintGoto(m, "signed")
  /\ UNCHANGED <<mintState, invoice, settling>> /\ KeepMint

\* anything in the try raised: amount, witness, UNIQUE (b_), inactive keyset,
\* the database; what was stored stays stored
MintFail(m) ==
  /\ mintPc[m] \in {"held", "stored"}
  /\ MintGoto(m, "failing")
  /\ UNCHANGED <<storeVars, quoteVars>> /\ KeepMint

\* _unset_mint_quote_pending, which raises unless the quote is PENDING
UnsetQuotePending(q, s) ==
  mintState' = [mintState EXCEPT ![q] = IF @ = "pending" THEN s ELSE @]

\* mutant: a request that failed leaves the quote as it is
MintRestoreForgets(m) ==
  /\ mintPc[m] = "failing"
  /\ MintGoto(m, "failed")
  /\ UNCHANGED <<storeVars, quoteVars>> /\ KeepMint

MintRestore(m) ==
  /\ mintPc[m] = "failing"
  /\ UnsetQuotePending(mintFor[m], "paid")
  /\ MintGoto(m, "failed")
  /\ UNCHANGED <<storeVars, invoice, settling, issues>> /\ KeepMint

MintIssue(m) ==
  /\ mintPc[m] = "signed"
  /\ UnsetQuotePending(mintFor[m], "issued")
  /\ MintGoto(m, "done")
  /\ UNCHANGED <<storeVars, invoice, settling, issues>> /\ KeepMint

\* _unset_mint_quote_pending raises, after a failure or after the signature: it
\* gets no lock in time, or the database fails; nothing tries it again
MintUnsetRaises(m) ==
  /\ mintPc[m] \in {"failing", "signed"}
  /\ MintGoto(m, "stuck")
  /\ UNCHANGED <<storeVars, quoteVars>> /\ KeepMint

MintRunning(m) == mintPc[m] \in {"verified", "held", "stored", "signed", "failing"}

MintCrash ==
  /\ mintCrashes < MaxMintCrashes
  /\ \E m \in Mints : MintRunning(m)
  /\ mintCrashes' = mintCrashes + 1
  /\ mintPc' = [m \in Mints |-> IF MintRunning(m) THEN "dead" ELSE mintPc[m]]
  /\ pollPc' = [g \in QuotePollers |-> "idle"]
  /\ UNCHANGED <<storeVars, quoteVars, mintFor, mintOuts, pollFor>>

MintStep(m) ==
  \/ MintHold(m) \/ MintRefuse(m) \/ MintStore(m) \/ MintSign(m)
  \/ MintFail(m) \/ MintRestore(m) \/ MintIssue(m) \/ MintUnsetRaises(m)

PollStep(g) ==
  \/ \E q \in MintQuotes : PollReads(g, q)
  \/ PollAsks(g) \/ PollMarksPaid(g)

MintRotate ==
  /\ \E k \in Keysets : DeactivateKeyset(k)
  /\ UNCHANGED <<quoteVars, mintLocals, quotePollLocals, mintCrashes>>

MintNext ==
  \/ \E q \in MintQuotes : \/ InvoicePaid(q)
                           \/ ListenerMarksPaid(q)
                           \/ InternalPayment(q)
  \/ \E g \in QuotePollers : PollStep(g)
  \/ \E m \in Mints : \/ MintStep(m)
                      \/ \E q \in MintQuotes, O \in SUBSET (Tokens \ signed) :
                           MintVerify(m, q, O)
  \/ MintRotate
  \/ MintCrash

MintSpec == MintInit /\ [][MintNext]_mintVars

\* Requests run to their end.  Clients ask again and again for each unpaid
\* quote (strong fairness: the poller may be busy with another one in
\* between); the listener's stream may be down for ever.
MintFairSpec ==
  /\ MintSpec
  /\ \A m \in Mints : WF_mintVars(MintStep(m))
  /\ \A g \in QuotePollers : WF_mintVars(PollAsks(g) \/ PollMarksPaid(g))
  /\ \A q \in MintQuotes : SF_mintVars(\E g \in QuotePollers : PollReads(g, q))

-----------------------------------------------------------------------------
(* Safety *)

\* payments received for a quote: over Lightning and from an internal melt
Receipts(q) == (IF invoice[q] = "settled" THEN 1 ELSE 0)
             + (IF settling[q] = "paid" THEN 1 ELSE 0)

\* No interleaving of requests, polls, listener, internal settlement and
\* crashes signs promises for a quote more often than it was paid, although
\* the settlement writes a state it read without a lock.
IssuedBacked == \A q \in MintQuotes : issues[q] <= Receipts(q)

\* The invariant behind it: a quote that is PAID, and every request between
\* its lock and its signature, is one payment not yet turned into promises.
Claimants(q) ==
  {m \in Mints : mintFor[m] = q /\ mintPc[m] \in {"held", "stored", "failing"}}

ClaimsBacked ==
  \A q \in MintQuotes :
    issues[q] + Cardinality(Claimants(q))
      + (IF mintState[q] = "paid" THEN 1 ELSE 0) <= Receipts(q)

\* While no melt pays internally, the lock of _set_mint_quote_pending lets
\* one request work on a quote at a time, until it is ISSUED.
OneMinterPerQuote ==
  \A q \in MintQuotes : settling[q] # "paid" =>
    /\ Cardinality(Claimants(q)) <= 1
    /\ Claimants(q) # {} => mintState[q] = "pending"

\* base.py, MintQuote.__setattr__: an issued quote cannot be changed.
IssuedIsFinal ==
  [][\A q \in MintQuotes : mintState[q] = "issued" => mintState'[q] = "issued"]_mintVars

-----------------------------------------------------------------------------
(* Liveness *)

\* A quote is not left PENDING: the request that locked it issues it or puts
\* it back, whatever raises in between, unless a crash takes the request or
\* _unset_mint_quote_pending itself raises.  Nobody comes back to such a quote.
Abandoned(q) == \E m \in Mints : mintPc[m] \in {"stuck", "dead"} /\ mintFor[m] = q

PendingQuoteReleased ==
  \A q \in MintQuotes :
    mintState[q] = "pending" ~> mintState[q] # "pending" \/ Abandoned(q)

\* An invoice that was paid is noticed as long as somebody polls, with the
\* listener down.
SettledIsNoticed ==
  \A q \in MintQuotes : invoice[q] = "settled" ~> mintState[q] # "unpaid"
=============================================================================
