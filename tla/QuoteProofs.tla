---------------------------- MODULE QuoteProofs ----------------------------
(***************************************************************************)
(* Proofs about the requests on quotes: MintQuote, which signs promises for *)
(* what was paid, and Melt, which pays for what was locked.                 *)
(***************************************************************************)
EXTENDS MintQuote, Melt, StoreProofs, FiniteSetTheorems

-----------------------------------------------------------------------------
(***************************************************************************)
(* MintQuote: promises are backed by payments, for any number of quotes,   *)
(* requests, polls and crashes.                                            *)
(***************************************************************************)

(* The inductive invariant *)

\* Whoever has started works on a quote that exists.
RequestsNamed ==
  /\ \A m \in Mints : mintPc[m] # "idle" => mintFor[m] \in MintQuotes
  /\ \A g \in QuotePollers : pollPc[g] # "idle" => pollFor[g] \in MintQuotes

\* A poll that was told so knows of a payment: invoices stay settled.
PollsAreRight ==
  \A g \in QuotePollers : pollPc[g] = "settled" => invoice[pollFor[g]] = "settled"

\* No one ever worked on a quote that is UNPAID.
UnpaidIsFresh ==
  \A q \in MintQuotes : mintState[q] = "unpaid" =>
    issues[q] = 0 /\ Claimants(q) = {} /\ settling[q] # "paid"

\* What a request has signed is counted, and ISSUED means signed.
SignedIsCounted ==
  /\ \A m \in Mints : mintPc[m] = "signed" => issues[mintFor[m]] >= 1
  /\ \A q \in MintQuotes : mintState[q] = "issued" => issues[q] >= 1

MintIInv ==
  /\ MintTypeOK
  /\ RequestsNamed
  /\ PollsAreRight
  /\ UnpaidIsFresh
  /\ SignedIsCounted
  /\ ClaimsBacked

-----------------------------------------------------------------------------
(* Counting requests between their lock and their signature *)

\* Claimants are some of the requests, of which there are finitely many.
LEMMA ClaimantsCounted ==
  ASSUME NEW q
  PROVE  IsFiniteSet(Claimants(q)) /\ Cardinality(Claimants(q)) \in Nat
<1>1. Claimants(q) \in SUBSET Mints
  BY DEF Claimants
<1>2. IsFiniteSet(Claimants(q))
  BY <1>1, MintsAssumption, FS_Subset
<1>3. QED
  BY <1>2, FS_CardinalityType

\* A request that locks its quote is one claimant more.
LEMMA ClaimantAdded ==
  ASSUME NEW q, NEW m, m \notin Claimants(q), Claimants(q)' = Claimants(q) \cup {m}
  PROVE  Cardinality(Claimants(q)') = Cardinality(Claimants(q)) + 1
BY ClaimantsCounted, FS_AddElement

\* A request that signs or gives up is one claimant less.
LEMMA ClaimantRemoved ==
  ASSUME NEW q, NEW m, m \in Claimants(q), Claimants(q)' = Claimants(q) \ {m}
  PROVE  Cardinality(Claimants(q)') = Cardinality(Claimants(q)) - 1
BY ClaimantsCounted, FS_RemoveElement

\* A crash only takes claimants away.
LEMMA ClaimantsFewer ==
  ASSUME NEW q, Claimants(q)' \subseteq Claimants(q)
  PROVE  /\ Cardinality(Claimants(q)') <= Cardinality(Claimants(q))
         /\ Cardinality(Claimants(q)') \in Nat
<1>1. Claimants(q)' \in SUBSET Claimants(q)
  OBVIOUS
<1>2. IsFiniteSet(Claimants(q)') /\ Cardinality(Claimants(q)') <= Cardinality(Claimants(q))
  BY <1>1, ClaimantsCounted, FS_Subset
<1>3. QED
  BY <1>2, FS_CardinalityType

-----------------------------------------------------------------------------
(* The initial states *)

\* Before any payment nothing is claimed.
THEOREM MintInitInvariant == MintInit => MintIInv
<1> SUFFICES ASSUME MintInit PROVE MintIInv
  OBVIOUS
<1> USE DEF MintInit
<1>1. MintTypeOK
  BY StoreInitTypeOK DEF MintTypeOK, MintPcs
<1>2. \A q \in MintQuotes : Claimants(q) = {}
  BY DEF Claimants
<1>3. RequestsNamed /\ PollsAreRight /\ SignedIsCounted
  BY DEF RequestsNamed, PollsAreRight, SignedIsCounted
<1>4. UnpaidIsFresh
  BY <1>2 DEF UnpaidIsFresh
<1>5. ClaimsBacked
  <2>1. Cardinality({}) = 0
    BY FS_EmptySet
  <2>2. ASSUME NEW q \in MintQuotes
        PROVE  issues[q] + Cardinality(Claimants(q))
                 + (IF mintState[q] = "paid" THEN 1 ELSE 0) <= Receipts(q)
    <3>1. issues[q] = 0 /\ Cardinality(Claimants(q)) = 0 /\ mintState[q] = "unpaid"
      BY <1>2, <2>1
    <3>2. Receipts(q) \in Nat
      BY DEF Receipts
    <3>3. QED
      BY <3>1, <3>2
  <2>3. QED
    BY <2>2 DEF ClaimsBacked
<1>6. QED
  BY <1>1, <1>3, <1>4, <1>5 DEF MintIInv

-----------------------------------------------------------------------------
(* The node, the listener, polls and the internal settlement *)

\* Steps that move no request leave the claimants alone.
LEMMA SameClaimants ==
  ASSUME UNCHANGED mintLocals
  PROVE  \A q : Claimants(q)' = Claimants(q)
BY DEF mintLocals, Claimants

\* An invoice that is paid is one more receipt, and stays paid.
LEMMA InvoicePaidPreserves ==
  ASSUME MintIInv, NEW q \in MintQuotes, InvoicePaid(q)
  PROVE  MintIInv'
<1> USE DEF InvoicePaid, mintLocals, quotePollLocals
<1>1. \A p : Claimants(p)' = Claimants(p)
  BY SameClaimants
<1>2. MintTypeOK'
  BY StoreUnchangedTypeOK DEF MintIInv, MintTypeOK, MintPcs
<1>3. RequestsNamed' /\ PollsAreRight' /\ SignedIsCounted'
  BY DEF MintIInv, MintTypeOK, RequestsNamed, PollsAreRight, SignedIsCounted
<1>4. UnpaidIsFresh'
  BY <1>1 DEF MintIInv, UnpaidIsFresh
<1>5. ClaimsBacked'
  <2>1. \A p \in MintQuotes : Receipts(p)' >= Receipts(p)
    BY DEF MintIInv, MintTypeOK, Receipts
  <2>2. \A p \in MintQuotes : Receipts(p) \in Nat /\ Receipts(p)' \in Nat
    BY DEF Receipts
  <2>3. QED
    BY <1>1, <2>1, <2>2, ClaimantsCounted DEF MintIInv, MintTypeOK, ClaimsBacked
<1>6. QED
  BY <1>2, <1>3, <1>4, <1>5 DEF MintIInv

\* A quote goes from UNPAID to PAID when its invoice is settled: nobody had
\* claimed this payment, and nothing was signed.
LEMMA MarkedPaidPreserves ==
  ASSUME MintIInv, NEW q \in MintQuotes, mintState[q] = "unpaid",
         invoice[q] = "settled", SetMintState(q, "paid"), UNCHANGED mintLocals,
         UNCHANGED <<invoice, settling, issues>>
  PROVE  UnpaidIsFresh' /\ SignedIsCounted' /\ ClaimsBacked'
<1> USE DEF SetMintState
<1>1. \A p : Claimants(p)' = Claimants(p)
  BY SameClaimants
<1>2. UnpaidIsFresh' /\ SignedIsCounted'
  BY <1>1 DEF MintIInv, MintTypeOK, UnpaidIsFresh, SignedIsCounted, mintLocals
<1>3. ASSUME NEW p \in MintQuotes
      PROVE  issues[p] + Cardinality(Claimants(p))
               + (IF mintState'[p] = "paid" THEN 1 ELSE 0) <= Receipts(p)
  <2>1. CASE p = q
    <3>1. issues[q] = 0 /\ Claimants(q) = {}
      BY DEF MintIInv, UnpaidIsFresh
    <3>2. Cardinality(Claimants(q)) = 0
      BY <3>1, FS_EmptySet
    <3>3. Receipts(q) \in Nat /\ Receipts(q) >= 1
      BY DEF Receipts
    <3>4. QED
      BY <2>1, <3>1, <3>2, <3>3
  <2>2. CASE p # q
    <3>1. mintState'[p] = mintState[p]
      BY <2>2 DEF MintIInv, MintTypeOK
    <3>2. QED
      BY <3>1 DEF MintIInv, ClaimsBacked
  <2>3. QED
    BY <2>1, <2>2
<1>4. ClaimsBacked'
  <2>1. \A p \in MintQuotes : Receipts(p)' = Receipts(p)
    BY DEF Receipts
  <2>2. QED
    BY <1>1, <1>3, <2>1 DEF ClaimsBacked
<1>5. QED
  BY <1>2, <1>4

\* invoice_callback_dispatcher marks a quote paid when it is still UNPAID.
LEMMA ListenerPreserves ==
  ASSUME MintIInv, NEW q \in MintQuotes, ListenerMarksPaid(q)
  PROVE  MintIInv'
<1> USE DEF ListenerMarksPaid
<1>1. UnpaidIsFresh' /\ SignedIsCounted' /\ ClaimsBacked'
  BY MarkedPaidPreserves
<1>2. MintTypeOK'
  BY StoreUnchangedTypeOK DEF MintIInv, MintTypeOK, MintPcs, SetMintState,
                              mintLocals, quotePollLocals
<1>3. RequestsNamed' /\ PollsAreRight'
  BY DEF MintIInv, RequestsNamed, PollsAreRight, mintLocals, quotePollLocals
<1>4. QED
  BY <1>1, <1>2, <1>3 DEF MintIInv

\* get_mint_quote writes PAID only over UNPAID, after the node said settled.
LEMMA PollPreserves ==
  ASSUME MintIInv, NEW g \in QuotePollers, PollStep(g)
  PROVE  MintIInv'
<1>1. CASE \E q \in MintQuotes : PollReads(g, q)
  <2> PICK q \in MintQuotes : PollReads(g, q)
    BY <1>1
  <2> USE DEF PollReads, quoteVars
  <2>1. \A p : Claimants(p)' = Claimants(p)
    BY SameClaimants
  <2>2. MintTypeOK'
    BY StoreUnchangedTypeOK DEF MintIInv, MintTypeOK, MintPcs, mintLocals
  <2>3. RequestsNamed' /\ PollsAreRight' /\ SignedIsCounted'
    BY DEF MintIInv, MintTypeOK, RequestsNamed, PollsAreRight, SignedIsCounted,
           mintLocals
  <2>4. UnpaidIsFresh' /\ ClaimsBacked'
    BY <2>1 DEF MintIInv, UnpaidIsFresh, ClaimsBacked, Receipts
  <2>5. QED
    BY <2>2, <2>3, <2>4 DEF MintIInv
<1>2. CASE PollAsks(g)
  <2> USE <1>2 DEF PollAsks, quoteVars
  <2>1. \A p : Claimants(p)' = Claimants(p)
    BY SameClaimants
  <2>2. MintTypeOK'
    BY StoreUnchangedTypeOK DEF MintIInv, MintTypeOK, MintPcs, mintLocals
  <2>3. RequestsNamed' /\ PollsAreRight' /\ SignedIsCounted'
    BY DEF MintIInv, MintTypeOK, RequestsNamed, PollsAreRight, SignedIsCounted,
           mintLocals
  <2>4. UnpaidIsFresh' /\ ClaimsBacked'
    BY <2>1 DEF MintIInv, UnpaidIsFresh, ClaimsBacked, Receipts
  <2>5. QED
    BY <2>2, <2>3, <2>4 DEF MintIInv
<1>3. CASE PollMarksPaid(g)
  <2> DEFINE q == pollFor[g]
  <2>1. q \in MintQuotes /\ invoice[q] = "settled"
    BY <1>3 DEF PollMarksPaid, MintIInv, RequestsNamed, PollsAreRight
  <2>2. MintTypeOK'
    BY <1>3, StoreUnchangedTypeOK
    DEF PollMarksPaid, MintIInv, MintTypeOK, MintPcs, mintLocals
  <2>3. RequestsNamed' /\ PollsAreRight'
    BY <1>3 DEF PollMarksPaid, MintIInv, MintTypeOK, RequestsNamed, PollsAreRight,
                mintLocals
  <2>4. UnpaidIsFresh' /\ SignedIsCounted' /\ ClaimsBacked'
    <3>1. CASE mintState[q] = "unpaid"
      <4>1. SetMintState(q, "paid")
        BY <1>3, <3>1 DEF PollMarksPaid, SetMintState
      <4>2. UNCHANGED mintLocals /\ UNCHANGED <<invoice, settling, issues>>
        BY <1>3 DEF PollMarksPaid
      <4>3. QED
        BY <2>1, <3>1, <4>1, <4>2, MarkedPaidPreserves
    <3>2. CASE mintState[q] # "unpaid"
      <4>1. mintState' = mintState
        BY <1>3, <3>2 DEF PollMarksPaid, MintIInv, MintTypeOK
      <4>2. \A p : Claimants(p)' = Claimants(p)
        BY <1>3, SameClaimants DEF PollMarksPaid
      <4>3. QED
        BY <1>3, <4>1, <4>2
        DEF PollMarksPaid, mintLocals, MintIInv, UnpaidIsFresh, SignedIsCounted,
            ClaimsBacked, Receipts
    <3>3. QED
      BY <3>1, <3>2
  <2>5. QED
    BY <2>2, <2>3, <2>4 DEF MintIInv
<1>4. QED
  BY <1>1, <1>2, <1>3 DEF PollStep

\* melt_mint_settle_internally writes PAID over any state, and brings the
\* payment that this claims.
LEMMA InternalPaymentPreserves ==
  ASSUME MintIInv, NEW q \in MintQuotes, InternalPayment(q)
  PROVE  MintIInv'
<1>1. UNCHANGED <<storeVars, mintLocals, quotePollLocals, mintCrashes, invoice, issues>>
  BY DEF InternalPayment, SettleReads, SettleWrites
<1>2. \A p : Claimants(p)' = Claimants(p)
  BY <1>1, SameClaimants
<1>3. /\ mintState' \in [MintQuotes -> {"unpaid", "paid", "pending", "issued"}]
      /\ settling' \in [MintQuotes -> {"none", "read", "paid"}]
  BY DEF InternalPayment, SettleReads, SettleWrites, SetMintState, MintIInv, MintTypeOK
<1>4. MintTypeOK'
  BY <1>1, <1>3, StoreUnchangedTypeOK
  DEF MintIInv, MintTypeOK, MintPcs, mintLocals, quotePollLocals
<1>5. RequestsNamed' /\ PollsAreRight'
  BY <1>1 DEF MintIInv, RequestsNamed, PollsAreRight, mintLocals, quotePollLocals
<1>6. CASE SettleReads(q)
  <2>1. \A p \in MintQuotes : settling'[p] = "paid" <=> settling[p] = "paid"
    BY <1>6 DEF SettleReads, MintIInv, MintTypeOK
  <2>2. mintState' = mintState
    BY <1>6 DEF SettleReads
  <2>3. UnpaidIsFresh' /\ SignedIsCounted' /\ ClaimsBacked'
    BY <1>1, <1>2, <2>1, <2>2
    DEF MintIInv, UnpaidIsFresh, SignedIsCounted, ClaimsBacked, Receipts, mintLocals
  <2>4. QED
    BY <1>4, <1>5, <2>3 DEF MintIInv
<1>7. CASE SettleWrites(q)
  <2>1. /\ settling[q] = "read" /\ settling'[q] = "paid" /\ mintState'[q] = "paid"
        /\ \A p \in MintQuotes : p # q =>
             settling'[p] = settling[p] /\ mintState'[p] = mintState[p]
    BY <1>7 DEF SettleWrites, SetMintState, MintIInv, MintTypeOK
  <2>2. UnpaidIsFresh' /\ SignedIsCounted'
    BY <1>1, <1>2, <2>1 DEF MintIInv, UnpaidIsFresh, SignedIsCounted, mintLocals
  <2>3. ASSUME NEW p \in MintQuotes
        PROVE  issues[p] + Cardinality(Claimants(p))
                 + (IF mintState'[p] = "paid" THEN 1 ELSE 0) <= Receipts(p)'
    <3>1. /\ issues[p] \in Nat /\ Cardinality(Claimants(p)) \in Nat
          /\ issues[p] + Cardinality(Claimants(p))
               + (IF mintState[p] = "paid" THEN 1 ELSE 0) <= Receipts(p)
      BY ClaimantsCounted DEF MintIInv, MintTypeOK, ClaimsBacked
    <3>2. CASE p = q
      <4>1. Receipts(q)' = Receipts(q) + 1 /\ Receipts(q) \in Nat
        BY <1>1, <2>1 DEF Receipts
      <4>2. QED
        BY <3>1, <3>2, <4>1
    <3>3. CASE p # q
      <4>1. Receipts(p)' = Receipts(p)
        BY <1>1, <2>1, <3>3 DEF Receipts
      <4>2. QED
        BY <2>1, <3>1, <3>3, <4>1
    <3>4. QED
      BY <3>2, <3>3
  <2>4. ClaimsBacked'
    BY <1>1, <1>2, <2>3 DEF ClaimsBacked
  <2>5. QED
    BY <1>4, <1>5, <2>2, <2>4 DEF MintIInv
<1>8. QED
  BY <1>6, <1>7 DEF InternalPayment

-----------------------------------------------------------------------------
(* Ledger.mint *)

\* The properties of quotes that a step keeps when it changes neither their
\* columns nor the claimants.
LEMMA QuotesUnchanged ==
  ASSUME MintIInv, UNCHANGED quoteVars, \A q \in MintQuotes : Claimants(q)' = Claimants(q)
  PROVE  UnpaidIsFresh' /\ ClaimsBacked'
BY DEF MintIInv, quoteVars, UnpaidIsFresh, ClaimsBacked, Receipts

\* A request that was verified has claimed nothing yet.
LEMMA MintVerifyPreserves ==
  ASSUME MintIInv, NEW m \in Mints, NEW q \in MintQuotes,
         NEW O \in SUBSET (Tokens \ signed), MintVerify(m, q, O)
  PROVE  MintIInv'
<1> USE DEF MintVerify, MintGoto
<1>1. \A p \in MintQuotes : Claimants(p)' = Claimants(p)
  BY DEF Claimants, MintIInv, MintTypeOK
<1>2. MintTypeOK'
  BY StoreUnchangedTypeOK DEF MintIInv, MintTypeOK, MintPcs, quoteVars, quotePollLocals
<1>3. RequestsNamed' /\ PollsAreRight' /\ SignedIsCounted'
  BY DEF MintIInv, MintTypeOK, RequestsNamed, PollsAreRight, SignedIsCounted,
         quoteVars, quotePollLocals
<1>4. QED
  BY <1>1, <1>2, <1>3, QuotesUnchanged DEF MintIInv

\* _set_mint_quote_pending turns the claim of the quote into one of the request.
LEMMA MintHoldPreserves ==
  ASSUME MintIInv, NEW m \in Mints, MintHold(m)
  PROVE  MintIInv'
<1> DEFINE q == mintFor[m]
<1> USE DEF MintHold, MintGoto, SetMintState, KeepMint
<1>1. q \in MintQuotes
  BY DEF MintIInv, RequestsNamed
<1>2. MintTypeOK'
  BY <1>1, StoreUnchangedTypeOK DEF MintIInv, MintTypeOK, MintPcs, quotePollLocals
<1>3. RequestsNamed' /\ PollsAreRight' /\ SignedIsCounted'
  BY DEF MintIInv, MintTypeOK, RequestsNamed, PollsAreRight, SignedIsCounted,
         quotePollLocals
<1>4. m \notin Claimants(q) /\ Claimants(q)' = Claimants(q) \cup {m}
  BY DEF Claimants, MintIInv, MintTypeOK
<1>5. \A p \in MintQuotes : p # q =>
        Claimants(p)' = Claimants(p) /\ mintState'[p] = mintState[p]
  BY DEF Claimants, MintIInv, MintTypeOK
<1>6. mintState[q] = "paid" /\ mintState'[q] = "pending"
  BY <1>1 DEF MintIInv, MintTypeOK
<1>7. UnpaidIsFresh'
  BY <1>5, <1>6 DEF MintIInv, UnpaidIsFresh
<1>8. ASSUME NEW p \in MintQuotes
      PROVE  issues[p] + Cardinality(Claimants(p)')
               + (IF mintState'[p] = "paid" THEN 1 ELSE 0) <= Receipts(p)
  <2>1. /\ issues[p] \in Nat /\ Cardinality(Claimants(p)) \in Nat
        /\ issues[p] + Cardinality(Claimants(p))
             + (IF mintState[p] = "paid" THEN 1 ELSE 0) <= Receipts(p)
        /\ Receipts(p) \in Nat
    BY ClaimantsCounted DEF MintIInv, MintTypeOK, ClaimsBacked, Receipts
  <2>2. CASE p = q
    <3>1. Cardinality(Claimants(q)') = Cardinality(Claimants(q)) + 1
      BY <1>4, ClaimantAdded
    <3>2. QED
      BY <1>6, <2>1, <2>2, <3>1
  <2>3. CASE p # q
    BY <1>5, <2>1, <2>3
  <2>4. QED
    BY <2>2, <2>3
<1>9. ClaimsBacked'
  BY <1>8 DEF ClaimsBacked, Receipts
<1>10. QED
  BY <1>2, <1>3, <1>7, <1>9 DEF MintIInv

\* A refusal, the storing of outputs and a raise in the try move a request on
\* with its claim.
LEMMA MintKeepsClaimPreserves ==
  ASSUME MintIInv, NEW m \in Mints, MintRefuse(m) \/ MintStore(m) \/ MintFail(m)
  PROVE  MintIInv'
<1>1. /\ UNCHANGED quoteVars /\ KeepMint
      /\ \/ mintPc[m] = "verified" /\ MintGoto(m, "failed")
         \/ mintPc[m] \in {"held", "stored"} /\ MintGoto(m, "stored")
         \/ mintPc[m] \in {"held", "stored"} /\ MintGoto(m, "failing")
  BY DEF MintRefuse, MintStore, MintFail
<1>2. \A p \in MintQuotes : Claimants(p)' = Claimants(p)
  BY <1>1 DEF MintGoto, KeepMint, Claimants, MintIInv, MintTypeOK
<1>3. StoreTypeOK'
  <2>1. CASE UNCHANGED storeVars
    BY <2>1, StoreUnchangedTypeOK DEF MintIInv, MintTypeOK
  <2>2. CASE StoreOutputs(mintOuts[m], NoQuote)
    <3>1. mintOuts[m] \in SUBSET Tokens /\ NoQuote \in Quotes
      BY DEF MintIInv, MintTypeOK, Quotes
    <3>2. QED
      BY <2>2, <3>1, StoreOutputsTypeOK DEF MintIInv, MintTypeOK
  <2>3. QED
    BY <2>1, <2>2 DEF MintRefuse, MintStore, MintFail
<1>4. MintTypeOK'
  BY <1>1, <1>3 DEF MintIInv, MintTypeOK, MintPcs, MintGoto, KeepMint, quoteVars,
                    quotePollLocals
<1>5. RequestsNamed' /\ PollsAreRight' /\ SignedIsCounted'
  BY <1>1 DEF MintIInv, MintTypeOK, RequestsNamed, PollsAreRight, SignedIsCounted,
              MintGoto, KeepMint, quoteVars, quotePollLocals
<1>6. QED
  BY <1>1, <1>2, <1>4, <1>5, QuotesUnchanged DEF MintIInv

\* _sign_blinded_messages turns a claim into an issue.
LEMMA MintSignPreserves ==
  ASSUME MintIInv, NEW m \in Mints, MintSign(m)
  PROVE  MintIInv'
<1> DEFINE q == mintFor[m]
<1> USE DEF MintSign, MintGoto, KeepMint
<1>1. q \in MintQuotes /\ mintOuts[m] \in SUBSET Tokens
  BY DEF MintIInv, MintTypeOK, RequestsNamed
<1>2. StoreTypeOK'
  BY <1>1, SignOutputsTypeOK DEF MintIInv, MintTypeOK
<1>3. /\ issues' \in [MintQuotes -> Nat] /\ issues'[q] = issues[q] + 1
      /\ \A p \in MintQuotes : p # q => issues'[p] = issues[p]
  BY <1>1 DEF MintIInv, MintTypeOK
<1>4. MintTypeOK'
  BY <1>2, <1>3 DEF MintIInv, MintTypeOK, MintPcs, quotePollLocals
<1>5. RequestsNamed' /\ PollsAreRight'
  BY DEF MintIInv, MintTypeOK, RequestsNamed, PollsAreRight, quotePollLocals
<1>6. SignedIsCounted'
  <2>1. \A p \in MintQuotes : issues'[p] >= issues[p] /\ issues[p] \in Nat
    BY <1>3 DEF MintIInv, MintTypeOK
  <2>2. issues'[q] >= 1
    BY <1>1, <1>3, <2>1
  <2>3. \A p \in MintQuotes : issues[p] >= 1 => issues'[p] >= 1
    BY <1>3, <2>1
  <2>4. ASSUME NEW n \in Mints, mintPc'[n] = "signed"
        PROVE  issues'[mintFor[n]] >= 1
    <3>1. CASE n = m
      BY <2>2, <3>1
    <3>2. CASE n # m
      <4>1. mintPc[n] = "signed"
        BY <2>4, <3>2 DEF MintIInv, MintTypeOK
      <4>2. mintFor[n] \in MintQuotes /\ issues[mintFor[n]] >= 1
        BY <4>1 DEF MintIInv, RequestsNamed, SignedIsCounted
      <4>3. QED
        BY <2>3, <4>2
    <3>3. QED
      BY <3>1, <3>2
  <2>5. QED
    BY <2>3, <2>4 DEF MintIInv, SignedIsCounted
<1>7. m \in Claimants(q) /\ Claimants(q)' = Claimants(q) \ {m}
  BY DEF Claimants, MintIInv, MintTypeOK
<1>8. \A p \in MintQuotes : p # q => Claimants(p)' = Claimants(p)
  BY DEF Claimants, MintIInv, MintTypeOK
<1>9. UnpaidIsFresh'
  BY <1>3, <1>7, <1>8 DEF MintIInv, UnpaidIsFresh
<1>10. ASSUME NEW p \in MintQuotes
       PROVE  issues'[p] + Cardinality(Claimants(p)')
                + (IF mintState[p] = "paid" THEN 1 ELSE 0) <= Receipts(p)
  <2>1. /\ issues[p] \in Nat /\ Cardinality(Claimants(p)) \in Nat
        /\ issues[p] + Cardinality(Claimants(p))
             + (IF mintState[p] = "paid" THEN 1 ELSE 0) <= Receipts(p)
        /\ Receipts(p) \in Nat
    BY ClaimantsCounted DEF MintIInv, MintTypeOK, ClaimsBacked, Receipts
  <2>2. CASE p = q
    <3>1. Cardinality(Claimants(q)') = Cardinality(Claimants(q)) - 1
      BY <1>7, ClaimantRemoved
    <3>2. QED
      BY <1>3, <2>1, <2>2, <3>1
  <2>3. CASE p # q
    BY <1>3, <1>8, <2>1, <2>3
  <2>4. QED
    BY <2>2, <2>3
<1>11. ClaimsBacked'
  BY <1>10 DEF ClaimsBacked, Receipts
<1>12. QED
  BY <1>4, <1>5, <1>6, <1>9, <1>11 DEF MintIInv

\* _unset_mint_quote_pending after a failure gives the claim back to the
\* quote, or drops it when the quote is not PENDING any more.
LEMMA MintRestorePreserves ==
  ASSUME MintIInv, NEW m \in Mints, MintRestore(m)
  PROVE  MintIInv'
<1> DEFINE q == mintFor[m]
<1> USE DEF MintRestore, MintGoto, UnsetQuotePending, KeepMint
<1>1. q \in MintQuotes
  BY DEF MintIInv, RequestsNamed
<1>2. MintTypeOK'
  BY <1>1, StoreUnchangedTypeOK DEF MintIInv, MintTypeOK, MintPcs, quotePollLocals
<1>3. RequestsNamed' /\ PollsAreRight' /\ SignedIsCounted'
  BY DEF MintIInv, MintTypeOK, RequestsNamed, PollsAreRight, SignedIsCounted,
         quotePollLocals
<1>4. m \in Claimants(q) /\ Claimants(q)' = Claimants(q) \ {m}
  BY DEF Claimants, MintIInv, MintTypeOK
<1>5. \A p \in MintQuotes : p # q =>
        Claimants(p)' = Claimants(p) /\ mintState'[p] = mintState[p]
  BY DEF Claimants, MintIInv, MintTypeOK
<1>6. mintState'[q] = "unpaid" => mintState[q] = "unpaid"
  BY <1>1 DEF MintIInv, MintTypeOK
<1>7. UnpaidIsFresh'
  BY <1>4, <1>5, <1>6 DEF MintIInv, UnpaidIsFresh
<1>8. ASSUME NEW p \in MintQuotes
      PROVE  issues[p] + Cardinality(Claimants(p)')
               + (IF mintState'[p] = "paid" THEN 1 ELSE 0) <= Receipts(p)
  <2>1. /\ issues[p] \in Nat /\ Cardinality(Claimants(p)) \in Nat
        /\ issues[p] + Cardinality(Claimants(p))
             + (IF mintState[p] = "paid" THEN 1 ELSE 0) <= Receipts(p)
        /\ Receipts(p) \in Nat
    BY ClaimantsCounted DEF MintIInv, MintTypeOK, ClaimsBacked, Receipts
  <2>2. CASE p = q
    <3>1. Cardinality(Claimants(q)') = Cardinality(Claimants(q)) - 1
      BY <1>4, ClaimantRemoved
    <3>2. QED
      BY <2>1, <2>2, <3>1
  <2>3. CASE p # q
    BY <1>5, <2>1, <2>3
  <2>4. QED
    BY <2>2, <2>3
<1>9. ClaimsBacked'
  BY <1>8 DEF ClaimsBacked, Receipts
<1>10. QED
  BY <1>2, <1>3, <1>7, <1>9 DEF MintIInv

\* _unset_mint_quote_pending after the signature: ISSUED is backed by it.
LEMMA MintIssuePreserves ==
  ASSUME MintIInv, NEW m \in Mints, MintIssue(m)
  PROVE  MintIInv'
<1> DEFINE q == mintFor[m]
<1> USE DEF MintIssue, MintGoto, UnsetQuotePending, KeepMint
<1>1. q \in MintQuotes /\ issues[q] >= 1
  BY DEF MintIInv, RequestsNamed, SignedIsCounted
<1>2. MintTypeOK'
  BY <1>1, StoreUnchangedTypeOK DEF MintIInv, MintTypeOK, MintPcs, quotePollLocals
<1>3. RequestsNamed' /\ PollsAreRight' /\ SignedIsCounted'
  BY <1>1 DEF MintIInv, MintTypeOK, RequestsNamed, PollsAreRight, SignedIsCounted,
              quotePollLocals
<1>4. \A p \in MintQuotes : Claimants(p)' = Claimants(p)
  BY DEF Claimants, MintIInv, MintTypeOK
<1>5. \A p \in MintQuotes : /\ mintState'[p] = "unpaid" => mintState[p] = "unpaid"
                            /\ mintState'[p] = "paid" => mintState[p] = "paid"
  BY DEF MintIInv, MintTypeOK
<1>6. UnpaidIsFresh'
  BY <1>4, <1>5 DEF MintIInv, UnpaidIsFresh
<1>7. ASSUME NEW p \in MintQuotes
      PROVE  issues[p] + Cardinality(Claimants(p))
               + (IF mintState'[p] = "paid" THEN 1 ELSE 0) <= Receipts(p)
  <2>1. /\ issues[p] \in Nat /\ Cardinality(Claimants(p)) \in Nat
        /\ issues[p] + Cardinality(Claimants(p))
             + (IF mintState[p] = "paid" THEN 1 ELSE 0) <= Receipts(p)
        /\ Receipts(p) \in Nat
    BY ClaimantsCounted DEF MintIInv, MintTypeOK, ClaimsBacked, Receipts
  <2>2. QED
    BY <1>5, <2>1
<1>8. ClaimsBacked'
  BY <1>4, <1>7 DEF ClaimsBacked, Receipts
<1>9. QED
  BY <1>2, <1>3, <1>6, <1>8 DEF MintIInv

-----------------------------------------------------------------------------
(* Requests that end badly, crashes and the rotation of keysets *)

\* Nothing is wrong with claims that are dropped.
LEMMA FewerClaimsBacked ==
  ASSUME MintIInv, UNCHANGED quoteVars,
         \A p \in MintQuotes : Claimants(p)' \subseteq Claimants(p)
  PROVE  UnpaidIsFresh' /\ ClaimsBacked'
<1>1. UnpaidIsFresh'
  BY DEF MintIInv, UnpaidIsFresh, quoteVars
<1>2. ASSUME NEW p \in MintQuotes
      PROVE  issues[p] + Cardinality(Claimants(p)')
               + (IF mintState[p] = "paid" THEN 1 ELSE 0) <= Receipts(p)
  <2>1. /\ issues[p] \in Nat /\ Cardinality(Claimants(p)) \in Nat
        /\ issues[p] + Cardinality(Claimants(p))
             + (IF mintState[p] = "paid" THEN 1 ELSE 0) <= Receipts(p)
        /\ Receipts(p) \in Nat
    BY ClaimantsCounted DEF MintIInv, MintTypeOK, ClaimsBacked, Receipts
  <2>2. /\ Cardinality(Claimants(p)') <= Cardinality(Claimants(p))
        /\ Cardinality(Claimants(p)') \in Nat
    BY ClaimantsFewer
  <2>3. QED
    BY <2>1, <2>2
<1>3. QED
  BY <1>1, <1>2 DEF ClaimsBacked, Receipts, quoteVars

\* An _unset_mint_quote_pending that raises leaves the quote as it is, and
\* drops the claim of its request.
LEMMA MintUnsetRaisesPreserves ==
  ASSUME MintIInv, NEW m \in Mints, MintUnsetRaises(m)
  PROVE  MintIInv'
<1> USE DEF MintUnsetRaises, MintGoto, KeepMint
<1>1. MintTypeOK'
  BY StoreUnchangedTypeOK DEF MintIInv, MintTypeOK, MintPcs, quoteVars, quotePollLocals
<1>2. RequestsNamed' /\ PollsAreRight' /\ SignedIsCounted'
  BY DEF MintIInv, MintTypeOK, RequestsNamed, PollsAreRight, SignedIsCounted, quoteVars,
         quotePollLocals
<1>3. \A p \in MintQuotes : Claimants(p)' \subseteq Claimants(p)
  BY DEF Claimants, MintIInv, MintTypeOK
<1>4. UnpaidIsFresh' /\ ClaimsBacked'
  BY <1>3, FewerClaimsBacked DEF quoteVars
<1>5. QED
  BY <1>1, <1>2, <1>4 DEF MintIInv

\* A crash takes requests and polls away; what they claimed is lost.
LEMMA MintCrashPreserves ==
  ASSUME MintIInv, MintCrash
  PROVE  MintIInv'
<1> USE DEF MintCrash, MintRunning
<1>1. MintTypeOK'
  BY StoreUnchangedTypeOK DEF MintIInv, MintTypeOK, MintPcs, quoteVars
<1>2. RequestsNamed' /\ PollsAreRight' /\ SignedIsCounted'
  BY DEF MintIInv, MintTypeOK, RequestsNamed, PollsAreRight, SignedIsCounted, quoteVars
<1>3. \A p \in MintQuotes : Claimants(p)' \subseteq Claimants(p)
  BY DEF Claimants, MintIInv, MintTypeOK
<1>4. UnpaidIsFresh' /\ ClaimsBacked'
  BY <1>3, FewerClaimsBacked
<1>5. QED
  BY <1>1, <1>2, <1>4 DEF MintIInv

\* rotate_next_keyset touches no quote, and a stuttering step nothing.
LEMMA MintRotatePreserves ==
  ASSUME MintIInv, MintRotate \/ UNCHANGED mintVars
  PROVE  MintIInv'
<1>1. UNCHANGED <<quoteVars, mintLocals, quotePollLocals, mintCrashes>>
  BY DEF MintRotate, mintVars
<1>2. \A p \in MintQuotes : Claimants(p)' = Claimants(p)
  BY <1>1, SameClaimants
<1>3. StoreTypeOK'
  BY DeactivateTypeOK, StoreUnchangedTypeOK DEF MintIInv, MintTypeOK, MintRotate, mintVars
<1>4. MintTypeOK'
  BY <1>1, <1>3 DEF MintIInv, MintTypeOK, MintPcs, quoteVars, mintLocals, quotePollLocals
<1>5. RequestsNamed' /\ PollsAreRight' /\ SignedIsCounted'
  BY <1>1 DEF MintIInv, RequestsNamed, PollsAreRight, SignedIsCounted, quoteVars,
              mintLocals, quotePollLocals
<1>6. QED
  BY <1>1, <1>2, <1>4, <1>5, QuotesUnchanged DEF MintIInv

-----------------------------------------------------------------------------
(* The theorems *)

\* Every transaction of mint, of the polls, of the listener and of an
\* internal melt preserves the invariant.
THEOREM MintNextInvariant == MintIInv /\ [MintNext]_mintVars => MintIInv'
<1> SUFFICES ASSUME MintIInv, [MintNext]_mintVars PROVE MintIInv'
  OBVIOUS
<1>1. ASSUME NEW q \in MintQuotes,
             InvoicePaid(q) \/ ListenerMarksPaid(q) \/ InternalPayment(q)
      PROVE  MintIInv'
  BY <1>1, InvoicePaidPreserves, ListenerPreserves, InternalPaymentPreserves
<1>2. ASSUME NEW g \in QuotePollers, PollStep(g)
      PROVE  MintIInv'
  BY <1>2, PollPreserves
<1>3. ASSUME NEW m \in Mints, MintStep(m)
      PROVE  MintIInv'
  BY <1>3, MintHoldPreserves, MintKeepsClaimPreserves, MintSignPreserves,
     MintRestorePreserves, MintIssuePreserves, MintUnsetRaisesPreserves DEF MintStep
<1>4. ASSUME NEW m \in Mints, NEW q \in MintQuotes,
             NEW O \in SUBSET (Tokens \ signed), MintVerify(m, q, O)
      PROVE  MintIInv'
  BY <1>4, MintVerifyPreserves
<1>5. CASE MintRotate \/ MintCrash \/ UNCHANGED mintVars
  BY <1>5, MintRotatePreserves, MintCrashPreserves
<1>6. QED
  BY <1>1, <1>2, <1>3, <1>4, <1>5 DEF MintNext

\* The invariant holds in every state of every behaviour.
THEOREM MintInvariant == MintSpec => []MintIInv
<1>1. QED
  BY MintInitInvariant, MintNextInvariant, PTL DEF MintSpec

\* The columns of mint_quotes and the tables keep their types and
\* constraints, whatever requests, polls, melts and crashes do.
THEOREM MintTypeCorrect == MintSpec => []MintTypeOK
<1>1. MintIInv => MintTypeOK
  BY DEF MintIInv
<1>2. QED
  BY <1>1, MintInvariant, PTL

\* A PAID quote and every request between its lock and its signature stand
\* for a payment of their own.
THEOREM ClaimsAreBacked == MintSpec => []ClaimsBacked
<1>1. MintIInv => ClaimsBacked
  BY DEF MintIInv
<1>2. QED
  BY <1>1, MintInvariant, PTL

\* Ledger.mint never signs promises for a quote more often than the quote
\* was paid.
THEOREM IssuesAreBacked == MintSpec => []IssuedBacked
<1>1. MintIInv => IssuedBacked
  <2> SUFFICES ASSUME MintIInv, NEW q \in MintQuotes
               PROVE  issues[q] <= Receipts(q)
    BY DEF IssuedBacked
  <2>1. /\ issues[q] \in Nat /\ Cardinality(Claimants(q)) \in Nat
        /\ issues[q] + Cardinality(Claimants(q))
             + (IF mintState[q] = "paid" THEN 1 ELSE 0) <= Receipts(q)
        /\ Receipts(q) \in Nat
    BY ClaimantsCounted DEF MintIInv, MintTypeOK, ClaimsBacked, Receipts
  <2>2. QED
    BY <2>1
<1>2. QED
  BY <1>1, MintInvariant, PTL

\* While a quote is paid over Lightning only, the lock of
\* _set_mint_quote_pending admits one request, and holds until it is done.
THEOREM OneMinterAtATime == MintSpec => []OneMinterPerQuote
<1>1. MintIInv => OneMinterPerQuote
  <2> SUFFICES ASSUME MintIInv, NEW q \in MintQuotes, settling[q] # "paid"
               PROVE  /\ Cardinality(Claimants(q)) <= 1
                      /\ Claimants(q) # {} => mintState[q] = "pending"
    BY DEF OneMinterPerQuote
  <2>1. /\ issues[q] \in Nat /\ Cardinality(Claimants(q)) \in Nat
        /\ issues[q] + Cardinality(Claimants(q))
             + (IF mintState[q] = "paid" THEN 1 ELSE 0) <= 1
    BY ClaimantsCounted DEF MintIInv, MintTypeOK, ClaimsBacked, Receipts
  <2>2. ASSUME Claimants(q) # {}
        PROVE  mintState[q] = "pending"
    <3>1. Cardinality(Claimants(q)) # 0
      BY <2>2, ClaimantsCounted, FS_EmptySet
    <3>2. issues[q] = 0 /\ mintState[q] # "paid"
      BY <2>1, <3>1
    <3>3. mintState[q] # "unpaid"
      BY <2>2 DEF MintIInv, UnpaidIsFresh
    <3>4. mintState[q] # "issued"
      BY <3>2 DEF MintIInv, SignedIsCounted
    <3>5. QED
      BY <3>2, <3>3, <3>4 DEF MintIInv, MintTypeOK
  <2>3. QED
    BY <2>1, <2>2
<1>2. QED
  BY <1>1, MintInvariant, PTL

-----------------------------------------------------------------------------
(***************************************************************************)
(* Melt: whatever requests, polls, payments and crashes do to each other,  *)
(* keysets.balance is never less than what the tables say; the types of it *)
(* all; and requests keep what they hold until a poll rolls a quote back.   *)
(***************************************************************************)

(* The inductive invariant *)

\* The tables and the balance have their types, the balance its bound.
Books ==
  /\ signed \in SUBSET Tokens /\ used \in SUBSET Tokens /\ pending \in SUBSET Tokens
  /\ stored \in SUBSET Tokens
  /\ balance \in [Keysets -> Int]
  /\ BalanceNeverUndercounts

\* What requests and polls carry from one transaction to the next are tokens:
\* the books need no more of them, however stale it is when it is written.
CarriedAreTokens ==
  /\ meltIns \in [Melts -> SUBSET Tokens]
  /\ meltOuts \in [Melts -> SUBSET Tokens]
  /\ askIns \in [Askers -> SUBSET Tokens]
  /\ askOuts \in [Askers -> SUBSET Tokens]

MeltIInv == Books /\ CarriedAreTokens

\* The initial tables balance, and nobody carries anything.
THEOREM MeltInitInvariant == MeltInit => MeltIInv
<1> SUFFICES ASSUME MeltInit PROVE MeltIInv
  OBVIOUS
<1>1. StoreInit /\ Genesis \in SUBSET Tokens
  BY TokensAssumption DEF MeltInit, MintInit
<1>2. balance \in [Keysets -> Int]
  BY <1>1, StoreInitTypeOK DEF StoreTypeOK
<1>3. BalanceNeverUndercounts
  <2>1. ASSUME NEW k \in Keysets
        PROVE  balance[k] >= Value(Of(Genesis, k)) - Value(Of({}, k)) - Value(Of({}, k))
    <3>1. balance[k] = Value(Of(Genesis, k)) /\ Value(Of(Genesis, k)) \in Nat
      BY <1>1, OfType DEF StoreInit
    <3>2. Value(Of({}, k)) = 0
      BY OfEmpty
    <3>3. QED
      BY <3>1, <3>2
  <2>2. QED
    BY <1>1, <2>1 DEF BalanceNeverUndercounts, StoreInit
<1>4. Books
  BY <1>1, <1>2, <1>3 DEF Books, StoreInit
<1>5. CarriedAreTokens
  BY DEF MeltInit, CarriedAreTokens
<1>6. QED
  BY <1>4, <1>5 DEF MeltIInv

-----------------------------------------------------------------------------
(* What the transactions do to the books *)

\* A step that writes neither of the three tables nor the balance.
LEMMA BooksUnchanged ==
  ASSUME Books, UNCHANGED <<signed, used, pending, balance>>, stored' \in SUBSET Tokens
  PROVE  Books'
BY DEF Books, BalanceNeverUndercounts

\* _store_blinded_messages and delete_blinded_messages_melt_id do not touch
\* what the balance counts.
LEMMA BooksOfOutputs ==
  ASSUME Books, NEW O \in SUBSET Tokens, NEW q, StoreOutputs(O, q) \/ DeleteOutputs(q)
  PROVE  Books'
<1>1. UNCHANGED <<signed, used, pending, balance>>
  BY DEF StoreOutputs, DeleteOutputs, spends, pendings
<1>2. stored' \in SUBSET Tokens
  BY DEF Books, StoreOutputs, DeleteOutputs
<1>3. QED
  BY <1>1, <1>2, BooksUnchanged

\* Adding a set takes at most its amount: part of it may be there already.
LEMMA OfUnion ==
  ASSUME NEW S \in SUBSET Tokens, NEW T \in SUBSET Tokens, NEW k
  PROVE  /\ Value(Of(S \cup T, k)) <= Value(Of(S, k)) + Value(Of(T, k))
         /\ Value(Of(S \cup T, k)) \in Nat
         /\ Value(Of(S, k)) \in Nat /\ Value(Of(T, k)) \in Nat
<1>1. T \ S \in SUBSET T /\ S \cap T \in SUBSET T /\ T \ (S \cap T) = T \ S
  OBVIOUS
<1>2. /\ Value(Of(T \ (S \cap T), k)) = Value(Of(T, k)) - Value(Of(S \cap T, k))
      /\ Value(Of(T, k)) \in Nat /\ Value(Of(S \cap T, k)) \in Nat
  BY <1>1, OfMinus
<1>3. T \ S \in SUBSET Tokens /\ S \cap (T \ S) = {} /\ S \cup (T \ S) = S \cup T
  OBVIOUS
<1>4. /\ Value(Of(S \cup (T \ S), k)) = Value(Of(S, k)) + Value(Of(T \ S, k))
      /\ Value(Of(S, k)) \in Nat /\ Value(Of(T \ S, k)) \in Nat
  BY <1>3, OfPlus
<1>5. Value(Of(T \ S, k)) = Value(Of(T, k)) - Value(Of(S \cap T, k))
  BY <1>1, <1>2
<1>6. Value(Of(S \cup T, k)) = Value(Of(S, k)) + Value(Of(T \ S, k))
  BY <1>3, <1>4
<1>7. QED
  BY <1>2, <1>4, <1>5, <1>6

\* Removing a set takes away at most its amount: it may be gone already.
LEMMA OfDifference ==
  ASSUME NEW S \in SUBSET Tokens, NEW T \in SUBSET Tokens, NEW k
  PROVE  /\ Value(Of(S \ T, k)) >= Value(Of(S, k)) - Value(Of(T, k))
         /\ Value(Of(S \ T, k)) \in Nat
         /\ Value(Of(S, k)) \in Nat /\ Value(Of(T, k)) \in Nat
<1>1. (S \ T) \cup T = S \cup T /\ S \ T \in SUBSET Tokens /\ (S \ T) \cap T = {}
  OBVIOUS
<1>2. /\ Value(Of((S \ T) \cup T, k)) = Value(Of(S \ T, k)) + Value(Of(T, k))
      /\ Value(Of(S \ T, k)) \in Nat /\ Value(Of(T, k)) \in Nat
  BY <1>1, OfPlus
<1>3. T \ S \in SUBSET Tokens /\ S \cap (T \ S) = {} /\ S \cup (T \ S) = S \cup T
  OBVIOUS
<1>4. /\ Value(Of(S \cup (T \ S), k)) = Value(Of(S, k)) + Value(Of(T \ S, k))
      /\ Value(Of(S, k)) \in Nat /\ Value(Of(T \ S, k)) \in Nat
  BY <1>3, OfPlus
<1>5. Value(Of(S \ T, k)) + Value(Of(T, k)) = Value(Of(S, k)) + Value(Of(T \ S, k))
  BY <1>1, <1>2, <1>3, <1>4
<1>6. QED
  BY <1>2, <1>4, <1>5

\* One bump of the balance, by In and against Out, that the tables explain.
LEMMA BumpKeepsBooks ==
  ASSUME Books, NEW In \in SUBSET Tokens, NEW Out \in SUBSET Tokens,
         balance' = Bumped(In, Out),
         signed' \in SUBSET Tokens, used' \in SUBSET Tokens,
         pending' \in SUBSET Tokens, stored' \in SUBSET Tokens,
         \A k \in Keysets :
           Value(Of(signed', k)) - Value(Of(used', k)) - Value(Of(pending', k))
             <= Value(Of(signed, k)) - Value(Of(used, k)) - Value(Of(pending, k))
                + Value(Of(In, k)) - Value(Of(Out, k))
  PROVE  Books'
<1>1. balance \in [Keysets -> Int]
  BY DEF Books
<1>2. /\ balance' \in [Keysets -> Int]
      /\ \A k \in Keysets :
           /\ balance'[k] = balance[k] + Value(Of(In, k)) - Value(Of(Out, k))
           /\ Value(Of(In, k)) \in Nat /\ Value(Of(Out, k)) \in Nat
  BY <1>1, BumpedBy
<1>3. ASSUME NEW k \in Keysets
      PROVE  balance'[k] >= Value(Of(signed', k)) - Value(Of(used', k))
                              - Value(Of(pending', k))
  <2>1. /\ Value(Of(signed, k)) \in Nat /\ Value(Of(used, k)) \in Nat
        /\ Value(Of(pending, k)) \in Nat
    BY OfType DEF Books
  <2>2. /\ Value(Of(signed', k)) \in Nat /\ Value(Of(used', k)) \in Nat
        /\ Value(Of(pending', k)) \in Nat
    BY OfType
  <2>3. balance[k] >= Value(Of(signed, k)) - Value(Of(used, k)) - Value(Of(pending, k))
    BY DEF Books, BalanceNeverUndercounts
  <2>4. QED
    BY <1>1, <1>2, <2>1, <2>2, <2>3
<1>4. BalanceNeverUndercounts'
  BY <1>3 DEF BalanceNeverUndercounts, Of
<1>5. QED
  BY <1>2, <1>4 DEF Books

\* _verify_spent_proofs_and_set_pending: its checks make the rows new ones,
\* so the balance goes down by what becomes pending.
LEMMA BooksOfHold ==
  ASSUME Books, NEW P \in SUBSET Tokens, NEW q, SetProofsPending(P, q)
  PROVE  Books'
<1> USE DEF SetProofsPending, promises, spends
<1>1. /\ UNCHANGED <<signed, used, stored>> /\ pending' = pending \cup P
      /\ balance' = Bumped({}, P) /\ pending \cap P = {}
  BY DEF ProofsFree
<1>2. /\ signed \in SUBSET Tokens /\ used \in SUBSET Tokens
      /\ pending \in SUBSET Tokens /\ stored \in SUBSET Tokens
  BY DEF Books
<1>3. ASSUME NEW k \in Keysets
      PROVE  Value(Of(signed', k)) - Value(Of(used', k)) - Value(Of(pending', k))
               <= Value(Of(signed, k)) - Value(Of(used, k)) - Value(Of(pending, k))
                  + Value(Of({}, k)) - Value(Of(P, k))
  <2>1. Value(Of(pending \cup P, k)) = Value(Of(pending, k)) + Value(Of(P, k))
        /\ Value(Of(pending, k)) \in Nat /\ Value(Of(P, k)) \in Nat
    <3>1. pending \in SUBSET Tokens /\ P \in SUBSET Tokens /\ pending \cap P = {}
      BY <1>1, <1>2
    <3>2. QED
      BY <3>1, OfPlus
  <2>2. Value(Of(signed, k)) \in Nat /\ Value(Of(used, k)) \in Nat
    BY <1>2, OfType
  <2>3. Value(Of({}, k)) = 0
    BY OfEmpty
  <2>4. /\ Value(Of(signed', k)) = Value(Of(signed, k))
        /\ Value(Of(used', k)) = Value(Of(used, k))
        /\ Value(Of(pending', k)) = Value(Of(pending \cup P, k))
    BY <1>1
  <2>5. QED
    BY <2>1, <2>2, <2>3, <2>4
<1>4. {} \in SUBSET Tokens /\ pending' \in SUBSET Tokens
  BY <1>1, <1>2
<1>5. signed' \in SUBSET Tokens /\ used' \in SUBSET Tokens /\ stored' \in SUBSET Tokens
  BY <1>1, <1>2
<1>6. QED
  BY <1>1, <1>3, <1>4, <1>5, BumpKeepsBooks

\* _unset_proofs_pending bumps by all of P and deletes the rows that are
\* there: fewer rows than it counts leave the balance too high, never too low.
LEMMA BooksOfRelease ==
  ASSUME Books, NEW P \in SUBSET Tokens, UnsetProofsPending(P)
  PROVE  Books'
<1> USE DEF UnsetProofsPending, promises, spends
<1>1. /\ UNCHANGED <<signed, used, stored>> /\ pending' = pending \ P
      /\ balance' = Bumped(P, {})
  OBVIOUS
<1>2. /\ signed \in SUBSET Tokens /\ used \in SUBSET Tokens
      /\ pending \in SUBSET Tokens /\ stored \in SUBSET Tokens
  BY DEF Books
<1>3. ASSUME NEW k \in Keysets
      PROVE  Value(Of(signed', k)) - Value(Of(used', k)) - Value(Of(pending', k))
               <= Value(Of(signed, k)) - Value(Of(used, k)) - Value(Of(pending, k))
                  + Value(Of(P, k)) - Value(Of({}, k))
  <2>1. /\ Value(Of(pending \ P, k)) >= Value(Of(pending, k)) - Value(Of(P, k))
        /\ Value(Of(pending \ P, k)) \in Nat
        /\ Value(Of(pending, k)) \in Nat /\ Value(Of(P, k)) \in Nat
    BY <1>2, OfDifference
  <2>2. Value(Of(signed, k)) \in Nat /\ Value(Of(used, k)) \in Nat
    BY <1>2, OfType
  <2>3. Value(Of({}, k)) = 0
    BY OfEmpty
  <2>4. /\ Value(Of(signed', k)) = Value(Of(signed, k))
        /\ Value(Of(used', k)) = Value(Of(used, k))
        /\ Value(Of(pending', k)) = Value(Of(pending \ P, k))
    BY <1>1
  <2>5. QED
    BY <2>1, <2>2, <2>3, <2>4
<1>4. {} \in SUBSET Tokens /\ pending' \in SUBSET Tokens
  BY <1>1, <1>2
<1>5. signed' \in SUBSET Tokens /\ used' \in SUBSET Tokens /\ stored' \in SUBSET Tokens
  BY <1>1, <1>2
<1>6. QED
  BY <1>1, <1>3, <1>4, <1>5, BumpKeepsBooks

\* _invalidate_proofs: UNIQUE (y) makes the rows new ones.
LEMMA BooksOfSpend ==
  ASSUME Books, NEW P \in SUBSET Tokens, NEW q, InvalidateProofs(P, q)
  PROVE  Books'
<1>1. /\ UNCHANGED <<signed, stored, pending>> /\ used' = used \cup P
      /\ balance' = Bumped({}, P) /\ used \cap P = {}
  BY DEF InvalidateProofs, CanInvalidate, promises, pendings
<1>2. /\ signed \in SUBSET Tokens /\ used \in SUBSET Tokens
      /\ pending \in SUBSET Tokens /\ stored \in SUBSET Tokens
  BY DEF Books
<1>3. ASSUME NEW k \in Keysets
      PROVE  Value(Of(signed', k)) - Value(Of(used', k)) - Value(Of(pending', k))
               <= Value(Of(signed, k)) - Value(Of(used, k)) - Value(Of(pending, k))
                  + Value(Of({}, k)) - Value(Of(P, k))
  <2>1. Value(Of(used \cup P, k)) = Value(Of(used, k)) + Value(Of(P, k))
        /\ Value(Of(used, k)) \in Nat /\ Value(Of(P, k)) \in Nat
    <3>1. used \in SUBSET Tokens /\ P \in SUBSET Tokens /\ used \cap P = {}
      BY <1>1, <1>2
    <3>2. QED
      BY <3>1, OfPlus
  <2>2. Value(Of(signed, k)) \in Nat /\ Value(Of(pending, k)) \in Nat
    BY <1>2, OfType
  <2>3. Value(Of({}, k)) = 0
    BY OfEmpty
  <2>4. /\ Value(Of(signed', k)) = Value(Of(signed, k))
        /\ Value(Of(used', k)) = Value(Of(used \cup P, k))
        /\ Value(Of(pending', k)) = Value(Of(pending, k))
    BY <1>1
  <2>5. QED
    BY <2>1, <2>2, <2>3, <2>4
<1>4. {} \in SUBSET Tokens /\ used' \in SUBSET Tokens
  BY <1>1, <1>2
<1>5. signed' \in SUBSET Tokens /\ pending' \in SUBSET Tokens /\ stored' \in SUBSET Tokens
  BY <1>1, <1>2
<1>6. QED
  BY <1>1, <1>3, <1>4, <1>5, BumpKeepsBooks

\* The poll spends and releases in one transaction.  Its list is old: some of
\* the rows it deletes and bumps for may be gone.
LEMMA BooksOfCommit ==
  ASSUME Books, NEW P \in SUBSET Tokens, CanInvalidate(P),
         used' = used \cup P, pending' = pending \ P, balance' = Bumped(P, P),
         UNCHANGED <<signed, stored>>
  PROVE  Books'
<1>1. used \cap P = {}
  BY DEF CanInvalidate
<1>2. /\ signed \in SUBSET Tokens /\ used \in SUBSET Tokens
      /\ pending \in SUBSET Tokens /\ stored \in SUBSET Tokens
  BY DEF Books
<1>3. ASSUME NEW k \in Keysets
      PROVE  Value(Of(signed', k)) - Value(Of(used', k)) - Value(Of(pending', k))
               <= Value(Of(signed, k)) - Value(Of(used, k)) - Value(Of(pending, k))
                  + Value(Of(P, k)) - Value(Of(P, k))
  <2>1. Value(Of(used \cup P, k)) = Value(Of(used, k)) + Value(Of(P, k))
        /\ Value(Of(used, k)) \in Nat /\ Value(Of(P, k)) \in Nat
    <3>1. used \in SUBSET Tokens /\ P \in SUBSET Tokens /\ used \cap P = {}
      BY <1>1, <1>2
    <3>2. QED
      BY <3>1, OfPlus
  <2>2. /\ Value(Of(pending \ P, k)) >= Value(Of(pending, k)) - Value(Of(P, k))
        /\ Value(Of(pending \ P, k)) \in Nat /\ Value(Of(pending, k)) \in Nat
    BY <1>2, OfDifference
  <2>3. Value(Of(signed, k)) \in Nat
    BY <1>2, OfType
  <2>4. /\ Value(Of(signed', k)) = Value(Of(signed, k))
        /\ Value(Of(used', k)) = Value(Of(used \cup P, k))
        /\ Value(Of(pending', k)) = Value(Of(pending \ P, k))
    BY <1>1
  <2>5. QED
    BY <2>1, <2>2, <2>3, <2>4
<1>4. used' \in SUBSET Tokens /\ pending' \in SUBSET Tokens
  BY <1>1, <1>2
<1>5. signed' \in SUBSET Tokens /\ stored' \in SUBSET Tokens
  BY <1>1, <1>2
<1>6. QED
  BY <1>1, <1>2, <1>3, <1>4, <1>5, BumpKeepsBooks

\* _sign_blinded_messages bumps by what it signs, also for a row that a poll
\* and a request both sign.
LEMMA BooksOfChange ==
  ASSUME Books, NEW C \in SUBSET Tokens, SignOutputs(C)
  PROVE  Books'
<1>1. /\ UNCHANGED <<used, pending>> /\ signed' = signed \cup C
      /\ stored' = stored \ C /\ balance' = Bumped(C, {})
  BY DEF SignOutputs, spends, pendings
<1>2. /\ signed \in SUBSET Tokens /\ used \in SUBSET Tokens
      /\ pending \in SUBSET Tokens /\ stored \in SUBSET Tokens
  BY DEF Books
<1>3. ASSUME NEW k \in Keysets
      PROVE  Value(Of(signed', k)) - Value(Of(used', k)) - Value(Of(pending', k))
               <= Value(Of(signed, k)) - Value(Of(used, k)) - Value(Of(pending, k))
                  + Value(Of(C, k)) - Value(Of({}, k))
  <2>1. /\ Value(Of(signed \cup C, k)) <= Value(Of(signed, k)) + Value(Of(C, k))
        /\ Value(Of(signed \cup C, k)) \in Nat
        /\ Value(Of(signed, k)) \in Nat /\ Value(Of(C, k)) \in Nat
    BY <1>2, OfUnion
  <2>2. Value(Of(used, k)) \in Nat /\ Value(Of(pending, k)) \in Nat
    BY <1>2, OfType
  <2>3. Value(Of({}, k)) = 0
    BY OfEmpty
  <2>4. /\ Value(Of(signed', k)) = Value(Of(signed \cup C, k))
        /\ Value(Of(used', k)) = Value(Of(used, k))
        /\ Value(Of(pending', k)) = Value(Of(pending, k))
    BY <1>1
  <2>5. QED
    BY <2>1, <2>2, <2>3, <2>4
<1>4. {} \in SUBSET Tokens /\ signed' \in SUBSET Tokens /\ stored' \in SUBSET Tokens
  BY <1>1, <1>2
<1>5. used' \in SUBSET Tokens /\ pending' \in SUBSET Tokens
  BY <1>1, <1>2
<1>6. QED
  BY <1>1, <1>3, <1>4, <1>5, BumpKeepsBooks

-----------------------------------------------------------------------------
(* The steps *)

\* Every step of a request that has been verified.
LEMMA MeltStepPreserves ==
  ASSUME MeltIInv, NEW m \in Melts, MeltStep(m)
  PROVE  MeltIInv'
<1> USE DEF MeltIInv
<1>1. meltIns[m] \in SUBSET Tokens /\ meltOuts[m] \in SUBSET Tokens
  BY DEF CarriedAreTokens
<1>2. UNCHANGED <<meltIns, meltOuts, askIns, askOuts>>
  BY DEF MeltStep, MeltHold, MeltLock, MeltStore, MeltRaises, MeltSettleReads,
         MeltSettleWrites, MeltPay, MeltReply, MeltCheckAgrees, MeltCheckDiffers,
         MeltReleaseProofs, MeltUnlock, MeltForgetOutputs, MeltInvalidate,
         MeltFree, MeltSignChange, MeltDropBlanks, MeltFinish, KeepMelt, askLocals
<1>3. CarriedAreTokens'
  BY <1>2 DEF CarriedAreTokens
<1>4. Books'
  <2>1. CASE UNCHANGED storeVars
    <3>1. UNCHANGED <<signed, used, pending, balance, stored>>
      BY <2>1 DEF storeVars, promises, spends, pendings
    <3>2. stored' \in SUBSET Tokens
      BY <3>1 DEF Books
    <3>3. QED
      BY <3>1, <3>2, BooksUnchanged
  <2>2. CASE MeltHold(m)
    BY <1>1, <2>2, BooksOfHold DEF MeltHold
  <2>3. CASE MeltStore(m)
    BY <1>1, <2>3, BooksOfOutputs DEF MeltStore
  <2>4. CASE MeltReleaseProofs(m) \/ MeltFree(m)
    BY <1>1, <2>4, BooksOfRelease DEF MeltReleaseProofs, MeltFree
  <2>5. CASE MeltForgetOutputs(m) \/ MeltDropBlanks(m)
    BY <1>1, <2>5, BooksOfOutputs DEF MeltForgetOutputs, MeltDropBlanks
  <2>6. CASE MeltInvalidate(m)
    BY <1>1, <2>6, BooksOfSpend DEF MeltInvalidate
  <2>7. CASE MeltSignChange(m)
    <3>1. PICK C \in Changes(meltOuts[m], MeltOverpaid(m)) : SignOutputs(C)
      BY <2>7 DEF MeltSignChange
    <3>2. C \in SUBSET Tokens
      BY <1>1, <3>1 DEF Changes
    <3>3. QED
      BY <3>1, <3>2, BooksOfChange
  <2>8. QED
    BY <2>1, <2>2, <2>3, <2>4, <2>5, <2>6, <2>7
    DEF MeltStep, MeltLock, MeltRaises, MeltSettleReads, MeltSettleWrites, MeltPay,
        MeltReply, MeltCheckAgrees, MeltCheckDiffers, MeltUnlock, MeltFinish
<1>5. QED
  BY <1>3, <1>4

\* Every step of a poll after it was answered.
LEMMA AskStepPreserves ==
  ASSUME MeltIInv, NEW g \in Askers, AskStep(g)
  PROVE  MeltIInv'
<1> USE DEF MeltIInv
<1>1. askIns[g] \in SUBSET Tokens /\ askOuts[g] \in SUBSET Tokens
  BY DEF CarriedAreTokens
<1>2. CarriedAreTokens'
  <2>1. UNCHANGED <<meltIns, meltOuts>>
    BY DEF AskStep, AskReadsProofs, AskCommits, AskReadsOutputs, AskSignsChange,
           AskDropsBlanks, AskWritesQuote, AskFrees, AskForgetsOutputs, AskRaises,
           KeepAsk, meltLocals
  <2>2. PendingFor(askFor[g]) \in SUBSET Tokens /\ OutputsFor(askFor[g]) \in SUBSET Tokens
    BY DEF Books, PendingFor, OutputsFor
  <2>3. askIns' \in [Askers -> SUBSET Tokens]
    <3>1. CASE AskReadsProofs(g)
      BY <2>2, <3>1 DEF AskReadsProofs, CarriedAreTokens
    <3>2. CASE askIns' = askIns
      BY <3>2 DEF CarriedAreTokens
    <3>3. QED
      BY <3>1, <3>2
      DEF AskStep, AskCommits, AskReadsOutputs, AskSignsChange, AskDropsBlanks,
          AskWritesQuote, AskFrees, AskForgetsOutputs, AskRaises
  <2>4. askOuts' \in [Askers -> SUBSET Tokens]
    <3>1. CASE AskReadsOutputs(g)
      BY <2>2, <3>1 DEF AskReadsOutputs, CarriedAreTokens
    <3>2. CASE askOuts' = askOuts
      BY <3>2 DEF CarriedAreTokens
    <3>3. QED
      BY <3>1, <3>2
      DEF AskStep, AskReadsProofs, AskCommits, AskSignsChange, AskDropsBlanks,
          AskWritesQuote, AskFrees, AskForgetsOutputs, AskRaises
  <2>5. QED
    BY <2>1, <2>3, <2>4 DEF CarriedAreTokens
<1>3. Books'
  <2>1. CASE UNCHANGED storeVars
    <3>1. UNCHANGED <<signed, used, pending, balance, stored>>
      BY <2>1 DEF storeVars, promises, spends, pendings
    <3>2. stored' \in SUBSET Tokens
      BY <3>1 DEF Books
    <3>3. QED
      BY <3>1, <3>2, BooksUnchanged
  <2>2. CASE AskCommits(g)
    BY <1>1, <2>2, BooksOfCommit DEF AskCommits, promises
  <2>3. CASE AskSignsChange(g)
    <3>1. PICK C \in Changes(askOuts[g], AskOverpaid(g)) : SignOutputs(C)
      BY <2>3 DEF AskSignsChange
    <3>2. C \in SUBSET Tokens
      BY <1>1, <3>1 DEF Changes
    <3>3. QED
      BY <3>1, <3>2, BooksOfChange
  <2>4. CASE AskDropsBlanks(g) \/ AskForgetsOutputs(g)
    BY <1>1, <2>4, BooksOfOutputs DEF AskDropsBlanks, AskForgetsOutputs
  <2>5. CASE AskFrees(g)
    BY <1>1, <2>5, BooksOfRelease DEF AskFrees
  <2>6. QED
    BY <2>1, <2>2, <2>3, <2>4, <2>5
    DEF AskStep, AskReadsProofs, AskReadsOutputs, AskWritesQuote, AskRaises
<1>4. QED
  BY <1>2, <1>3

\* Steps that write no table and hand no request or poll anything new.
LEMMA TablesKept ==
  ASSUME MeltIInv, UNCHANGED <<signed, used, pending, balance, stored>>,
         UNCHANGED <<meltIns, meltOuts, askIns, askOuts>>
  PROVE  MeltIInv'
BY BooksUnchanged DEF MeltIInv, Books, CarriedAreTokens

\* A new request carries tokens the wallet holds and outputs it made.
LEMMA MeltVerifyPreserves ==
  ASSUME MeltIInv, NEW m \in Melts, NEW q \in MeltQuotes, NEW P \in SUBSET signed,
         NEW O \in SUBSET (Tokens \ signed), MeltVerify(m, q, P, O)
  PROVE  MeltIInv'
<1> USE DEF MeltIInv
<1>1. P \in SUBSET Tokens /\ O \in SUBSET Tokens
  BY DEF Books
<1>2. UNCHANGED <<signed, used, pending, balance, stored>>
  BY DEF MeltVerify, storeVars, promises, spends, pendings
<1>3. Books'
  BY <1>2, BooksUnchanged DEF Books
<1>4. CarriedAreTokens'
  BY <1>1 DEF MeltVerify, CarriedAreTokens, askLocals
<1>5. QED
  BY <1>3, <1>4

\* No step of the mint, its clients or the node breaks the invariant.
THEOREM MeltNextInvariant == MeltIInv /\ [MeltNext]_meltVars => MeltIInv'
<1> SUFFICES ASSUME MeltIInv, [MeltNext]_meltVars PROVE MeltIInv'
  OBVIOUS
<1> USE DEF storeVars, promises, spends, pendings, meltLocals, askLocals
<1>1. CASE \E m \in Melts : MeltStep(m)
  BY <1>1, MeltStepPreserves
<1>2. CASE \E m \in Melts, q \in MeltQuotes, P \in SUBSET signed,
              O \in SUBSET (Tokens \ signed) : MeltVerify(m, q, P, O)
  BY <1>2, MeltVerifyPreserves
<1>3. CASE \E g \in Askers : AskStep(g)
  BY <1>3, AskStepPreserves
<1>4. CASE \E g \in Askers : \/ AskAnswered(g) \/ AskLearnsNothing(g)
                             \/ \E q \in MeltQuotes : AskReads(g, q)
  BY <1>4, TablesKept DEF AskAnswered, AskLearnsNothing, AskReads, KeepAsk
<1>5. CASE \E q \in MeltQuotes : PaymentSettles(q) \/ PaymentFails(q)
  BY <1>5, TablesKept DEF PaymentSettles, PaymentFails
<1>6. CASE \E q \in MintQuotes : InvoiceWorld(q)
  BY <1>6, TablesKept
  DEF InvoiceWorld, InvoicePaid, ListenerMarksPaid, meltOwnVars
<1>7. CASE MeltRotate
  BY <1>7, TablesKept DEF MeltRotate, DeactivateKeyset, meltOwnVars
<1>8. CASE MeltCrash
  BY <1>8, TablesKept DEF MeltCrash
<1>9. CASE UNCHANGED meltVars
  BY <1>9, TablesKept DEF meltVars, meltOwnVars
<1>10. QED
  BY <1>1, <1>2, <1>3, <1>4, <1>5, <1>6, <1>7, <1>8, <1>9 DEF MeltNext, MeltAsks, Askers

\* The invariant holds of every behaviour of melts and polls.
THEOREM MeltInvariant == MeltSpec => []MeltIInv
BY MeltInitInvariant, MeltNextInvariant, PTL DEF MeltSpec

\* keysets.balance errs on the side of the alarm, whatever interleaves: a
\* released or re-signed row that is counted twice only raises it.
THEOREM MeltsNeverUndercount == MeltSpec => []BalanceNeverUndercounts
<1>1. MeltIInv => BalanceNeverUndercounts
  BY DEF MeltIInv, Books
<1>2. QED
  BY <1>1, MeltInvariant, PTL

-----------------------------------------------------------------------------
(* Types *)

\* What requests and polls carry as proofs was signed when they read it.
MeltTyped ==
  /\ MeltTypeOK
  /\ \A m \in Melts : meltIns[m] \subseteq signed
  /\ \A g \in Askers : askIns[g] \subseteq signed

\* The types of the tables before and after a transaction on proofs.
LEMMA ProofsTypeOK ==
  ASSUME StoreTypeOK, NEW P \in SUBSET signed, NEW q \in Quotes,
         \/ SetProofsPending(P, q) \/ UnsetProofsPending(P) \/ InvalidateProofs(P, q)
         \/ /\ used' = used \cup P /\ usedFor' = Column(usedFor, P, q)
            /\ pending' = pending \ P /\ pendingFor' = Column(pendingFor, P, NoQuote)
            /\ balance' = Bumped(P, P) /\ feesPaid' = FeesAfter(P)
            /\ told' = Column(told, P, "spent") /\ UNCHANGED <<active, promises>>
  PROVE  StoreTypeOK' /\ signed' = signed
<1>1. P \in SUBSET Tokens /\ {} \in SUBSET Tokens /\ balance \in [Keysets -> Int]
  BY DEF StoreTypeOK
<1>2. balance' = Bumped({}, P) \/ balance' = Bumped(P, {}) \/ balance' = Bumped(P, P)
  BY DEF SetProofsPending, UnsetProofsPending, InvalidateProofs
<1>3. balance' \in [Keysets -> Int]
  BY <1>1, <1>2, BumpedBy
<1>4. feesPaid' \in [Keysets -> Nat]
  <2>1. ASSUME NEW k \in Keysets PROVE Fee(Of(P, k)) \in Nat
    BY <1>1, FeeType DEF Of
  <2>2. feesPaid' = feesPaid \/ feesPaid' = FeesAfter(P)
    BY DEF SetProofsPending, UnsetProofsPending, InvalidateProofs
  <2>3. QED
    BY <2>1, <2>2 DEF StoreTypeOK, FeesAfter
<1>5. /\ UNCHANGED <<active, stored, signed, promiseFor>>
      /\ used' \in {used, used \cup P} /\ pending' \in {pending, pending \cup P, pending \ P}
  BY DEF SetProofsPending, UnsetProofsPending, InvalidateProofs, promises, spends, pendings
<1>6. told' \in [Tokens -> {"unspent", "pending", "spent"}]
  BY DEF SetProofsPending, UnsetProofsPending, InvalidateProofs, StoreTypeOK, Column
<1>7. usedFor' \in [Tokens -> Quotes] /\ pendingFor' \in [Tokens -> Quotes]
  BY DEF SetProofsPending, UnsetProofsPending, InvalidateProofs, StoreTypeOK, Column,
         spends, pendings, Quotes
<1>8. QED
  BY <1>3, <1>4, <1>5, <1>6, <1>7 DEF StoreTypeOK

\* delete_blinded_messages_melt_id takes rows without a signature.
LEMMA DeleteTypeOK ==
  ASSUME StoreTypeOK, NEW q, DeleteOutputs(q)
  PROVE  StoreTypeOK' /\ signed' = signed
<1>1. promiseFor' \in [Tokens -> Quotes]
  BY DEF StoreTypeOK, DeleteOutputs, Column, Quotes
<1>2. stored' \subseteq stored /\ signed' = signed
  BY DEF DeleteOutputs
<1>3. QED
  BY <1>1, <1>2 DEF StoreTypeOK, DeleteOutputs, spends, pendings

\* What Melt adds to the tables of the store and to mint quotes.
MeltOwnTypeOK ==
  /\ meltState \in [MeltQuotes -> {"unpaid", "pending", "paid"}]
  /\ pay \in [MeltQuotes -> {"none", "inflight", "settled", "failed"}]
  /\ payFee \in [MeltQuotes -> Nat]
  /\ disabled \in BOOLEAN
  /\ meltPc \in [Melts -> MeltPcs]
  /\ meltFor \in [Melts -> Quotes]
  /\ meltIns \in [Melts -> SUBSET Tokens] /\ meltOuts \in [Melts -> SUBSET Tokens]
  /\ askPc \in [Askers -> AskPcs]
  /\ askFor \in [Askers -> Quotes]
  /\ askIns \in [Askers -> SUBSET Tokens] /\ askOuts \in [Askers -> SUBSET Tokens]
  /\ crashes \in Nat
  /\ happened \subseteq {"undone", "rewritten"}

\* Mint quotes, their requests and polls, beside the store.
MintSideTypeOK ==
  /\ mintState \in [MintQuotes -> {"unpaid", "paid", "pending", "issued"}]
  /\ invoice \in [MintQuotes -> {"open", "settled"}]
  /\ settling \in [MintQuotes -> {"none", "read", "paid"}]
  /\ issues \in [MintQuotes -> Nat]
  /\ mintPc \in [Mints -> MintPcs]
  /\ mintFor \in [Mints -> MintQuotes \cup {NoQuote}]
  /\ mintOuts \in [Mints -> SUBSET Tokens]
  /\ pollPc \in [QuotePollers -> {"idle", "asking", "settled"}]
  /\ pollFor \in [QuotePollers -> MintQuotes \cup {NoQuote}]
  /\ mintCrashes \in Nat

\* The two halves of MeltTypeOK.
LEMMA MeltTypeSplit == MeltTypeOK <=> StoreTypeOK /\ MintSideTypeOK /\ MeltOwnTypeOK
BY DEF MeltTypeOK, MintTypeOK, MintSideTypeOK, MeltOwnTypeOK

LEMMA MeltInitTyped == MeltInit => MeltTyped
<1> SUFFICES ASSUME MeltInit PROVE MeltTyped
  OBVIOUS
<1>1. StoreTypeOK
  BY StoreInitTypeOK DEF MeltInit, MintInit
<1>2. MintSideTypeOK
  BY DEF MeltInit, MintInit, MintSideTypeOK, MintPcs
<1>3. MeltOwnTypeOK
  BY DEF MeltInit, MeltOwnTypeOK, MeltPcs, AskPcs, Quotes
<1>4. QED
  BY <1>1, <1>2, <1>3, MeltTypeSplit DEF MeltTyped, MeltInit

\* The steps of a request.
LEMMA MeltStepTyped ==
  ASSUME MeltTyped, NEW m \in Melts, MeltStep(m)
  PROVE  MeltTyped'
<1>1. StoreTypeOK /\ MintSideTypeOK /\ MeltOwnTypeOK
  BY MeltTypeSplit DEF MeltTyped
<1>2. /\ meltIns[m] \in SUBSET signed /\ meltFor[m] \in Quotes
      /\ meltOuts[m] \in SUBSET Tokens
  BY <1>1 DEF MeltTyped, MeltOwnTypeOK
<1>3. StoreTypeOK' /\ signed \subseteq signed'
  <2>1. CASE UNCHANGED storeVars
    BY <1>1, <2>1, StoreUnchangedTypeOK DEF storeVars, promises
  <2>2. CASE MeltHold(m) \/ MeltReleaseProofs(m) \/ MeltFree(m) \/ MeltInvalidate(m)
    BY <1>1, <1>2, <2>2, ProofsTypeOK DEF MeltHold, MeltReleaseProofs, MeltFree, MeltInvalidate
  <2>3. CASE MeltStore(m)
    BY <1>1, <1>2, <2>3, StoreOutputsTypeOK DEF MeltStore, StoreOutputs
  <2>4. CASE MeltForgetOutputs(m) \/ MeltDropBlanks(m)
    BY <1>1, <1>2, <2>4, DeleteTypeOK DEF MeltForgetOutputs, MeltDropBlanks
  <2>5. CASE MeltSignChange(m)
    <3>1. PICK C \in Changes(meltOuts[m], MeltOverpaid(m)) : SignOutputs(C)
      BY <2>5 DEF MeltSignChange
    <3>2. C \in SUBSET Tokens
      BY <1>2, <3>1 DEF Changes
    <3>3. QED
      BY <1>1, <3>1, <3>2, SignOutputsTypeOK DEF SignOutputs
  <2>6. QED
    BY <2>1, <2>2, <2>3, <2>4, <2>5
    DEF MeltStep, MeltLock, MeltRaises, MeltSettleReads, MeltSettleWrites, MeltPay,
        MeltReply, MeltCheckAgrees, MeltCheckDiffers, MeltUnlock, MeltFinish
<1>4. MintSideTypeOK'
  <2>1. CASE UNCHANGED mintSideVars
    BY <1>1, <2>1 DEF MintSideTypeOK, mintSideVars, quoteVars, mintLocals, quotePollLocals
  <2>2. CASE MeltSettleReads(m) \/ MeltSettleWrites(m)
    BY <1>1, <2>2 DEF MintSideTypeOK, MeltSettleReads, MeltSettleWrites, SettleReads,
                      SettleWrites, SetMintState, mintLocals, quotePollLocals
  <2>3. QED
    BY <2>1, <2>2
    DEF MeltStep, MeltHold, MeltLock, MeltStore, MeltRaises, MeltPay, MeltReply,
        MeltCheckAgrees, MeltCheckDiffers, MeltReleaseProofs, MeltUnlock,
        MeltForgetOutputs, MeltInvalidate, MeltFree, MeltSignChange, MeltDropBlanks,
        MeltFinish, KeepMelt
<1>5. UNCHANGED <<meltFor, meltIns, meltOuts, askLocals, crashes>>
  BY DEF MeltStep, MeltHold, MeltLock, MeltStore, MeltRaises, MeltSettleReads,
         MeltSettleWrites, MeltPay, MeltReply, MeltCheckAgrees, MeltCheckDiffers,
         MeltReleaseProofs, MeltUnlock, MeltForgetOutputs, MeltInvalidate,
         MeltFree, MeltSignChange, MeltDropBlanks, MeltFinish, KeepMelt
<1>6. \E pc \in MeltPcs : MeltGoto(m, pc)
  BY DEF MeltStep, MeltHold, MeltLock, MeltStore, MeltRaises, MeltSettleReads,
         MeltSettleWrites, MeltPay, MeltReply, MeltCheckAgrees, MeltCheckDiffers,
         MeltReleaseProofs, MeltUnlock, MeltForgetOutputs, MeltInvalidate,
         MeltFree, MeltSignChange, MeltDropBlanks, MeltFinish, MeltPcs
<1>7. /\ payFee' = payFee /\ disabled' \in {disabled, TRUE}
      /\ happened' \in {happened, happened \cup {"rewritten"}}
      /\ pay' = pay \/ pay' = [pay EXCEPT ![meltFor[m]] = "inflight"]
      /\ \/ meltState' = meltState
         \/ \E s \in {"unpaid", "pending", "paid"} : SetMeltState(meltFor[m], s)
  BY DEF MeltStep, MeltHold, MeltLock, MeltStore, MeltRaises, MeltSettleReads,
         MeltSettleWrites, MeltPay, MeltReply, MeltCheckAgrees, MeltCheckDiffers,
         MeltReleaseProofs, MeltUnlock, MeltForgetOutputs, MeltInvalidate,
         MeltFree, MeltSignChange, MeltDropBlanks, MeltFinish, KeepMelt, meltQuoteVars
<1>8. MeltOwnTypeOK'
  <2>1. meltPc' \in [Melts -> MeltPcs]
    BY <1>1, <1>6 DEF MeltOwnTypeOK, MeltGoto
  <2>2. /\ pay' \in [MeltQuotes -> {"none", "inflight", "settled", "failed"}]
        /\ meltState' \in [MeltQuotes -> {"unpaid", "pending", "paid"}]
        /\ payFee' \in [MeltQuotes -> Nat] /\ disabled' \in BOOLEAN
    BY <1>1, <1>7 DEF MeltOwnTypeOK, SetMeltState
  <2>3. QED
    BY <1>1, <1>5, <1>7, <2>1, <2>2 DEF MeltOwnTypeOK, askLocals
<1>9. MeltTypeOK'
  BY <1>3, <1>4, <1>8 DEF MeltTypeOK, MintTypeOK, MintSideTypeOK, MeltOwnTypeOK
<1>10. QED
  BY <1>3, <1>5, <1>9 DEF MeltTyped, askLocals

\* The steps of a poll that was answered.
LEMMA AskStepTyped ==
  ASSUME MeltTyped, NEW g \in Askers, AskStep(g)
  PROVE  MeltTyped'
<1>1. StoreTypeOK /\ MintSideTypeOK /\ MeltOwnTypeOK
  BY MeltTypeSplit DEF MeltTyped
<1>2. askIns[g] \in SUBSET signed /\ askFor[g] \in Quotes /\ askOuts[g] \in SUBSET Tokens
  BY <1>1 DEF MeltTyped, MeltOwnTypeOK
<1>3. StoreTypeOK' /\ signed \subseteq signed'
  <2>1. CASE UNCHANGED storeVars
    BY <1>1, <2>1, StoreUnchangedTypeOK DEF storeVars, promises
  <2>2. CASE AskCommits(g) \/ AskFrees(g)
    BY <1>1, <1>2, <2>2, ProofsTypeOK DEF AskCommits, AskFrees
  <2>3. CASE AskDropsBlanks(g) \/ AskForgetsOutputs(g)
    BY <1>1, <1>2, <2>3, DeleteTypeOK DEF AskDropsBlanks, AskForgetsOutputs
  <2>4. CASE AskSignsChange(g)
    <3>1. PICK C \in Changes(askOuts[g], AskOverpaid(g)) : SignOutputs(C)
      BY <2>4 DEF AskSignsChange
    <3>2. C \in SUBSET Tokens
      BY <1>2, <3>1 DEF Changes
    <3>3. QED
      BY <1>1, <3>1, <3>2, SignOutputsTypeOK DEF SignOutputs
  <2>5. QED
    BY <2>1, <2>2, <2>3, <2>4
    DEF AskStep, AskReadsProofs, AskReadsOutputs, AskWritesQuote, AskRaises
<1>4. /\ UNCHANGED <<mintSideVars, meltLocals, askFor, pay, payFee, disabled, crashes>>
      /\ happened' \in {happened, happened \cup {"undone"}}
      /\ \E pc \in AskPcs : AskGoto(g, pc)
      /\ meltState' = meltState \/ \E s \in {"unpaid", "paid"} : SetMeltState(askFor[g], s)
      /\ askIns' = askIns \/ askIns' = [askIns EXCEPT ![g] = PendingFor(askFor[g])]
      /\ askOuts' = askOuts \/ askOuts' = [askOuts EXCEPT ![g] = OutputsFor(askFor[g])]
  BY DEF AskStep, AskReadsProofs, AskCommits, AskReadsOutputs, AskSignsChange,
         AskDropsBlanks, AskWritesQuote, AskFrees, AskForgetsOutputs, AskRaises, KeepAsk,
         AskPcs
<1>5. PendingFor(askFor[g]) \in SUBSET signed /\ OutputsFor(askFor[g]) \in SUBSET Tokens
      /\ signed \in SUBSET Tokens
  BY <1>1 DEF StoreTypeOK, PendingFor, OutputsFor
<1>6. MintSideTypeOK'
  BY <1>1, <1>4 DEF MintSideTypeOK, mintSideVars, quoteVars, mintLocals, quotePollLocals
<1>7. MeltOwnTypeOK'
  BY <1>1, <1>4, <1>5 DEF MeltOwnTypeOK, AskGoto, SetMeltState, meltLocals
<1>8. \A h \in Askers : askIns'[h] \subseteq signed
  BY <1>1, <1>4, <1>5 DEF MeltTyped, MeltOwnTypeOK
<1>9. MeltTypeOK'
  BY <1>3, <1>6, <1>7 DEF MeltTypeOK, MintTypeOK, MintSideTypeOK, MeltOwnTypeOK
<1>10. QED
  BY <1>3, <1>4, <1>8, <1>9 DEF MeltTyped, meltLocals

\* A step that leaves the tables and what is carried alone, and has types.
LEMMA TypedBesideTables ==
  ASSUME MeltTyped, StoreTypeOK', signed' = signed, MintSideTypeOK', MeltOwnTypeOK',
         \A m \in Melts : meltIns'[m] \subseteq signed, askIns' = askIns
  PROVE  MeltTyped'
<1>1. MeltTypeOK'
  BY DEF MeltTypeOK, MintTypeOK, MintSideTypeOK, MeltOwnTypeOK
<1>2. QED
  BY <1>1 DEF MeltTyped

\* Requests, polls, payments, rotations and crashes keep every type.
LEMMA MeltNextTyped == MeltTyped /\ [MeltNext]_meltVars => MeltTyped'
<1> SUFFICES ASSUME MeltTyped, [MeltNext]_meltVars PROVE MeltTyped'
  OBVIOUS
<1>1. StoreTypeOK /\ MintSideTypeOK /\ MeltOwnTypeOK /\ signed \in SUBSET Tokens
  BY MeltTypeSplit DEF MeltTyped, StoreTypeOK
<1>2. UNCHANGED storeVars => StoreTypeOK' /\ signed' = signed
  BY <1>1, StoreUnchangedTypeOK DEF storeVars, promises
<1>3. UNCHANGED mintSideVars => MintSideTypeOK'
  BY <1>1 DEF MintSideTypeOK, mintSideVars, quoteVars, mintLocals, quotePollLocals
<1>4. CASE \E m \in Melts : MeltStep(m)
  BY <1>4, MeltStepTyped
<1>5. CASE \E g \in Askers : AskStep(g)
  BY <1>5, AskStepTyped
<1>6. CASE \E m \in Melts, q \in MeltQuotes, P \in SUBSET signed,
              O \in SUBSET (Tokens \ signed) : MeltVerify(m, q, P, O)
  <2>1. PICK m \in Melts, q \in MeltQuotes, P \in SUBSET signed,
             O \in SUBSET (Tokens \ signed) : MeltVerify(m, q, P, O)
    BY <1>6
  <2>2. MeltOwnTypeOK'
    BY <1>1, <2>1 DEF MeltVerify, MeltOwnTypeOK, MeltGoto, MeltPcs, Quotes, meltQuoteVars,
                      AskGoto, AskPcs
  <2>3. \A n \in Melts : meltIns'[n] \subseteq signed
    BY <1>1, <2>1 DEF MeltVerify, MeltOwnTypeOK, MeltTyped
  <2>4. QED
    BY <1>2, <1>3, <2>1, <2>2, <2>3, TypedBesideTables DEF MeltVerify, askLocals
<1>7. CASE \E g \in Askers : \/ AskAnswered(g) \/ AskLearnsNothing(g)
                             \/ \E q \in MeltQuotes : AskReads(g, q)
  <2>1. MeltOwnTypeOK' /\ UNCHANGED <<storeVars, mintSideVars, meltIns, askIns>>
    <3>1. PICK g \in Askers : \/ AskAnswered(g) \/ AskLearnsNothing(g)
                              \/ \E q \in MeltQuotes : AskReads(g, q)
      BY <1>7
    <3>2. CASE AskAnswered(g) \/ AskLearnsNothing(g)
      <4>1. \E pc \in AskPcs : AskGoto(g, pc)
        BY <3>2 DEF AskAnswered, AskLearnsNothing, AskPcs
      <4>2. QED
        BY <1>1, <3>2, <4>1 DEF AskAnswered, AskLearnsNothing, AskGoto, KeepAsk, MeltOwnTypeOK,
                          meltLocals
    <3>3. CASE \E q \in MeltQuotes : AskReads(g, q)
      BY <1>1, <3>3 DEF AskReads, AskGoto, AskPcs, MeltOwnTypeOK, meltLocals, meltQuoteVars,
                        Quotes
    <3>4. QED
      BY <3>1, <3>2, <3>3
  <2>2. QED
    BY <1>2, <1>3, <2>1, TypedBesideTables DEF MeltTyped
<1>8. CASE \E q \in MeltQuotes : PaymentSettles(q) \/ PaymentFails(q)
  <2>1. PICK q \in MeltQuotes : PaymentSettles(q) \/ PaymentFails(q)
    BY <1>8
  <2>2. payFee' \in [MeltQuotes -> Nat]
    <3>1. FeeReserve[q] * FeeUnit \in Int
      BY FeeUnitAssumption, MeltQuotesAssumption
    <3>2. QED
      BY <1>1, <2>1, <3>1 DEF PaymentSettles, PaymentFails, MeltOwnTypeOK
  <2>3. MeltOwnTypeOK'
    BY <1>1, <2>1, <2>2 DEF PaymentSettles, PaymentFails, MeltOwnTypeOK, meltLocals, askLocals
  <2>4. QED
    BY <1>2, <1>3, <2>1, <2>3, TypedBesideTables
    DEF PaymentSettles, PaymentFails, MeltTyped, meltLocals, askLocals
<1>9. CASE \E q \in MintQuotes : InvoiceWorld(q)
  <2>1. PICK q \in MintQuotes : InvoiceWorld(q)
    BY <1>9
  <2>2. MintSideTypeOK' /\ UNCHANGED storeVars
    BY <1>1, <2>1 DEF InvoiceWorld, InvoicePaid, ListenerMarksPaid, SetMintState,
                      MintSideTypeOK, mintLocals, quotePollLocals
  <2>3. MeltOwnTypeOK' /\ UNCHANGED <<meltIns, askIns>>
    BY <1>1, <2>1 DEF InvoiceWorld, meltOwnVars, meltQuoteVars, meltLocals, askLocals,
                      MeltOwnTypeOK
  <2>4. QED
    BY <1>2, <2>2, <2>3, TypedBesideTables DEF MeltTyped
<1>10. CASE MeltRotate
  <2>1. StoreTypeOK' /\ signed' = signed
    BY <1>1, <1>10, DeactivateTypeOK DEF MeltRotate, DeactivateKeyset, promises
  <2>2. MeltOwnTypeOK' /\ UNCHANGED <<meltIns, askIns>>
    BY <1>1, <1>10 DEF MeltRotate, meltOwnVars, meltQuoteVars, meltLocals, askLocals,
                       MeltOwnTypeOK
  <2>3. QED
    BY <1>3, <1>10, <2>1, <2>2, TypedBesideTables DEF MeltRotate, MeltTyped
<1>11. CASE MeltCrash
  <2>1. meltPc' \in [Melts -> MeltPcs] /\ askPc' \in [Askers -> AskPcs]
    BY <1>1, <1>11 DEF MeltCrash, MeltOwnTypeOK, MeltPcs, AskPcs
  <2>2. crashes' \in Nat
    BY <1>1, <1>11 DEF MeltCrash, MeltOwnTypeOK
  <2>3. disabled' \in BOOLEAN
    BY <1>11 DEF MeltCrash
  <2>4. UNCHANGED <<meltState, pay, payFee, meltFor, meltIns, meltOuts, askFor, askIns, askOuts,
                    happened>>
    BY <1>11 DEF MeltCrash
  <2>5. MeltOwnTypeOK'
    BY <1>1, <2>1, <2>2, <2>3, <2>4 DEF MeltOwnTypeOK
  <2>6. QED
    BY <1>2, <1>3, <1>11, <2>5, TypedBesideTables DEF MeltCrash, MeltTyped
<1>12. CASE UNCHANGED meltVars
  <2>1. MeltOwnTypeOK'
    BY <1>1, <1>12 DEF meltVars, meltOwnVars, meltQuoteVars, meltLocals, askLocals,
                       MeltOwnTypeOK
  <2>2. QED
    BY <1>2, <1>3, <1>12, <2>1, TypedBesideTables
    DEF meltVars, meltOwnVars, meltLocals, askLocals, MeltTyped
<1>13. QED
  BY <1>4, <1>5, <1>6, <1>7, <1>8, <1>9, <1>10, <1>11, <1>12
  DEF MeltNext, MeltAsks, Askers

\* The tables, requests and polls keep their types in every behaviour.
THEOREM MeltTypes == MeltSpec => []MeltTyped
BY MeltInitTyped, MeltNextTyped, PTL DEF MeltSpec

-----------------------------------------------------------------------------
(* Requests until a poll rolls a quote back *)

\* From the moment its proofs are pending until it lets go of them.
HoldingPcs == {"held", "locked", "ready", "settling", "paying", "checking", "rollback", "won"}

\* A request that holds proofs has them pending, unless a poll has spent them
\* for it; one that has spent them has them spent, and no two of them have a
\* proof in common, whatever quotes they are for and however often they were
\* tried before.
HoldersApart ==
  /\ \A m \in Melts : meltPc[m] \in HoldingPcs => meltIns[m] \subseteq pending \cup used
  /\ \A m \in Melts : meltPc[m] = "spent" => meltIns[m] \subseteq used
  /\ \A m, n \in Melts :
       /\ m # n
       /\ meltPc[m] \in HoldingPcs \cup {"spent"} /\ meltPc[n] \in HoldingPcs \cup {"spent"}
       => meltIns[m] \cap meltIns[n] = {}

\* No poll has rolled a quote back and is about to free its proofs.
PollsUndoNothing == \A g \in Askers : askPc[g] \notin {"unpaid", "freeing", "freed", "returned"}

HeldIInv == "undone" \notin happened => HoldersApart /\ PollsUndoNothing

\* Steps that take no proofs from the tables and hand none to a request.
LEMMA HoldersUndisturbed ==
  ASSUME MeltTyped, HoldersApart, pending \cup used \subseteq pending' \cup used',
         used \subseteq used', UNCHANGED meltIns,
         \A m \in Melts : /\ meltPc'[m] \in HoldingPcs => meltPc[m] \in HoldingPcs
                          /\ meltPc'[m] = "spent" => meltPc[m] = "spent"
  PROVE  HoldersApart'
BY DEF HoldersApart

\* The steps of a request.
LEMMA MeltStepHolds ==
  ASSUME MeltTyped, HoldersApart, NEW m \in Melts, MeltStep(m)
  PROVE  HoldersApart'
<1>1. meltPc \in [Melts -> MeltPcs] /\ meltIns \in [Melts -> SUBSET Tokens]
  BY DEF MeltTyped, MeltTypeOK
<1>2. UNCHANGED meltIns
  BY DEF MeltStep, MeltHold, MeltLock, MeltStore, MeltRaises, MeltSettleReads,
         MeltSettleWrites, MeltPay, MeltReply, MeltCheckAgrees, MeltCheckDiffers,
         MeltReleaseProofs, MeltUnlock, MeltForgetOutputs, MeltInvalidate,
         MeltFree, MeltSignChange, MeltDropBlanks, MeltFinish, KeepMelt
<1>3. CASE UNCHANGED <<pending, used>> /\ meltPc[m] \in HoldingPcs
           /\ \E pc \in MeltPcs \ {"spent"} : MeltGoto(m, pc)
  BY <1>1, <1>2, <1>3 DEF HoldersApart, MeltGoto
<1>4. CASE UNCHANGED <<pending, used>>
           /\ \E pc \in MeltPcs \ (HoldingPcs \cup {"spent"}) : MeltGoto(m, pc)
  BY <1>1, <1>2, <1>4, HoldersUndisturbed DEF MeltGoto
<1>5. CASE MeltHold(m)
  BY <1>1, <1>2, <1>5 DEF MeltHold, SetProofsPending, ProofsFree, spends, MeltGoto,
                          HoldersApart, HoldingPcs
<1>6. CASE MeltReleaseProofs(m) \/ MeltFree(m)
  <2>1. meltPc[m] \in HoldingPcs \cup {"spent"} /\ pending' = pending \ meltIns[m] /\ used' = used
    BY <1>6 DEF MeltReleaseProofs, MeltFree, UnsetProofsPending, spends, HoldingPcs
  <2>2. meltPc'[m] \notin HoldingPcs \cup {"spent"} /\ \A n \in Melts \ {m} : meltPc'[n] = meltPc[n]
    BY <1>1, <1>6 DEF MeltReleaseProofs, MeltFree, MeltGoto, HoldingPcs
  <2>3. QED
    BY <1>1, <1>2, <2>1, <2>2 DEF HoldersApart
<1>7. CASE MeltInvalidate(m)
  BY <1>1, <1>2, <1>7 DEF MeltInvalidate, InvalidateProofs, pendings, MeltGoto,
                          HoldersApart, HoldingPcs
<1>8. CASE MeltStore(m) \/ MeltSettleReads(m) \/ MeltSettleWrites(m) \/ MeltPay(m)
           \/ MeltReply(m) \/ MeltCheckAgrees(m) \/ MeltCheckDiffers(m) \/ MeltLock(m)
  BY <1>3, <1>8 DEF MeltStore, StoreOutputs, spends, pendings, MeltSettleReads, MeltSettleWrites,
         MeltPay, MeltReply, MeltCheckAgrees, MeltCheckDiffers, MeltLock, storeVars,
         HoldingPcs, MeltPcs
<1>9. CASE MeltRaises(m) \/ MeltUnlock(m) \/ MeltForgetOutputs(m) \/ MeltSignChange(m)
           \/ MeltDropBlanks(m) \/ MeltFinish(m)
  BY <1>4, <1>9 DEF MeltRaises, MeltUnlock, MeltForgetOutputs, MeltSignChange, SignOutputs,
         DeleteOutputs, MeltDropBlanks, MeltFinish, spends, pendings, storeVars,
         HoldingPcs, MeltPcs
<1>10. QED
  BY <1>5, <1>6, <1>7, <1>8, <1>9 DEF MeltStep

\* The steps of a poll that rolls no quote back: it may spend what a request
\* holds, and frees nothing.
LEMMA AskStepHolds ==
  ASSUME MeltTyped, HoldersApart, PollsUndoNothing, NEW g \in Askers,
         AskStep(g) \/ AskAnswered(g) \/ AskLearnsNothing(g), "undone" \notin happened'
  PROVE  HoldersApart' /\ PollsUndoNothing'
<1>1. askPc \in [Askers -> AskPcs] /\ askPc[g] \notin {"unpaid", "freeing", "freed", "returned"}
  BY DEF MeltTyped, MeltTypeOK, PollsUndoNothing
<1>2. ~AskFrees(g) /\ ~AskForgetsOutputs(g)
  BY <1>1 DEF AskFrees, AskForgetsOutputs
<1>3. \E pc \in AskPcs \ {"unpaid", "freeing", "freed", "returned"} : AskGoto(g, pc)
  BY <1>1, <1>2 DEF AskStep, AskReadsProofs, AskCommits, AskReadsOutputs, AskSignsChange,
         AskDropsBlanks, AskWritesQuote, AskRaises, AskAnswered, AskLearnsNothing, AskPcs
<1>4. PollsUndoNothing'
  BY <1>1, <1>3 DEF PollsUndoNothing, AskGoto
<1>5. UNCHANGED <<meltPc, meltIns>>
  BY <1>2 DEF AskStep, AskReadsProofs, AskCommits, AskReadsOutputs, AskSignsChange,
         AskDropsBlanks, AskWritesQuote, AskRaises, AskAnswered, AskLearnsNothing, KeepAsk,
         meltLocals
<1>6. pending \cup used \subseteq pending' \cup used' /\ used \subseteq used'
  BY <1>2 DEF AskStep, AskReadsProofs, AskCommits, AskReadsOutputs, AskSignsChange,
         AskDropsBlanks, AskWritesQuote, AskRaises, AskAnswered, AskLearnsNothing, SignOutputs,
         DeleteOutputs, storeVars, spends, pendings
<1>7. QED
  BY <1>4, <1>5, <1>6, HoldersUndisturbed

\* No step breaks it until a poll rolls a quote back.
LEMMA MeltNextHolds == MeltTyped /\ HeldIInv /\ [MeltNext]_meltVars => HeldIInv'
<1> SUFFICES ASSUME MeltTyped, HeldIInv, [MeltNext]_meltVars, "undone" \notin happened'
             PROVE  HoldersApart' /\ PollsUndoNothing'
  BY DEF HeldIInv
<1>1. /\ meltPc \in [Melts -> MeltPcs] /\ meltIns \in [Melts -> SUBSET Tokens]
      /\ askPc \in [Askers -> AskPcs]
  BY DEF MeltTyped, MeltTypeOK
<1>2. happened \subseteq happened'
  BY DEF MeltNext, MeltStep, MeltHold, MeltLock, MeltStore, MeltRaises, MeltSettleReads,
         MeltSettleWrites, MeltPay, MeltReply, MeltCheckAgrees, MeltCheckDiffers,
         MeltReleaseProofs, MeltUnlock, MeltForgetOutputs, MeltInvalidate, MeltFree,
         MeltSignChange, MeltDropBlanks, MeltFinish, KeepMelt, MeltVerify, MeltAsks, AskReads,
         AskStep, AskReadsProofs, AskCommits, AskReadsOutputs, AskSignsChange, AskDropsBlanks,
         AskWritesQuote, AskFrees, AskForgetsOutputs, AskRaises, AskAnswered, AskLearnsNothing,
         KeepAsk, PaymentSettles, PaymentFails, InvoiceWorld, MeltRotate, MeltCrash, meltOwnVars,
         meltVars
<1>3. HoldersApart /\ PollsUndoNothing
  BY <1>2 DEF HeldIInv
<1>4. CASE \E m \in Melts : MeltStep(m)
  <2>1. UNCHANGED askPc
    BY <1>4 DEF MeltStep, MeltHold, MeltLock, MeltStore, MeltRaises, MeltSettleReads,
         MeltSettleWrites, MeltPay, MeltReply, MeltCheckAgrees, MeltCheckDiffers,
         MeltReleaseProofs, MeltUnlock, MeltForgetOutputs, MeltInvalidate, MeltFree,
         MeltSignChange, MeltDropBlanks, MeltFinish, KeepMelt, askLocals
  <2>2. QED
    BY <1>3, <1>4, <2>1, MeltStepHolds DEF PollsUndoNothing
<1>5. CASE \E m \in Melts, q \in MeltQuotes, P \in SUBSET signed,
              O \in SUBSET (Tokens \ signed) : MeltVerify(m, q, P, O)
  <2>1. HoldersApart'
    BY <1>1, <1>3, <1>5 DEF MeltVerify, MeltGoto, storeVars, spends, pendings, HoldersApart,
                            HoldingPcs
  <2>2. PollsUndoNothing'
    BY <1>1, <1>3, <1>5 DEF MeltVerify, AskGoto, PollsUndoNothing
  <2>3. QED
    BY <2>1, <2>2
<1>6. CASE \E g \in Askers : AskStep(g) \/ AskAnswered(g) \/ AskLearnsNothing(g)
  BY <1>3, <1>6, AskStepHolds
<1>7. CASE \E g \in Askers, q \in MeltQuotes : AskReads(g, q)
  <2>1. HoldersApart'
    BY <1>3, <1>7, HoldersUndisturbed DEF AskReads, storeVars, spends, pendings, meltLocals
  <2>2. PollsUndoNothing'
    BY <1>1, <1>3, <1>7 DEF AskReads, AskGoto, PollsUndoNothing
  <2>3. QED
    BY <2>1, <2>2
<1>8. CASE UNCHANGED <<pending, used, meltIns, meltPc, askPc>>
  BY <1>3, <1>8 DEF HoldersApart, PollsUndoNothing
<1>9. CASE \E q \in MeltQuotes : PaymentSettles(q) \/ PaymentFails(q)
  BY <1>8, <1>9 DEF PaymentSettles, PaymentFails, storeVars, spends, pendings, meltLocals, askLocals
<1>10. CASE \E q \in MintQuotes : InvoiceWorld(q)
  BY <1>8, <1>10 DEF InvoiceWorld, InvoicePaid, ListenerMarksPaid, meltOwnVars, meltLocals,
                     askLocals, storeVars, spends, pendings
<1>11. CASE MeltRotate
  BY <1>8, <1>11 DEF MeltRotate, DeactivateKeyset, meltOwnVars, meltLocals, askLocals, spends,
                     pendings
<1>12. CASE MeltCrash
  <2>1. HoldersApart'
    BY <1>1, <1>3, <1>12, HoldersUndisturbed DEF MeltCrash, storeVars, spends, pendings, HoldingPcs
  <2>2. PollsUndoNothing'
    BY <1>12 DEF MeltCrash, PollsUndoNothing
  <2>3. QED
    BY <2>1, <2>2
<1>13. CASE UNCHANGED meltVars
  BY <1>8, <1>13 DEF meltVars, storeVars, spends, pendings, meltOwnVars, meltLocals, askLocals
<1>14. QED
  BY <1>4, <1>5, <1>6, <1>7, <1>9, <1>10, <1>11, <1>12, <1>13 DEF MeltNext, MeltAsks, Askers

\* "set proofs to pending to avoid race conditions" (melt): until a poll has
\* rolled a quote back, no request, retry, rollback, restart or poll takes
\* the proofs of a request that is paying, whatever the backend answers.
THEOREM HeldUntilUndone == MeltSpec => []("undone" \notin happened => HeldProofsStayHeld)
<1>1. MeltInit => HeldIInv
  BY DEF MeltInit, HeldIInv, HoldersApart, PollsUndoNothing, HoldingPcs
<1>2. HeldIInv => ("undone" \notin happened => HeldProofsStayHeld)
  BY DEF HeldIInv, HoldersApart, HeldProofsStayHeld, Paying, HoldingPcs
<1>3. QED
  BY <1>1, <1>2, MeltTypes, MeltNextHolds, PTL DEF MeltSpec

-----------------------------------------------------------------------------
(***************************************************************************)
(* Melt: payments are covered and change is what is left over, whatever polls *)
(* and crashes interleave with the requests, if each request has a quote,  *)
(* proofs and outputs of its own.                                          *)
(*                                                                         *)
(* The request and any number of polls work on the same rows.  None of them *)
(* locks them; what keeps them in step is what each was told by the node,  *)
(* which does not change its mind, and UNIQUE (y), which lets one of them  *)
(* spend, and that one alone sign the change.                              *)
(***************************************************************************)

(* Requests that share nothing, with polls and crashes *)

Owns(m, q) == Requested(m) /\ meltFor[m] = q

Asked(g) == askPc[g] # "idle"
Knowing == {"settled", "commit", "committed", "change", "signed", "changed"}
Undoing == {"failed", "unpaid", "freeing", "freed"}

\* What a poll was told is still so, and it was asked for a request's quote.
PollKnows(g) ==
  /\ askFor[g] \in MeltQuotes /\ Internal[askFor[g]] = NoQuote
  /\ \E m \in Melts : Owns(m, askFor[g])
  /\ askPc[g] \in Knowing => pay[askFor[g]] = "settled"
  /\ askPc[g] \in Undoing => pay[askFor[g]] = "failed"
PollsKnow == \A g \in Askers : Asked(g) => PollKnows(g)

\* A row with a quote is of the request for that quote, and so is a payment.
RowsHaveOwners ==
  \A q \in MeltQuotes :
    /\ \A t \in PendingFor(q) \cup SpentFor(q) :
         \E m \in Melts : Owns(m, q) /\ t \in meltIns[m]
    /\ \A t \in Tokens : promiseFor[t] = q => \E m \in Melts : Owns(m, q) /\ t \in meltOuts[m]
    /\ pay[q] # "none" \/ meltState[q] # "unpaid" => \E m \in Melts : Owns(m, q)
    /\ payFee[q] <= FeeReserve[q] * FeeUnit

PaidInside(q) == Internal[q] # NoQuote /\ meltState[q] = "paid"
Locked(q, P) == PendingFor(q) = P /\ P \cap used = {}

\* The quote has proofs P that cover it, and rows for all of them or for none.
Sound(q, P) ==
  /\ q \in MeltQuotes /\ P # {} /\ P \in SUBSET Tokens
  /\ Value(P) >= MeltAmount[q] + FeeReserve[q] + Fee(P)
  /\ PendingFor(q) \in {{}, P} /\ SpentFor(q) \in {{}, P}

\* What the place of a request says of the payment and of its proofs.
Placed(pc, q, P) ==
  /\ pc \in {"verified", "held", "locked", "ready", "settling"} => pay[q] = "none"
  /\ pc \in {"verified", "held", "locked", "ready", "paying", "checking"} => ~PaidInside(q)
  /\ pc \in {"paying", "checking", "rollback", "released", "unlocked", "parked"}
       => Internal[q] = NoQuote
  /\ pc = "settling" => Internal[q] # NoQuote
  /\ pc \in {"rollback", "released", "unlocked"} => pay[q] \in {"none", "failed"}
  /\ pc = "won" => pay[q] = "settled" \/ PaidInside(q)
  /\ pc \in {"spent", "sign", "signed", "changed", "succeeded"} => SpentFor(q) = P
  /\ pay[q] # "none" => Internal[q] = NoQuote

\* Its proofs are pending while it may be paid, and pending or spent once it is.
Covered(pc, q, P) ==
  /\ \/ pay[q] = "none"
        /\ pc \in {"held", "locked", "ready", "settling", "paying", "checking"}
     \/ pay[q] = "inflight"
     => Locked(q, P)
  /\ pay[q] = "settled" \/ PaidInside(q) => Locked(q, P) \/ SpentFor(q) = P

\* Whoever has spent the proofs and has not signed the change yet.
DueAsk(g, q) == askPc[g] \in {"committed", "change"} /\ askFor[g] = q /\ askIns[g] # {}
DueMelt(pc) == pc \in {"spent", "sign"}

\* Polls of the quote carry its proofs and outputs, and one at most is due.
AsksOf(pc, q, P, O) ==
  \A g \in Askers : Asked(g) /\ askFor[g] = q =>
    /\ askPc[g] \notin {"asking", "settled", "failed", "unpaid"} => askIns[g] \in {{}, P}
    /\ askPc[g] = "change" => askOuts[g] \subseteq O /\ askIns[g] # {}
    /\ DueAsk(g, q) => /\ SpentFor(q) = P /\ ~DueMelt(pc)
                       /\ \A h \in Askers : DueAsk(h, q) => h = g

\* Change is signed once, after the proofs are spent, for what they left over.
ChangeOf(pc, q, P) ==
  ChangeFor(q) # {} =>
    /\ SpentFor(q) = P /\ ~DueMelt(pc)
    /\ \A g \in Askers : ~DueAsk(g, q)
    /\ ChangeLeavesFee(q, RoundedDown(payFee[q]))

Request(m) ==
  /\ Sound(meltFor[m], meltIns[m])
  /\ Placed(meltPc[m], meltFor[m], meltIns[m])
  /\ Covered(meltPc[m], meltFor[m], meltIns[m])
  /\ AsksOf(meltPc[m], meltFor[m], meltIns[m], meltOuts[m])
  /\ ChangeOf(meltPc[m], meltFor[m], meltIns[m])

ApartIInv == PollsKnow /\ RowsHaveOwners /\ \A m \in Melts : Requested(m) => Request(m)

-----------------------------------------------------------------------------
(* What the transactions do to the rows of one quote *)

\* The rows of a quote, and the promises that name it, are as they were.
SameRows(q) ==
  PendingFor(q)' = PendingFor(q) /\ SpentFor(q)' = SpentFor(q) /\ ChangeFor(q)' = ChangeFor(q)

\* Tables that are left alone.
LEMMA RowsUnchanged ==
  ASSUME UNCHANGED <<pending, pendingFor, used, usedFor, signed, promiseFor>>, NEW q
  PROVE  SameRows(q)
BY DEF SameRows, PendingFor, SpentFor, ChangeFor

\* _verify_spent_proofs_and_set_pending
LEMMA RowsOfHold ==
  ASSUME StoreTypeOK, NEW P \in SUBSET Tokens, NEW q \in MeltQuotes, SetProofsPending(P, q)
  PROVE  /\ PendingFor(q)' = PendingFor(q) \cup P /\ P \cap used = {}
         /\ \A p \in MeltQuotes : /\ SpentFor(p)' = SpentFor(p) /\ ChangeFor(p)' = ChangeFor(p)
                                  /\ p # q => PendingFor(p)' = PendingFor(p)
         /\ used' = used /\ promiseFor' = promiseFor
<1>1. /\ UNCHANGED <<used, usedFor, signed, promiseFor>> /\ pending' = pending \cup P
      /\ pendingFor' = [t \in Tokens |-> IF t \in P THEN q ELSE pendingFor[t]]
      /\ P \cap used = {} /\ P \cap pending = {} /\ pending \in SUBSET Tokens
  BY DEF SetProofsPending, ProofsFree, Column, promises, spends, StoreTypeOK
<1>2. \A p \in MeltQuotes : SpentFor(p)' = SpentFor(p) /\ ChangeFor(p)' = ChangeFor(p)
  BY <1>1 DEF SpentFor, ChangeFor
<1>3. PendingFor(q)' = PendingFor(q) \cup P
  BY <1>1 DEF PendingFor
<1>4. \A p \in MeltQuotes : p # q => PendingFor(p)' = PendingFor(p)
  BY <1>1 DEF PendingFor
<1>5. QED
  BY <1>1, <1>2, <1>3, <1>4

\* _unset_proofs_pending
LEMMA RowsOfRelease ==
  ASSUME StoreTypeOK, NEW P \in SUBSET Tokens, UnsetProofsPending(P)
  PROVE  /\ \A p \in MeltQuotes : /\ SpentFor(p)' = SpentFor(p) /\ ChangeFor(p)' = ChangeFor(p)
                                  /\ PendingFor(p)' = PendingFor(p) \ P
         /\ used' = used /\ promiseFor' = promiseFor
<1>1. /\ UNCHANGED <<used, usedFor, signed, promiseFor>> /\ pending' = pending \ P
      /\ pendingFor' = [t \in Tokens |-> IF t \in P THEN NoQuote ELSE pendingFor[t]]
      /\ pending \in SUBSET Tokens
  BY DEF UnsetProofsPending, Column, promises, spends, StoreTypeOK
<1>2. \A p \in MeltQuotes : SpentFor(p)' = SpentFor(p) /\ ChangeFor(p)' = ChangeFor(p)
  BY <1>1 DEF SpentFor, ChangeFor
<1>3. \A p \in MeltQuotes : PendingFor(p)' = PendingFor(p) \ P
  BY <1>1 DEF PendingFor
<1>4. QED
  BY <1>1, <1>2, <1>3

\* _invalidate_proofs, alone or with the release of the poll
LEMMA RowsOfSpend ==
  ASSUME StoreTypeOK, NEW P \in SUBSET Tokens, NEW q \in MeltQuotes,
         CanInvalidate(P), used' = used \cup P, usedFor' = Column(usedFor, P, q),
         UNCHANGED <<signed, promiseFor>>,
         \/ UNCHANGED <<pending, pendingFor>>
         \/ pending' = pending \ P /\ pendingFor' = Column(pendingFor, P, NoQuote)
  PROVE  /\ SpentFor(q)' = SpentFor(q) \cup P /\ P \cap used = {}
         /\ \A p \in MeltQuotes : /\ ChangeFor(p)' = ChangeFor(p)
                                  /\ p # q => SpentFor(p)' = SpentFor(p)
                                  /\ PendingFor(p)' = IF UNCHANGED <<pending, pendingFor>>
                                                      THEN PendingFor(p) ELSE PendingFor(p) \ P
<1>1. /\ P \cap used = {} /\ used \in SUBSET Tokens /\ pending \in SUBSET Tokens
      /\ usedFor' = [t \in Tokens |-> IF t \in P THEN q ELSE usedFor[t]]
  BY DEF CanInvalidate, Column, StoreTypeOK
<1>2. SpentFor(q)' = SpentFor(q) \cup P /\ \A p \in MeltQuotes : p # q => SpentFor(p)' = SpentFor(p)
  BY <1>1 DEF SpentFor
<1>3. \A p \in MeltQuotes : ChangeFor(p)' = ChangeFor(p)
  BY DEF ChangeFor
<1>4. ASSUME NEW p \in MeltQuotes
      PROVE  PendingFor(p)' = IF UNCHANGED <<pending, pendingFor>>
                              THEN PendingFor(p) ELSE PendingFor(p) \ P
  <2>1. CASE UNCHANGED <<pending, pendingFor>>
    BY <2>1 DEF PendingFor
  <2>2. CASE pending' = pending \ P /\ pendingFor' = Column(pendingFor, P, NoQuote)
            /\ ~UNCHANGED <<pending, pendingFor>>
    BY <1>1, <2>2 DEF PendingFor, Column
  <2>3. QED
    BY <2>1, <2>2
<1>5. QED
  BY <1>1, <1>2, <1>3, <1>4

\* _store_blinded_messages gives new rows to its quote and to no other.
LEMMA RowsOfStore ==
  ASSUME StoreTypeOK, NEW O \in SUBSET Tokens, NEW q \in MeltQuotes, StoreOutputs(O, q)
  PROVE  /\ \A p \in MeltQuotes : SameRows(p)
         /\ \A t \in Tokens : promiseFor'[t] = IF t \in O THEN q ELSE promiseFor[t]
<1>1. /\ UNCHANGED <<pending, pendingFor, used, usedFor, signed>> /\ O \cap signed = {}
      /\ promiseFor' = [t \in Tokens |-> IF t \in O THEN q ELSE promiseFor[t]]
      /\ signed \in SUBSET Tokens
  BY DEF StoreOutputs, CanStore, Column, spends, pendings, StoreTypeOK
<1>2. QED
  BY <1>1 DEF SameRows, PendingFor, SpentFor, ChangeFor

\* delete_blinded_messages_melt_id takes rows without a signature only.
LEMMA RowsOfDelete ==
  ASSUME StoreTypeOK, NEW q \in MeltQuotes, DeleteOutputs(q)
  PROVE  /\ \A p \in MeltQuotes : SameRows(p)
         /\ used' = used
         /\ \A t \in Tokens : promiseFor'[t] \in {NoQuote, promiseFor[t]}
<1>1. /\ UNCHANGED <<pending, pendingFor, used, usedFor, signed>> /\ stored \cap signed = {}
      /\ \A t \in Tokens : promiseFor'[t] = IF t \in stored /\ promiseFor[t] = q
                                              THEN NoQuote ELSE promiseFor[t]
      /\ signed \in SUBSET Tokens
  BY DEF DeleteOutputs, Column, spends, pendings, StoreTypeOK
<1>2. QED
  BY <1>1 DEF SameRows, PendingFor, SpentFor, ChangeFor

\* _sign_blinded_messages
LEMMA RowsOfSign ==
  ASSUME StoreTypeOK, NEW C \in SUBSET Tokens, SignOutputs(C)
  PROVE  /\ \A p \in MeltQuotes : /\ SpentFor(p)' = SpentFor(p) /\ PendingFor(p)' = PendingFor(p)
                                  /\ ChangeFor(p)' = ChangeFor(p) \cup {t \in C : promiseFor[t] = p}
         /\ used' = used /\ promiseFor' = promiseFor
BY DEF SignOutputs, SpentFor, PendingFor, ChangeFor, spends, pendings

\* The rows of other quotes have nothing in common with a request.
LEMMA RowsApart ==
  ASSUME RequestsApart, RowsHaveOwners, NEW n \in Melts, Requested(n),
         NEW p \in MeltQuotes, p # meltFor[n]
  PROVE  /\ (PendingFor(p) \cup SpentFor(p)) \cap meltIns[n] = {}
         /\ \A t \in Tokens \cap meltOuts[n] : promiseFor[t] # p
<1>1. ASSUME NEW t \in PendingFor(p) \cup SpentFor(p) PROVE t \notin meltIns[n]
  <2>1. PICK m \in Melts : Owns(m, p) /\ t \in meltIns[m]
    BY <1>1 DEF RowsHaveOwners
  <2>2. QED
    BY <2>1 DEF RequestsApart, Owns
<1>2. ASSUME NEW t \in Tokens, promiseFor[t] = p PROVE t \notin meltOuts[n]
  <2>1. PICK m \in Melts : Owns(m, p) /\ t \in meltOuts[m]
    BY <1>2 DEF RowsHaveOwners
  <2>2. QED
    BY <2>1 DEF RequestsApart, Owns
<1>3. QED
  BY <1>1, <1>2

-----------------------------------------------------------------------------
(* What a step of one request or of its polls leaves alone *)

\* A poll of quote q that there is after a step was there before.
SameAsks(q) ==
  \A g \in Askers : Asked(g)' /\ askFor'[g] = q =>
    /\ Asked(g) /\ askPc'[g] = askPc[g] /\ askFor[g] = q
    /\ askIns'[g] = askIns[g] /\ askOuts'[g] = askOuts[g]

\* No poll has become due.
DueAsksFewer(q) == \A g \in Askers : DueAsk(g, q)' => DueAsk(g, q)

\* A request whose rows, payment and polls stay as they are.
LEMMA RequestKept ==
  ASSUME NEW m \in Melts, NEW q, q = meltFor[m], NEW P, P = meltIns[m], NEW O, O = meltOuts[m],
         Request(m), meltFor'[m] = q, meltIns'[m] = P, meltOuts'[m] = O,
         meltPc'[m] \in {meltPc[m], "dead", "failed"},
         pay'[q] = pay[q], payFee'[q] = payFee[q], meltState'[q] = meltState[q],
         SameRows(q), P \cap used' = P \cap used, SameAsks(q)
  PROVE  Request(m)'
<1>1. /\ PendingFor(q)' = PendingFor(q) /\ SpentFor(q)' = SpentFor(q)
      /\ ChangeFor(q)' = ChangeFor(q) /\ PaidInside(q)' = PaidInside(q)
      /\ Locked(q, P)' = Locked(q, P)
  BY DEF SameRows, PaidInside, Locked
<1>2. Sound(q, P)'
  BY <1>1 DEF Request, Sound
<1>3. DueAsksFewer(q)
  BY DEF SameAsks, DueAsksFewer, DueAsk, Asked
<1>4. Placed(meltPc[m], q, P)' /\ Covered(meltPc[m], q, P)'
  BY <1>1 DEF Request, Placed, Covered
<1>5. AsksOf(meltPc[m], q, P, O)'
  BY <1>1, <1>3 DEF Request, AsksOf, SameAsks, DueAsksFewer, DueMelt
<1>6. ChangeOf(meltPc[m], q, P)'
  BY <1>1, <1>3 DEF Request, ChangeOf, ChangeLeavesFee, DueAsksFewer, DueMelt, RoundedDown
<1>7. QED
  BY <1>2, <1>4, <1>5, <1>6 DEF Request

\* What a step of request n, or of a poll of its quote, has to keep for it.
OwnStep(n) ==
  /\ UNCHANGED <<meltFor, meltIns, meltOuts>> /\ Requested(n)'
  /\ \A m \in Melts \ {n} : meltPc'[m] = meltPc[m]
  /\ \A q \in MeltQuotes \ {meltFor[n]} :
       /\ pay'[q] = pay[q] /\ payFee'[q] = payFee[q] /\ meltState'[q] = meltState[q]
       /\ SameRows(q) /\ SameAsks(q)
       /\ \A t \in Tokens : promiseFor'[t] = q => promiseFor[t] = q
  /\ \A q \in MeltQuotes : payFee'[q] <= FeeReserve[q] * FeeUnit
  /\ used' \subseteq used \cup meltIns[n] /\ used \subseteq used'
  /\ \A t \in Tokens : promiseFor'[t] = meltFor[n] => t \in meltOuts[n]
  /\ \A g \in Askers : Asked(g)' /\ askFor'[g] = meltFor[n] => PollKnows(g)'
  /\ \A g \in Askers : Asked(g)' => askFor'[g] \in MeltQuotes

\* The fees stay within the reserve when no payment settles.
LEMMA FeesWithin ==
  ASSUME ApartIInv, UNCHANGED payFee
  PROVE  \A q \in MeltQuotes : payFee'[q] = payFee[q] /\ payFee'[q] <= FeeReserve[q] * FeeUnit
BY DEF ApartIInv, RowsHaveOwners

\* Such a step keeps the whole invariant, if it keeps the facts of its request.
LEMMA OthersKept ==
  ASSUME MeltTyped, ApartIInv, RequestsApart, NEW n \in Melts, Requested(n),
         OwnStep(n), Request(n)'
  PROVE  ApartIInv'
<1> USE DEF ApartIInv
<1>1. Request(n) /\ meltFor[n] \in MeltQuotes
  BY DEF Request, Sound
<1>2. ASSUME NEW m \in Melts, Requested(m)' PROVE Request(m)'
  <2>1. CASE m = n
    BY <2>1
  <2>2. CASE m # n
    <3>1. Requested(m) /\ Request(m) /\ meltFor[m] \in MeltQuotes \ {meltFor[n]}
          /\ meltIns[m] \cap meltIns[n] = {}
      BY <1>2, <2>2 DEF OwnStep, Requested, RequestsApart, Request, Sound
    <3>2. /\ meltPc'[m] = meltPc[m] /\ meltFor'[m] = meltFor[m] /\ meltIns'[m] = meltIns[m]
          /\ meltOuts'[m] = meltOuts[m]
      BY <2>2 DEF OwnStep
    <3>3. /\ pay'[meltFor[m]] = pay[meltFor[m]] /\ payFee'[meltFor[m]] = payFee[meltFor[m]]
          /\ meltState'[meltFor[m]] = meltState[meltFor[m]]
          /\ SameRows(meltFor[m]) /\ SameAsks(meltFor[m])
      BY <3>1 DEF OwnStep
    <3>4. meltIns[m] \cap used' = meltIns[m] \cap used
      BY <3>1 DEF OwnStep
    <3>5. QED
      BY <3>1, <3>2, <3>3, <3>4, RequestKept
  <2>3. QED
    BY <2>1, <2>2
<1>3. PollsKnow'
  <2>1. ASSUME NEW g \in Askers, Asked(g)', askFor'[g] # meltFor[n]
        PROVE  PollKnows(g)'
    <3>1. askFor'[g] \in MeltQuotes \ {meltFor[n]} /\ SameAsks(askFor'[g])
      BY <2>1 DEF OwnStep
    <3>2. Asked(g) /\ askPc'[g] = askPc[g] /\ askFor[g] = askFor'[g]
      BY <2>1, <3>1 DEF SameAsks
    <3>3. PollKnows(g) /\ pay'[askFor[g]] = pay[askFor[g]]
      BY <3>1, <3>2 DEF PollsKnow, OwnStep
    <3>4. \A m \in Melts : Owns(m, askFor[g]) => Owns(m, askFor[g])'
      BY <3>1, <3>2 DEF OwnStep, Owns, Requested
    <3>5. QED
      BY <3>2, <3>3, <3>4 DEF PollKnows
  <2>2. QED
    BY <2>1 DEF PollsKnow, OwnStep
<1>4. RowsHaveOwners'
  <2>1. ASSUME NEW q \in MeltQuotes, q # meltFor[n]
        PROVE  /\ \A t \in (PendingFor(q) \cup SpentFor(q))' :
                    \E m \in Melts : Owns(m, q)' /\ t \in meltIns'[m]
               /\ \A t \in Tokens : promiseFor'[t] = q =>
                    \E m \in Melts : Owns(m, q)' /\ t \in meltOuts'[m]
               /\ pay'[q] # "none" \/ meltState'[q] # "unpaid" => \E m \in Melts : Owns(m, q)'
    <3>1. /\ pay'[q] = pay[q] /\ meltState'[q] = meltState[q]
          /\ \A t \in Tokens : promiseFor'[t] = q => promiseFor[t] = q
          /\ PendingFor(q)' = PendingFor(q) /\ SpentFor(q)' = SpentFor(q)
      BY <2>1 DEF OwnStep, SameRows
    <3>2. \A m \in Melts : Owns(m, q) => Owns(m, q)'
      BY <2>1 DEF OwnStep, Owns, Requested
    <3>3. UNCHANGED <<meltIns, meltOuts>>
      BY DEF OwnStep
    <3>4. QED
      BY <3>1, <3>2, <3>3 DEF RowsHaveOwners
  <2>2. /\ \A t \in (PendingFor(meltFor[n]) \cup SpentFor(meltFor[n]))' : t \in meltIns'[n]
        /\ \A t \in Tokens : promiseFor'[t] = meltFor[n] => t \in meltOuts'[n]
        /\ Owns(n, meltFor[n])' /\ meltFor'[n] = meltFor[n]
    BY DEF OwnStep, Request, Sound, Owns
  <2>3. \A q \in MeltQuotes : payFee'[q] <= FeeReserve[q] * FeeUnit
    BY DEF OwnStep, RowsHaveOwners
  <2>4. QED
    BY <2>1, <2>2, <2>3 DEF RowsHaveOwners
<1>5. QED
  BY <1>2, <1>3, <1>4

-----------------------------------------------------------------------------
(* The steps of a request *)

\* What a request carries, as the types have it.
LEMMA Carried ==
  ASSUME MeltTyped, NEW n \in Melts
  PROVE  /\ StoreTypeOK /\ meltIns[n] \in SUBSET Tokens /\ meltOuts[n] \in SUBSET Tokens
         /\ meltPc \in [Melts -> MeltPcs]
         /\ meltState \in [MeltQuotes -> {"unpaid", "pending", "paid"}]
         /\ pay \in [MeltQuotes -> {"none", "inflight", "settled", "failed"}]
BY DEF MeltTyped, MeltTypeOK, MintTypeOK

\* A request that moves on, and neither spends nor signs.
LEMMA RequestMoves ==
  ASSUME MeltTyped, ApartIInv, NEW n \in Melts, Requested(n),
         NEW q, q = meltFor[n], NEW P, P = meltIns[n], NEW O, O = meltOuts[n],
         UNCHANGED <<meltFor, meltIns, meltOuts, payFee, askLocals>>,
         SameRows(q), P \cap used' = P \cap used,
         DueMelt(meltPc'[n]) => DueMelt(meltPc[n]),
         Placed(meltPc[n], q, P)', Covered(meltPc[n], q, P)'
  PROVE  Request(n)'
<1>1. Request(n)
  BY DEF ApartIInv
<1>2. /\ PendingFor(q)' = PendingFor(q) /\ SpentFor(q)' = SpentFor(q)
      /\ ChangeFor(q)' = ChangeFor(q)
  BY DEF SameRows
<1>3. Sound(q, P)'
  BY <1>1, <1>2 DEF Request, Sound
<1>4. \A g \in Askers : (Asked(g)' <=> Asked(g)) /\ (DueAsk(g, q)' <=> DueAsk(g, q))
  BY DEF Asked, DueAsk, askLocals
<1>5. AsksOf(meltPc[n], q, P, O)'
  BY <1>1, <1>2, <1>4 DEF Request, AsksOf, askLocals
<1>6. ChangeOf(meltPc[n], q, P)'
  BY <1>1, <1>2, <1>4 DEF Request, ChangeOf, ChangeLeavesFee, RoundedDown
<1>7. QED
  BY <1>3, <1>5, <1>6 DEF Request

\* A step of a request that writes no row of proofs or change.
LEMMA QuietStep ==
  ASSUME MeltTyped, ApartIInv, RequestsApart, UnknownInFlight = FALSE,
         NEW n \in Melts, Requested(n), NEW q, q = meltFor[n], NEW P, P = meltIns[n],
         \/ MeltLock(n) \/ MeltStore(n) \/ MeltRaises(n) \/ MeltSettleReads(n)
         \/ MeltSettleWrites(n) \/ MeltPay(n) \/ MeltReply(n) \/ MeltCheckAgrees(n)
         \/ MeltCheckDiffers(n) \/ MeltUnlock(n) \/ MeltForgetOutputs(n)
         \/ MeltDropBlanks(n) \/ MeltFinish(n)
  PROVE  OwnStep(n) /\ Request(n)'
<1>1. /\ Request(n) /\ q \in MeltQuotes /\ Sound(q, P) /\ Placed(meltPc[n], q, P)
      /\ Covered(meltPc[n], q, P)
  BY DEF ApartIInv, Request, Sound
<1>2. /\ UNCHANGED <<meltFor, meltIns, meltOuts, payFee, askLocals>>
      /\ \E pc \in MeltPcs \ {"idle", "spent", "sign"} : MeltGoto(n, pc)
      /\ \A p \in MeltQuotes \ {q} : pay'[p] = pay[p] /\ meltState'[p] = meltState[p]
      /\ pay' = pay \/ (MeltPay(n) /\ pay[q] \in {"none", "failed"})
  BY Carried, <1>1 DEF MeltLock, MeltStore, MeltRaises, MeltSettleReads, MeltSettleWrites, MeltPay,
         MeltReply, MeltCheckAgrees, MeltCheckDiffers, MeltUnlock, MeltForgetOutputs,
         MeltDropBlanks, MeltFinish, KeepMelt, meltQuoteVars, SetMeltState, MeltPcs
<1>3. /\ \A p \in MeltQuotes : SameRows(p)
      /\ used' = used
      /\ \A t \in Tokens : promiseFor'[t] \in {NoQuote, promiseFor[t]}
                            \/ (t \in meltOuts[n] /\ promiseFor'[t] = q)
  <2>1. CASE MeltStore(n)
    BY <1>1, <2>1, Carried, RowsOfStore DEF MeltStore, StoreOutputs, spends
  <2>2. CASE MeltForgetOutputs(n) \/ MeltDropBlanks(n)
    BY <1>1, <2>2, Carried, RowsOfDelete DEF MeltForgetOutputs, MeltDropBlanks
  <2>3. CASE UNCHANGED storeVars
    BY <2>3, RowsUnchanged DEF storeVars, promises, spends, pendings
  <2>4. QED
    BY <2>1, <2>2, <2>3 DEF MeltLock, MeltRaises, MeltSettleReads, MeltSettleWrites, MeltPay,
         MeltReply, MeltCheckAgrees, MeltCheckDiffers, MeltUnlock, MeltFinish
<1>4. /\ PendingFor(q)' = PendingFor(q) /\ SpentFor(q)' = SpentFor(q)
      /\ Locked(q, P)' = Locked(q, P)
  BY <1>1, <1>3 DEF SameRows, Locked
<1>5. pay[q] \in {"none", "inflight", "settled", "failed"} /\ meltPc[n] \in MeltPcs
  BY <1>1, Carried
<1>6. /\ meltPc'[n] \in MeltPcs /\ meltPc'[n] \notin {"idle", "spent", "sign"}
      /\ \A m \in Melts \ {n} : meltPc'[m] = meltPc[m]
  BY <1>2, Carried DEF MeltGoto
<1>7. Placed(meltPc[n], q, P)' /\ Covered(meltPc[n], q, P)'
  <2>1. CASE MeltLock(n) \/ MeltUnlock(n) \/ MeltFinish(n)
    <3>1. /\ \/ meltPc[n] = "held" /\ meltPc'[n] = "locked" /\ meltState'[q] = "pending"
             \/ meltPc[n] = "released" /\ meltPc'[n] = "unlocked" /\ meltState'[q] = "unpaid"
             \/ meltPc[n] = "changed" /\ meltPc'[n] = "succeeded" /\ meltState'[q] = "paid"
          /\ pay' = pay
      BY <1>1, <2>1, Carried DEF MeltLock, MeltUnlock, MeltFinish, MeltGoto, SetMeltState
    <3>2. QED
      BY <1>1, <1>4, <1>5, <3>1 DEF Placed, Covered, PaidInside
  <2>2. CASE MeltStore(n) \/ MeltSettleReads(n) \/ MeltForgetOutputs(n) \/ MeltDropBlanks(n)
    <3>1. /\ \/ meltPc[n] = "locked" /\ meltPc'[n] = "ready"
             \/ meltPc[n] = "ready" /\ meltPc'[n] = "settling" /\ Internal[q] # NoQuote
             \/ meltPc[n] = "unlocked" /\ meltPc'[n] = "failed"
             \/ meltPc[n] = "signed" /\ meltPc'[n] = "changed"
          /\ pay' = pay /\ meltState' = meltState
      BY <2>2, Carried DEF MeltStore, MeltSettleReads, MeltForgetOutputs, MeltDropBlanks,
                           MeltGoto, meltQuoteVars
    <3>2. QED
      BY <1>1, <1>4, <1>5, <3>1 DEF Placed, Covered, PaidInside
  <2>3. CASE MeltSettleWrites(n)
    <3>1. meltPc[n] = "settling" /\ meltPc'[n] = "won" /\ pay' = pay /\ meltState'[q] = "paid"
      BY <1>1, <2>3, Carried DEF MeltSettleWrites, MeltGoto, SetMeltState
    <3>2. QED
      BY <1>1, <1>4, <1>5, <3>1 DEF Placed, Covered, PaidInside
  <2>4. CASE MeltPay(n)
    <3>1. /\ meltPc[n] = "ready" /\ meltPc'[n] = "paying" /\ meltState' = meltState
          /\ Internal[q] = NoQuote /\ pay'[q] \in {pay[q], "inflight"}
      BY <1>1, <2>4, Carried DEF MeltPay, MeltGoto
    <3>2. QED
      BY <1>1, <1>4, <1>5, <3>1 DEF Placed, Covered, PaidInside
  <2>5. CASE MeltReply(n) \/ MeltCheckAgrees(n) \/ MeltCheckDiffers(n)
    <3>1. /\ \/ meltPc[n] = "paying" /\ meltPc'[n] = "won" /\ pay[q] = "settled"
             \/ meltPc[n] = "paying" /\ meltPc'[n] \in {"parked", "checking"}
             \/ meltPc[n] = "checking" /\ meltPc'[n] = "parked"
             \/ meltPc[n] = "checking" /\ meltPc'[n] = "rollback" /\ pay[q] \in {"none", "failed"}
          /\ pay' = pay /\ meltState'[q] \in {meltState[q], "pending"}
      BY <1>1, <1>5, <2>5, Carried DEF MeltReply, MeltCheckAgrees, MeltCheckDiffers, MeltGoto,
                           meltQuoteVars, StatusOf, SetMeltState
    <3>2. QED
      BY <1>1, <1>4, <1>5, <3>1 DEF Placed, Covered, PaidInside
  <2>6. CASE MeltRaises(n)
    <3>1. meltPc'[n] = "failed" /\ pay' = pay /\ meltState' = meltState
      BY <2>6, Carried DEF MeltRaises, MeltGoto, meltQuoteVars
    <3>2. QED
      BY <1>1, <1>4, <1>5, <3>1 DEF Placed, Covered, PaidInside
  <2>7. QED
    BY <2>1, <2>2, <2>3, <2>4, <2>5, <2>6
<1>8. Request(n)'
  BY <1>2, <1>3, <1>1, <1>6, <1>7, RequestMoves DEF DueMelt
<1>9. OwnStep(n)
  <2>1. \A p \in MeltQuotes \ {q} :
          SameAsks(p) /\ \A t \in Tokens : promiseFor'[t] = p => promiseFor[t] = p
    BY <1>2, <1>3, TokensAssumption DEF SameAsks, Asked, askLocals
  <2>2. \A t \in Tokens : promiseFor'[t] = q => t \in meltOuts[n]
    <3>1. ASSUME NEW t \in Tokens, promiseFor[t] = q PROVE t \in meltOuts[n]
      BY <1>1, <3>1 DEF ApartIInv, RowsHaveOwners, RequestsApart, Owns
    <3>2. QED
      BY <1>1, <1>3, <3>1, TokensAssumption
  <2>3. ASSUME NEW g \in Askers, Asked(g)'
        PROVE  PollKnows(g)' /\ askFor'[g] \in MeltQuotes
    <3>1. Asked(g) /\ PollKnows(g) /\ askFor'[g] = askFor[g] /\ askPc'[g] = askPc[g]
      BY <1>2, <2>3 DEF Asked, askLocals, ApartIInv, PollsKnow
    <3>2. \A m \in Melts : Owns(m, askFor[g]) => Owns(m, askFor[g])'
      BY <1>2, <1>6, <3>1 DEF Owns, Requested
    <3>3. pay'[askFor[g]] = pay[askFor[g]] \/ (askPc[g] \notin Knowing \cup Undoing)
      <4>1. CASE MeltPay(n) /\ askFor[g] = q
        <5>1. pay[q] = "none"
          BY <1>1, <4>1 DEF MeltPay, Placed
        <5>2. QED
          BY <3>1, <4>1, <5>1 DEF PollKnows
      <4>2. QED
        BY <1>2, <3>1, <4>1 DEF PollKnows
    <3>4. QED
      BY <3>1, <3>2, <3>3 DEF PollKnows
  <2>4. QED
    BY <1>2, <1>3, <1>6, <2>1, <2>2, <2>3, FeesWithin DEF OwnStep, Requested
<1>10. QED
  BY <1>8, <1>9

\* A step of a request on its own rows, whose quote and payment stay.
LEMMA OwnRowsOnly ==
  ASSUME MeltTyped, ApartIInv, RequestsApart, NEW n \in Melts, Requested(n),
         UNCHANGED <<meltFor, meltIns, meltOuts, pay, payFee, meltState, askLocals, promiseFor>>,
         meltPc'[n] # "idle", \A m \in Melts \ {n} : meltPc'[m] = meltPc[m],
         \A p \in MeltQuotes \ {meltFor[n]} : SameRows(p),
         used' \in {used, used \cup meltIns[n]}
  PROVE  OwnStep(n)
<1>1. /\ \A p \in MeltQuotes \ {meltFor[n]} : SameAsks(p)
      /\ Requested(n)'
  BY DEF SameAsks, Asked, askLocals, Requested
<1>2. meltFor[n] \in MeltQuotes
  BY DEF ApartIInv, Request, Sound
<1>3. \A t \in Tokens : promiseFor'[t] = meltFor[n] => t \in meltOuts[n]
  BY <1>2 DEF ApartIInv, RowsHaveOwners, RequestsApart, Owns
<1>4. ASSUME NEW g \in Askers, Asked(g)'
      PROVE  PollKnows(g)' /\ askFor'[g] \in MeltQuotes
  <2>1. PollKnows(g) /\ UNCHANGED <<askFor, askPc, pay>>
    BY <1>4 DEF ApartIInv, PollsKnow, Asked, askLocals
  <2>2. \A m \in Melts : Owns(m, askFor[g]) => Owns(m, askFor[g])'
    BY <2>1 DEF Owns, Requested
  <2>3. QED
    BY <2>1, <2>2 DEF PollKnows
<1>5. QED
  BY <1>1, <1>3, <1>4, FeesWithin DEF OwnStep

\* The proofs become pending, all of them and for this quote.
LEMMA HoldStep ==
  ASSUME MeltTyped, ApartIInv, RequestsApart, NEW n \in Melts, Requested(n),
         NEW q, q = meltFor[n], NEW P, P = meltIns[n], MeltHold(n)
  PROVE  OwnStep(n) /\ Request(n)'
<1>1. /\ Request(n) /\ q \in MeltQuotes /\ Sound(q, P) /\ Placed("verified", q, P)
      /\ meltPc[n] = "verified"
  BY DEF ApartIInv, Request, Sound, MeltHold
<1>2. /\ UNCHANGED <<meltFor, meltIns, meltOuts, pay, payFee, meltState, askLocals>>
      /\ SetProofsPending(P, q) /\ meltPc'[n] = "held"
      /\ \A m \in Melts \ {n} : meltPc'[m] = meltPc[m]
  BY Carried DEF MeltHold, KeepMelt, meltQuoteVars, MeltGoto
<1>3. /\ PendingFor(q)' = PendingFor(q) \cup P /\ P \cap used = {}
      /\ \A p \in MeltQuotes : /\ SpentFor(p)' = SpentFor(p) /\ ChangeFor(p)' = ChangeFor(p)
                               /\ p # q => PendingFor(p)' = PendingFor(p)
      /\ used' = used /\ promiseFor' = promiseFor
  BY <1>1, <1>2, Carried, RowsOfHold
<1>4. PendingFor(q)' = P /\ SpentFor(q)' = SpentFor(q) /\ ChangeFor(q)' = ChangeFor(q)
  BY <1>1, <1>3 DEF Sound
<1>5. OwnStep(n)
  BY <1>2, <1>3, OwnRowsOnly DEF SameRows
<1>6. Placed(meltPc[n], q, P)' /\ Covered(meltPc[n], q, P)' /\ Sound(q, P)'
  BY <1>1, <1>2, <1>3, <1>4 DEF Placed, Covered, Locked, PaidInside, Sound
<1>7. \A g \in Askers : (Asked(g)' <=> Asked(g)) /\ (DueAsk(g, q)' <=> DueAsk(g, q))
  BY <1>2 DEF Asked, DueAsk, askLocals
<1>8. AsksOf(meltPc[n], q, P, meltOuts[n])' /\ ChangeOf(meltPc[n], q, P)'
  BY <1>1, <1>2, <1>4, <1>7
  DEF Request, AsksOf, ChangeOf, ChangeLeavesFee, RoundedDown, DueMelt, askLocals
<1>9. QED
  BY <1>2, <1>5, <1>6, <1>8 DEF Request

\* The proofs are released: after a payment that failed, or once they are spent.
LEMMA ReleaseStep ==
  ASSUME MeltTyped, ApartIInv, RequestsApart, NEW n \in Melts, Requested(n),
         NEW q, q = meltFor[n], NEW P, P = meltIns[n],
         MeltReleaseProofs(n) \/ MeltFree(n)
  PROVE  OwnStep(n) /\ Request(n)'
<1>1. /\ Request(n) /\ q \in MeltQuotes /\ Sound(q, P) /\ Placed(meltPc[n], q, P)
      /\ Covered(meltPc[n], q, P)
  BY DEF ApartIInv, Request, Sound
<1>2. /\ UNCHANGED <<meltFor, meltIns, meltOuts, pay, payFee, meltState, askLocals>>
      /\ UnsetProofsPending(P)
      /\ \/ meltPc[n] = "rollback" /\ meltPc'[n] = "released"
         \/ meltPc[n] = "spent" /\ meltPc'[n] \in {"sign", "changed"}
      /\ \A m \in Melts \ {n} : meltPc'[m] = meltPc[m]
  BY Carried DEF MeltReleaseProofs, MeltFree, KeepMelt, meltQuoteVars, MeltGoto
<1>3. /\ \A p \in MeltQuotes : /\ SpentFor(p)' = SpentFor(p) /\ ChangeFor(p)' = ChangeFor(p)
                               /\ PendingFor(p)' = PendingFor(p) \ P
      /\ used' = used /\ promiseFor' = promiseFor
  BY <1>2, Carried, RowsOfRelease
<1>4. PendingFor(q)' = {} /\ SpentFor(q)' = SpentFor(q) /\ ChangeFor(q)' = ChangeFor(q)
  BY <1>1, <1>3 DEF Sound
<1>5. \A p \in MeltQuotes \ {q} : SameRows(p)
  <2>1. \A p \in MeltQuotes \ {q} : PendingFor(p) \cap P = {}
    BY RowsApart DEF ApartIInv
  <2>2. QED
    BY <1>3, <2>1 DEF SameRows
<1>6. OwnStep(n)
  BY <1>2, <1>3, <1>5, OwnRowsOnly
<1>7. Placed(meltPc[n], q, P)' /\ Covered(meltPc[n], q, P)' /\ Sound(q, P)'
  <2>1. pay[q] \in {"none", "inflight", "settled", "failed"} /\ SpentFor(q) \subseteq used
    BY <1>1, Carried DEF SpentFor
  <2>2. QED
    BY <1>1, <1>2, <1>4, <2>1 DEF Placed, Covered, Locked, PaidInside, Sound
<1>8. \A g \in Askers : (Asked(g)' <=> Asked(g)) /\ (DueAsk(g, q)' <=> DueAsk(g, q))
  BY <1>2 DEF Asked, DueAsk, askLocals
<1>9. AsksOf(meltPc[n], q, P, meltOuts[n])' /\ ChangeOf(meltPc[n], q, P)'
  BY <1>1, <1>2, <1>4, <1>8
  DEF Request, AsksOf, ChangeOf, ChangeLeavesFee, RoundedDown, DueMelt, askLocals
<1>10. QED
  BY <1>2, <1>6, <1>7, <1>9 DEF Request

\* UNIQUE (y): whoever spends the proofs is the first, and becomes due.
LEMMA FirstToSpend ==
  ASSUME ApartIInv, NEW n \in Melts, Requested(n), NEW q, q = meltFor[n], NEW P, P = meltIns[n],
         P \cap used = {}
  PROVE  /\ SpentFor(q) = {} /\ P # {} /\ ChangeFor(q) = {}
         /\ ~DueMelt(meltPc[n]) /\ \A g \in Askers : Asked(g) => ~DueAsk(g, q)
<1>1. Request(n) /\ P # {} /\ SpentFor(q) \in {{}, P} /\ SpentFor(q) \subseteq used
  BY DEF ApartIInv, Request, Sound, SpentFor
<1>2. SpentFor(q) = {} /\ SpentFor(q) # P
  BY <1>1
<1>3. QED
  BY <1>1, <1>2 DEF Request, AsksOf, ChangeOf, Placed, DueMelt, DueAsk

\* The proofs are spent by the request.
LEMMA InvalidateStep ==
  ASSUME MeltTyped, ApartIInv, RequestsApart, NEW n \in Melts, Requested(n),
         NEW q, q = meltFor[n], NEW P, P = meltIns[n], MeltInvalidate(n)
  PROVE  OwnStep(n) /\ Request(n)'
<1>1. /\ Request(n) /\ q \in MeltQuotes /\ Sound(q, P) /\ Placed("won", q, P)
      /\ meltPc[n] = "won"
  BY DEF ApartIInv, Request, Sound, MeltInvalidate
<1>2. /\ UNCHANGED <<meltFor, meltIns, meltOuts, pay, payFee, meltState, askLocals>>
      /\ InvalidateProofs(P, q) /\ meltPc'[n] = "spent"
      /\ \A m \in Melts \ {n} : meltPc'[m] = meltPc[m]
  BY Carried DEF MeltInvalidate, KeepMelt, meltQuoteVars, MeltGoto
<1>3. /\ CanInvalidate(P) /\ used' = used \cup P /\ usedFor' = Column(usedFor, P, q)
      /\ UNCHANGED <<signed, promiseFor, pending, pendingFor>>
  BY <1>2 DEF InvalidateProofs, promises, pendings
<1>4. /\ SpentFor(q)' = SpentFor(q) \cup P /\ P \cap used = {}
      /\ \A p \in MeltQuotes : /\ ChangeFor(p)' = ChangeFor(p)
                               /\ p # q => SpentFor(p)' = SpentFor(p)
                               /\ PendingFor(p)' = PendingFor(p)
  BY <1>1, <1>3, Carried, RowsOfSpend
<1>5. /\ SpentFor(q) = {} /\ P # {} /\ ChangeFor(q) = {}
      /\ ~DueMelt(meltPc[n]) /\ \A g \in Askers : Asked(g) => ~DueAsk(g, q)
  BY <1>4, FirstToSpend
<1>6. SpentFor(q)' = P /\ PendingFor(q)' = PendingFor(q) /\ ChangeFor(q)' = {}
  BY <1>1, <1>4, <1>5
<1>7. OwnStep(n)
  BY <1>2, <1>3, <1>4, OwnRowsOnly DEF SameRows
<1>8. Placed(meltPc[n], q, P)' /\ Covered(meltPc[n], q, P)' /\ Sound(q, P)'
  BY <1>1, <1>2, <1>6 DEF Placed, Covered, Locked, PaidInside, Sound
<1>9. \A g \in Askers : (Asked(g)' <=> Asked(g)) /\ (DueAsk(g, q)' <=> DueAsk(g, q))
  BY <1>2 DEF Asked, DueAsk, askLocals
<1>10. \A g \in Askers : ~DueAsk(g, q)
  BY <1>5 DEF DueAsk, Asked
<1>11. AsksOf(meltPc[n], q, P, meltOuts[n])' /\ ChangeOf(meltPc[n], q, P)'
  BY <1>1, <1>2, <1>6, <1>9, <1>10 DEF Request, AsksOf, ChangeOf, askLocals
<1>12. QED
  BY <1>2, <1>7, <1>8, <1>11 DEF Request

-----------------------------------------------------------------------------
(* Change *)

\* Rounding a fee down gives no more than rounding it up, and no more than a
\* bound that is whole.
LEMMA Rounding ==
  ASSUME NEW u \in Nat \ {0}, NEW f \in Nat, NEW r \in Nat, f <= r * u
  PROVE  /\ f \div u \in Nat /\ (f + u - 1) \div u \in Nat
         /\ f \div u <= (f + u - 1) \div u /\ f \div u <= r
<1>1. f \div u \in Nat /\ (f + u - 1) \div u \in Nat
  OBVIOUS
<1>2. (f \div u) * u <= f
  OBVIOUS
<1>3. f + u - 1 < ((f + u - 1) \div u + 1) * u
  OBVIOUS
<1>4. \A a, b \in Nat : a * u < (b + 1) * u => a <= b
  OBVIOUS
<1>5. (f \div u) * u < ((f + u - 1) \div u + 1) * u /\ (f \div u) * u < (r + 1) * u
  BY <1>1, <1>2, <1>3
<1>6. QED
  BY <1>1, <1>4, <1>5

\* Part of a set of tokens is worth no more than the set.
LEMMA ValueOfPart ==
  ASSUME NEW S \in SUBSET Tokens, NEW T \in SUBSET S
  PROVE  Value(T) <= Value(S) /\ Value(T) \in Nat /\ Value(S) \in Nat
<1>1. /\ Value(S \ T) = Value(S) - Value(T)
      /\ Value(S) \in Nat /\ Value(T) \in Nat /\ Value(S \ T) \in Nat
  BY ValueMinus
<1>2. QED
  BY <1>1

\* The fee of a payment, in whole units, is within the reserve.
LEMMA FeeIsReserved ==
  ASSUME MeltTyped, RowsHaveOwners, NEW q \in MeltQuotes
  PROVE  /\ RoundedDown(payFee[q]) \in Nat /\ RoundedUp(payFee[q]) \in Nat
         /\ RoundedDown(payFee[q]) <= RoundedUp(payFee[q])
         /\ RoundedDown(payFee[q]) <= FeeReserve[q]
         /\ MeltAmount[q] \in Nat /\ FeeReserve[q] \in Nat
<1>1. /\ payFee[q] \in Nat /\ payFee[q] <= FeeReserve[q] * FeeUnit
      /\ FeeReserve[q] \in Nat /\ MeltAmount[q] \in Nat /\ FeeUnit \in Nat \ {0}
  BY FeeUnitAssumption, MeltQuotesAssumption DEF MeltTyped, MeltTypeOK, RowsHaveOwners
<1>2. QED
  BY <1>1, Rounding DEF RoundedDown, RoundedUp

\* What is signed for a quote that had no change is within what is overpaid,
\* with the fee rounded either way.
LEMMA ChangeIsWithin ==
  ASSUME MeltTyped, RowsHaveOwners, NEW q \in MeltQuotes,
         NEW P \in SUBSET Tokens, NEW O \in SUBSET Tokens,
         NEW fee, fee \in {RoundedDown(payFee[q]), RoundedUp(payFee[q])},
         NEW C \in Changes(O, Overpaid(q, P, fee)), SignOutputs(C),
         ChangeFor(q) = {}, SpentFor(q) = P, UNCHANGED payFee
  PROVE  ChangeLeavesFee(q, RoundedDown(payFee[q]))'
<1>1. C \in SUBSET Tokens /\ Value(C) <= Overpaid(q, P, fee)
  BY DEF Changes
<1>2. ChangeFor(q)' \in SUBSET C /\ SpentFor(q)' = P
  BY <1>1, RowsOfSign DEF MeltTyped, MeltTypeOK, MintTypeOK
<1>3. Value(ChangeFor(q)') <= Value(C) /\ Value(ChangeFor(q)') \in Nat /\ Value(C) \in Nat
  BY <1>1, <1>2, ValueOfPart
<1>4. /\ RoundedDown(payFee[q]) \in Nat /\ RoundedUp(payFee[q]) \in Nat
      /\ RoundedDown(payFee[q]) <= RoundedUp(payFee[q]) /\ MeltAmount[q] \in Nat
  BY FeeIsReserved
<1>5. Value(P) \in Nat /\ Fee(P) \in Nat
  BY ValueAssumption, FeeType
<1>6. Value(ChangeFor(q)') + MeltAmount[q] + RoundedDown(payFee[q]) + Fee(P) <= Value(P)
  BY <1>1, <1>3, <1>4, <1>5 DEF Overpaid
<1>7. QED
  BY <1>2, <1>6 DEF ChangeLeavesFee, RoundedDown, Fee

\* The request signs the change.
LEMMA SignStep ==
  ASSUME MeltTyped, ApartIInv, RequestsApart, NEW n \in Melts, Requested(n),
         NEW q, q = meltFor[n], NEW P, P = meltIns[n], MeltSignChange(n)
  PROVE  OwnStep(n) /\ Request(n)'
<1>1. /\ Request(n) /\ q \in MeltQuotes /\ Sound(q, P) /\ Placed("sign", q, P)
      /\ Covered("sign", q, P) /\ meltPc[n] = "sign" /\ RowsHaveOwners
  BY DEF ApartIInv, Request, Sound, MeltSignChange
<1>2. PICK C \in Changes(meltOuts[n], Overpaid(q, P, RoundedUp(payFee[q]))) : SignOutputs(C)
  BY DEF MeltSignChange, MeltOverpaid
<1>3. /\ UNCHANGED <<meltFor, meltIns, meltOuts, pay, payFee, meltState, askLocals>>
      /\ meltPc'[n] = "signed" /\ \A m \in Melts \ {n} : meltPc'[m] = meltPc[m]
  BY Carried DEF MeltSignChange, KeepMelt, meltQuoteVars, MeltGoto
<1>4. C \in SUBSET meltOuts[n] /\ C \in SUBSET Tokens
  BY <1>2, Carried DEF Changes
<1>5. /\ \A p \in MeltQuotes : /\ SpentFor(p)' = SpentFor(p) /\ PendingFor(p)' = PendingFor(p)
                               /\ ChangeFor(p)' = ChangeFor(p) \cup {t \in C : promiseFor[t] = p}
      /\ used' = used /\ promiseFor' = promiseFor
  BY <1>2, <1>4, Carried, RowsOfSign
<1>6. \A p \in MeltQuotes \ {q} : SameRows(p)
  <2>1. \A p \in MeltQuotes \ {q} : \A t \in Tokens \cap meltOuts[n] : promiseFor[t] # p
    BY RowsApart DEF ApartIInv
  <2>2. QED
    BY <1>4, <1>5, <2>1 DEF SameRows
<1>7. OwnStep(n)
  BY <1>3, <1>5, <1>6, OwnRowsOnly
<1>8. Placed(meltPc[n], q, P)' /\ Covered(meltPc[n], q, P)' /\ Sound(q, P)'
  BY <1>1, <1>3, <1>5 DEF Placed, Covered, Locked, PaidInside, Sound
<1>9. \A g \in Askers : (Asked(g)' <=> Asked(g)) /\ (DueAsk(g, q)' <=> DueAsk(g, q))
  BY <1>3 DEF Asked, DueAsk, askLocals
<1>10. ChangeFor(q) = {} /\ SpentFor(q) = P /\ \A g \in Askers : ~DueAsk(g, q)
  BY <1>1 DEF Request, ChangeOf, AsksOf, Placed, DueMelt, DueAsk, Asked
<1>11. ChangeLeavesFee(q, RoundedDown(payFee[q]))'
  BY <1>1, <1>2, <1>3, <1>10, Carried, ChangeIsWithin
<1>12. AsksOf(meltPc[n], q, P, meltOuts[n])'
  BY <1>1, <1>3, <1>5, <1>9, <1>10 DEF Request, AsksOf, askLocals
<1>13. ChangeOf(meltPc[n], q, P)'
  BY <1>1, <1>3, <1>5, <1>9, <1>10, <1>11 DEF ChangeOf, DueMelt
<1>14. QED
  BY <1>3, <1>7, <1>8, <1>12, <1>13 DEF Request

-----------------------------------------------------------------------------
(* The steps of a poll *)

\* A step of a poll of request n that writes only rows of its quote.
LEMMA AskOwnStep ==
  ASSUME MeltTyped, ApartIInv, RequestsApart, NEW n \in Melts, Requested(n),
         NEW g \in Askers, Asked(g), askFor[g] = meltFor[n],
         UNCHANGED <<meltLocals, askFor, pay, payFee>>,
         \E s \in {"paid", "unpaid"} :
           meltState' \in {meltState, [meltState EXCEPT ![meltFor[n]] = s]},
         \A h \in Askers \ {g} : /\ askPc'[h] = askPc[h] /\ askIns'[h] = askIns[h]
                                 /\ askOuts'[h] = askOuts[h],
         askPc'[g] \in Knowing => pay[meltFor[n]] = "settled",
         askPc'[g] \in Undoing => pay[meltFor[n]] = "failed",
         \A p \in MeltQuotes \ {meltFor[n]} : SameRows(p),
         \A t \in Tokens : promiseFor'[t] \in {NoQuote, promiseFor[t]},
         used' \in {used, used \cup meltIns[n]}
  PROVE  OwnStep(n)
<1>1. meltFor[n] \in MeltQuotes
  BY DEF ApartIInv, Request, Sound
<1>2. UNCHANGED <<meltPc, meltFor, meltIns, meltOuts>> /\ Requested(n)'
  BY DEF meltLocals, Requested
<1>3. ASSUME NEW p \in MeltQuotes \ {meltFor[n]}
      PROVE  /\ meltState'[p] = meltState[p] /\ SameAsks(p)
             /\ \A t \in Tokens : promiseFor'[t] = p => promiseFor[t] = p
  <2>1. meltState'[p] = meltState[p]
    BY Carried
  <2>2. SameAsks(p)
    BY DEF SameAsks, Asked
  <2>3. QED
    BY <2>1, <2>2, TokensAssumption
<1>4. \A t \in Tokens : promiseFor'[t] = meltFor[n] => t \in meltOuts[n]
  <2>1. \A t \in Tokens : promiseFor[t] = meltFor[n] => t \in meltOuts[n]
    BY <1>1 DEF ApartIInv, RowsHaveOwners, RequestsApart, Owns
  <2>2. QED
    BY <1>1, <2>1, TokensAssumption
<1>5. ASSUME NEW h \in Askers, Asked(h)'
      PROVE  PollKnows(h)' /\ askFor'[h] \in MeltQuotes
  <2>1. Asked(h) /\ PollKnows(h) /\ UNCHANGED <<askFor, pay>>
    BY <1>5 DEF ApartIInv, PollsKnow, Asked
  <2>2. \A m \in Melts : Owns(m, askFor[h]) => Owns(m, askFor[h])'
    BY <1>2, <2>1 DEF Owns, Requested
  <2>3. QED
    BY <2>1, <2>2 DEF PollKnows
<1>6. QED
  BY <1>2, <1>3, <1>4, <1>5, FeesWithin DEF OwnStep

\* What a poll knows of the request it works for.
LEMMA AskedFor ==
  ASSUME MeltTyped, ApartIInv, NEW g \in Askers, Asked(g)
  PROVE  \E n \in Melts : /\ Requested(n) /\ askFor[g] = meltFor[n] /\ Request(n)
                          /\ PollKnows(g) /\ meltFor[n] \in MeltQuotes
BY DEF ApartIInv, PollsKnow, PollKnows, Owns, Request, Sound

\* What the steps of a poll have in common.
LEMMA AskFrame ==
  ASSUME MeltTyped, NEW g \in Askers,
         \/ AskStep(g) \/ AskAnswered(g) \/ AskLearnsNothing(g)
  PROVE  /\ UNCHANGED <<meltLocals, askFor, pay, payFee>>
         /\ meltState' \in {meltState, [meltState EXCEPT ![askFor[g]] = "paid"],
                            [meltState EXCEPT ![askFor[g]] = "unpaid"]}
         /\ \A h \in Askers \ {g} : /\ askPc'[h] = askPc[h] /\ askIns'[h] = askIns[h]
                                    /\ askOuts'[h] = askOuts[h]
<1>1. /\ askPc \in [Askers -> AskPcs] /\ askIns \in [Askers -> SUBSET Tokens]
      /\ askOuts \in [Askers -> SUBSET Tokens]
  BY DEF MeltTyped, MeltTypeOK
<1>2. UNCHANGED <<meltLocals, askFor, pay, payFee>>
  BY DEF AskStep, AskReadsProofs, AskCommits, AskReadsOutputs, AskSignsChange, AskDropsBlanks,
         AskWritesQuote, AskFrees, AskForgetsOutputs, AskRaises, AskAnswered,
         AskLearnsNothing, KeepAsk
<1>3. meltState' \in {meltState, [meltState EXCEPT ![askFor[g]] = "paid"],
                      [meltState EXCEPT ![askFor[g]] = "unpaid"]}
  BY DEF AskStep, AskReadsProofs, AskCommits, AskReadsOutputs, AskSignsChange, AskDropsBlanks,
         AskWritesQuote, AskFrees, AskForgetsOutputs, AskRaises, AskAnswered,
         AskLearnsNothing, SetMeltState
<1>4. \A h \in Askers \ {g} : /\ askPc'[h] = askPc[h] /\ askIns'[h] = askIns[h]
                              /\ askOuts'[h] = askOuts[h]
  BY <1>1 DEF AskStep, AskReadsProofs, AskCommits, AskReadsOutputs, AskSignsChange, AskDropsBlanks,
         AskWritesQuote, AskFrees, AskForgetsOutputs, AskRaises, AskAnswered,
         AskLearnsNothing, AskGoto
<1>5. QED
  BY <1>2, <1>3, <1>4

\* Rows, quote and place of the request stay, and nobody becomes due: only the
\* lists of the poll are left to look at.
LEMMA AskMoves ==
  ASSUME MeltTyped, ApartIInv, NEW n \in Melts, Requested(n), NEW g \in Askers, Asked(g),
         NEW q, q = meltFor[n], NEW P, P = meltIns[n], NEW O, O = meltOuts[n],
         askFor[g] = q,
         UNCHANGED <<meltLocals, askFor, pay, payFee>>,
         \A h \in Askers \ {g} : /\ askPc'[h] = askPc[h] /\ askIns'[h] = askIns[h]
                                 /\ askOuts'[h] = askOuts[h],
         SameRows(q), used' = used,
         DueAsk(g, q)' => DueAsk(g, q),
         askPc'[g] \notin {"idle", "asking", "settled", "failed", "unpaid"}
           => askIns'[g] \in {{}, P},
         askPc'[g] = "change" => askOuts'[g] \subseteq O /\ askIns'[g] # {}
  PROVE  Request(n)'
<1>1. Request(n) /\ q \in MeltQuotes /\ Internal[q] = NoQuote
  BY DEF ApartIInv, Request, Sound, PollsKnow, PollKnows
<1>2. /\ PendingFor(q)' = PendingFor(q) /\ SpentFor(q)' = SpentFor(q)
      /\ ChangeFor(q)' = ChangeFor(q) /\ Locked(q, P)' = Locked(q, P)
      /\ UNCHANGED <<meltPc, meltFor, meltIns, meltOuts>>
  BY DEF SameRows, Locked, meltLocals
<1>3. \A h \in Askers : DueAsk(h, q)' => DueAsk(h, q)
  BY DEF DueAsk
<1>4. Sound(q, P)' /\ Placed(meltPc[n], q, P)' /\ Covered(meltPc[n], q, P)'
  BY <1>1, <1>2 DEF Request, Sound, Placed, Covered, PaidInside
<1>5. AsksOf(meltPc[n], q, P, O)'
  <2>1. ASSUME NEW h \in Askers, Asked(h)', askFor'[h] = q
        PROVE  /\ askPc'[h] \notin {"asking", "settled", "failed", "unpaid"}
                    => askIns'[h] \in {{}, P}
               /\ askPc'[h] = "change" => askOuts'[h] \subseteq O /\ askIns'[h] # {}
    <3>1. CASE h = g
      BY <2>1, <3>1 DEF Asked
    <3>2. CASE h # g
      BY <1>1, <2>1, <3>2 DEF Asked, Request, AsksOf
    <3>3. QED
      BY <3>1, <3>2
  <2>2. ASSUME NEW h \in Askers, DueAsk(h, q)'
        PROVE  /\ SpentFor(q)' = P /\ ~DueMelt(meltPc[n])'
               /\ \A k \in Askers : DueAsk(k, q)' => k = h
    <3>1. DueAsk(h, q) /\ Asked(h) /\ askFor[h] = q
      BY <1>3, <2>2 DEF DueAsk, Asked
    <3>2. QED
      BY <1>1, <1>2, <1>3, <3>1 DEF Request, AsksOf, DueMelt
  <2>3. QED
    BY <2>1, <2>2 DEF AsksOf
<1>6. ChangeOf(meltPc[n], q, P)'
  BY <1>1, <1>2, <1>3 DEF Request, ChangeOf, ChangeLeavesFee, RoundedDown, DueMelt
<1>7. QED
  BY <1>2, <1>4, <1>5, <1>6 DEF Request

\* A step of a poll that writes no row of proofs or change.
LEMMA QuietAsk ==
  ASSUME MeltTyped, ApartIInv, RequestsApart, NEW g \in Askers, Asked(g),
         NEW n \in Melts, Requested(n), NEW q, q = meltFor[n], NEW P, P = meltIns[n], askFor[g] = q,
         \/ AskAnswered(g) \/ AskLearnsNothing(g) \/ AskReadsProofs(g) \/ AskReadsOutputs(g)
         \/ AskDropsBlanks(g) \/ AskWritesQuote(g) \/ AskForgetsOutputs(g) \/ AskRaises(g)
  PROVE  OwnStep(n) /\ Request(n)'
<1>1. /\ Request(n) /\ q \in MeltQuotes /\ Sound(q, P) /\ PollKnows(g) /\ RowsHaveOwners
      /\ AsksOf(meltPc[n], q, P, meltOuts[n])
  BY DEF ApartIInv, Request, Sound, PollsKnow
<1>2. /\ UNCHANGED <<meltLocals, askFor, pay, payFee>>
      /\ meltState' \in {meltState, [meltState EXCEPT ![q] = "paid"],
                         [meltState EXCEPT ![q] = "unpaid"]}
      /\ \A h \in Askers \ {g} : /\ askPc'[h] = askPc[h] /\ askIns'[h] = askIns[h]
                                 /\ askOuts'[h] = askOuts[h]
  BY AskFrame DEF AskStep
<1>3. /\ \A p \in MeltQuotes : SameRows(p)
      /\ used' = used /\ \A t \in Tokens : promiseFor'[t] \in {NoQuote, promiseFor[t]}
  <2>1. CASE AskDropsBlanks(g) \/ AskForgetsOutputs(g)
    BY <1>1, <2>1, Carried, RowsOfDelete DEF AskDropsBlanks, AskForgetsOutputs
  <2>2. CASE UNCHANGED storeVars
    BY <2>2, RowsUnchanged DEF storeVars, promises, spends, pendings
  <2>3. QED
    BY <2>1, <2>2 DEF AskAnswered, AskLearnsNothing, AskReadsProofs, AskReadsOutputs,
                      AskWritesQuote, AskRaises
<1>4. pay[q] \in {"none", "inflight", "settled", "failed"}
  BY <1>1, Carried
<1>5. askPc \in [Askers -> AskPcs] /\ askIns \in [Askers -> SUBSET Tokens]
      /\ askOuts \in [Askers -> SUBSET Tokens]
  BY DEF MeltTyped, MeltTypeOK
<1>6. /\ askPc'[g] \in Knowing => pay[q] = "settled"
      /\ askPc'[g] \in Undoing => pay[q] = "failed"
  <2>1. CASE AskAnswered(g)
    BY <1>4, <1>5, <2>1 DEF AskAnswered, AskGoto, StatusOf, Knowing, Undoing
  <2>2. CASE AskReadsProofs(g)
    BY <1>1, <1>5, <2>2 DEF AskReadsProofs, AskGoto, PollKnows, Knowing, Undoing
  <2>3. CASE AskReadsOutputs(g)
    BY <1>1, <1>5, <2>3 DEF AskReadsOutputs, AskGoto, PollKnows, Knowing, Undoing
  <2>4. CASE AskDropsBlanks(g) \/ AskWritesQuote(g)
    BY <1>1, <1>5, <2>4 DEF AskDropsBlanks, AskWritesQuote, AskGoto, PollKnows, Knowing, Undoing
  <2>5. CASE AskLearnsNothing(g) \/ AskForgetsOutputs(g) \/ AskRaises(g)
    BY <1>5, <2>5 DEF AskLearnsNothing, AskForgetsOutputs, AskRaises, AskGoto, Knowing, Undoing
  <2>6. QED
    BY <2>1, <2>2, <2>3, <2>4, <2>5
<1>7. OwnStep(n)
  BY <1>2, <1>3, <1>6, AskOwnStep
<1>8. /\ askPc'[g] \notin {"idle", "asking", "settled", "failed", "unpaid"}
           => askIns'[g] \in {{}, P}
      /\ askPc'[g] = "change" => askOuts'[g] \subseteq meltOuts[n] /\ askIns'[g] # {}
      /\ askPc'[g] \in {"committed", "change"} => askPc[g] = "committed" /\ askIns' = askIns
  <2>1. CASE AskReadsProofs(g)
    BY <1>1, <1>5, <2>1 DEF AskReadsProofs, AskGoto, Sound
  <2>2. CASE AskReadsOutputs(g)
    <3>1. OutputsFor(q) \subseteq meltOuts[n]
      BY <1>1, Carried DEF OutputsFor, RowsHaveOwners, RequestsApart, Owns, StoreTypeOK
    <3>2. askPc[g] = "committed" /\ askIns' = askIns /\ askIns[g] \in {{}, P}
      BY <1>1, <2>2 DEF AskReadsOutputs, AsksOf, Asked
    <3>3. askOuts'[g] = OutputsFor(q) /\ askPc'[g] \in {"idle", "change", "changed"}
      BY <1>5, <2>2 DEF AskReadsOutputs, AskGoto
    <3>4. askPc'[g] = "change" => askIns[g] # {}
      BY <1>5, <2>2 DEF AskReadsOutputs, AskGoto
    <3>5. QED
      BY <3>1, <3>2, <3>3, <3>4
  <2>3. CASE AskAnswered(g)
    BY <1>5, <2>3 DEF AskAnswered, AskGoto
  <2>4. CASE AskDropsBlanks(g) \/ AskWritesQuote(g)
    <3>1. askPc'[g] \in {"changed", "idle", "unpaid"} /\ askIns' = askIns
      BY <1>5, <2>4 DEF AskDropsBlanks, AskWritesQuote, AskGoto
    <3>2. askPc'[g] = "changed" => askPc[g] = "signed"
      BY <1>5, <2>4 DEF AskDropsBlanks, AskWritesQuote, AskGoto
    <3>3. QED
      BY <1>1, <3>1, <3>2 DEF AsksOf, Asked
  <2>5. CASE AskLearnsNothing(g) \/ AskRaises(g)
    BY <1>5, <2>5 DEF AskLearnsNothing, AskRaises, AskGoto
  <2>6. CASE AskForgetsOutputs(g)
    <3>1. askPc[g] = "freed" /\ askPc'[g] \in {"idle", "returned"} /\ askIns' = askIns
      BY <1>5, <2>6 DEF AskForgetsOutputs, AskGoto
    <3>2. QED
      BY <1>1, <3>1 DEF AsksOf, Asked
  <2>7. QED
    BY <2>1, <2>2, <2>3, <2>4, <2>5, <2>6
<1>9. DueAsk(g, q)' => DueAsk(g, q)
  BY <1>8 DEF DueAsk
<1>10. Request(n)'
  BY <1>1, <1>2, <1>3, <1>8, <1>9, AskMoves
<1>11. QED
  BY <1>7, <1>10

\* What a poll that has read the proofs works with.
LEMMA AskCarries ==
  ASSUME MeltTyped, ApartIInv, NEW g \in Askers, Asked(g),
         NEW n \in Melts, Requested(n), NEW q, q = meltFor[n], NEW P, P = meltIns[n], askFor[g] = q
  PROVE  /\ Request(n) /\ q \in MeltQuotes /\ Sound(q, P) /\ PollKnows(g) /\ RowsHaveOwners
         /\ AsksOf(meltPc[n], q, P, meltOuts[n]) /\ Internal[q] = NoQuote
         /\ pay[q] \in {"none", "inflight", "settled", "failed"}
         /\ askPc \in [Askers -> AskPcs]
         /\ askPc[g] \notin {"asking", "settled", "failed", "unpaid"} =>
              askIns[g] \in {{}, P} /\ askIns[g] \in SUBSET Tokens
<1>1. Request(n) /\ q \in MeltQuotes /\ Sound(q, P) /\ PollKnows(g) /\ RowsHaveOwners
  BY DEF ApartIInv, Request, Sound, PollsKnow
<1>2. AsksOf(meltPc[n], q, P, meltOuts[n]) /\ Internal[q] = NoQuote /\ P \in SUBSET Tokens
  BY <1>1 DEF Request, PollKnows, Sound
<1>3. askPc[g] \notin {"asking", "settled", "failed", "unpaid"} => askIns[g] \in {{}, P}
  BY <1>2 DEF AsksOf
<1>4. askPc \in [Askers -> AskPcs]
  BY DEF MeltTyped, MeltTypeOK
<1>5. QED
  BY <1>1, <1>2, <1>3, <1>4, Carried

\* The poll spends and releases what it had read, if that was still unspent.
LEMMA CommitStep ==
  ASSUME MeltTyped, ApartIInv, RequestsApart, NEW g \in Askers, Asked(g),
         NEW n \in Melts, Requested(n), NEW q, q = meltFor[n], NEW P, P = meltIns[n], askFor[g] = q,
         AskCommits(g)
  PROVE  OwnStep(n) /\ Request(n)'
<1>1. /\ Request(n) /\ q \in MeltQuotes /\ Sound(q, P) /\ PollKnows(g) /\ RowsHaveOwners
      /\ AsksOf(meltPc[n], q, P, meltOuts[n]) /\ Internal[q] = NoQuote
      /\ askPc[g] = "commit" /\ askPc'[g] = "committed" /\ askIns[g] \in {{}, P}
      /\ askIns[g] \in SUBSET Tokens /\ pay[q] = "settled"
  BY AskCarries DEF AskCommits, AskGoto, PollKnows, Knowing
<1>2. /\ UNCHANGED <<meltLocals, askFor, pay, payFee, meltState, askIns, askOuts>>
      /\ \A h \in Askers \ {g} : /\ askPc'[h] = askPc[h] /\ askIns'[h] = askIns[h]
                                 /\ askOuts'[h] = askOuts[h]
  BY AskFrame DEF AskStep, AskCommits
<1>3. /\ CanInvalidate(askIns[g]) /\ used' = used \cup askIns[g]
      /\ usedFor' = Column(usedFor, askIns[g], q)
      /\ UNCHANGED <<signed, promiseFor>>
      /\ pending' = pending \ askIns[g] /\ pendingFor' = Column(pendingFor, askIns[g], NoQuote)
  BY DEF AskCommits, promises
<1>4. /\ SpentFor(q)' = SpentFor(q) \cup askIns[g] /\ askIns[g] \cap used = {}
      /\ \A p \in MeltQuotes : /\ ChangeFor(p)' = ChangeFor(p)
                               /\ p # q => SpentFor(p)' = SpentFor(p)
                               /\ PendingFor(p)' \in {PendingFor(p), PendingFor(p) \ askIns[g]}
  BY <1>1, <1>3, Carried, RowsOfSpend
<1>5. \A p \in MeltQuotes \ {q} : SameRows(p)
  <2>1. \A p \in MeltQuotes \ {q} : PendingFor(p) \cap P = {}
    BY RowsApart DEF ApartIInv
  <2>2. QED
    BY <1>1, <1>4, <2>1 DEF SameRows
<1>6. OwnStep(n)
  BY <1>1, <1>2, <1>3, <1>5, AskOwnStep DEF Knowing, Undoing
<1>7. CASE askIns[g] = {}
  <2>1. SameRows(q) /\ used' = used
    BY <1>1, <1>3, <1>4, <1>7 DEF SameRows
  <2>2. ~DueAsk(g, q)'
    BY <1>2, <1>7 DEF DueAsk
  <2>3. Request(n)'
    BY <1>1, <1>2, <1>7, <2>1, <2>2, AskMoves
  <2>4. QED
    BY <1>6, <2>3
<1>8. CASE askIns[g] = P
  <2>1. /\ SpentFor(q) = {} /\ P # {} /\ ChangeFor(q) = {}
        /\ ~DueMelt(meltPc[n]) /\ \A h \in Askers : Asked(h) => ~DueAsk(h, q)
    BY <1>4, <1>8, FirstToSpend
  <2>2. SpentFor(q)' = P /\ PendingFor(q)' \in {{}, P} /\ ChangeFor(q)' = {}
    BY <1>1, <1>4, <1>8, <2>1 DEF Sound
  <2>3. UNCHANGED <<meltPc, meltFor, meltIns, meltOuts>>
    BY <1>2 DEF meltLocals
  <2>4. Sound(q, P)' /\ Placed(meltPc[n], q, P)' /\ Covered(meltPc[n], q, P)'
    BY <1>1, <1>2, <2>2, <2>3 DEF Request, Sound, Placed, Covered, PaidInside
  <2>5. \A h \in Askers : DueAsk(h, q)' => h = g
    BY <1>2, <2>1 DEF DueAsk, Asked
  <2>6. AsksOf(meltPc[n], q, P, meltOuts[n])'
    <3>1. ASSUME NEW h \in Askers, Asked(h)', askFor'[h] = q
          PROVE  /\ askPc'[h] \notin {"asking", "settled", "failed", "unpaid"}
                      => askIns'[h] \in {{}, P}
                 /\ askPc'[h] = "change" => askOuts'[h] \subseteq meltOuts[n] /\ askIns'[h] # {}
      <4>1. CASE h = g
        BY <1>1, <1>2, <4>1
      <4>2. CASE h # g
        BY <1>1, <1>2, <3>1, <4>2 DEF Asked, AsksOf
      <4>3. QED
        BY <4>1, <4>2
    <3>2. QED
      BY <2>1, <2>2, <2>3, <2>5, <3>1 DEF AsksOf, DueMelt
  <2>7. ChangeOf(meltPc[n], q, P)'
    BY <2>2 DEF ChangeOf
  <2>8. QED
    BY <1>6, <2>3, <2>4, <2>6, <2>7 DEF Request
<1>9. QED
  BY <1>1, <1>7, <1>8

\* The poll releases what it had read: the payment has failed, for ever.
LEMMA FreeStep ==
  ASSUME MeltTyped, ApartIInv, RequestsApart, NEW g \in Askers, Asked(g),
         NEW n \in Melts, Requested(n), NEW q, q = meltFor[n], NEW P, P = meltIns[n], askFor[g] = q,
         AskFrees(g)
  PROVE  OwnStep(n) /\ Request(n)'
<1>1. /\ Request(n) /\ q \in MeltQuotes /\ Sound(q, P) /\ PollKnows(g) /\ RowsHaveOwners
      /\ AsksOf(meltPc[n], q, P, meltOuts[n]) /\ Internal[q] = NoQuote
      /\ askPc[g] = "freeing" /\ askPc'[g] = "freed" /\ askIns[g] \in {{}, P}
      /\ askIns[g] \in SUBSET Tokens /\ pay[q] = "failed"
  BY AskCarries DEF AskFrees, AskGoto, PollKnows, Undoing
<1>2. /\ UNCHANGED <<meltLocals, askFor, pay, payFee, meltState, askIns, askOuts>>
      /\ UnsetProofsPending(askIns[g])
      /\ \A h \in Askers \ {g} : /\ askPc'[h] = askPc[h] /\ askIns'[h] = askIns[h]
                                 /\ askOuts'[h] = askOuts[h]
  BY AskFrame DEF AskStep, AskFrees
<1>3. /\ \A p \in MeltQuotes : /\ SpentFor(p)' = SpentFor(p) /\ ChangeFor(p)' = ChangeFor(p)
                               /\ PendingFor(p)' = PendingFor(p) \ askIns[g]
      /\ used' = used /\ promiseFor' = promiseFor
  BY <1>1, <1>2, Carried, RowsOfRelease
<1>4. \A p \in MeltQuotes \ {q} : SameRows(p)
  <2>1. \A p \in MeltQuotes \ {q} : PendingFor(p) \cap P = {}
    BY RowsApart DEF ApartIInv
  <2>2. QED
    BY <1>1, <1>3, <2>1 DEF SameRows
<1>5. OwnStep(n)
  BY <1>1, <1>2, <1>3, <1>4, AskOwnStep DEF Knowing, Undoing
<1>6. /\ SpentFor(q)' = SpentFor(q) /\ PendingFor(q)' \in {{}, P} /\ ChangeFor(q)' = ChangeFor(q)
      /\ UNCHANGED <<meltPc, meltFor, meltIns, meltOuts>>
  BY <1>1, <1>2, <1>3 DEF Sound, meltLocals
<1>7. Sound(q, P)' /\ Placed(meltPc[n], q, P)' /\ Covered(meltPc[n], q, P)'
  BY <1>1, <1>2, <1>6 DEF Request, Sound, Placed, Covered, PaidInside
<1>8. \A h \in Askers : DueAsk(h, q)' => DueAsk(h, q)
  BY <1>1, <1>2 DEF DueAsk
<1>9. AsksOf(meltPc[n], q, P, meltOuts[n])'
  <2>1. ASSUME NEW h \in Askers, Asked(h)', askFor'[h] = q
        PROVE  /\ askPc'[h] \notin {"asking", "settled", "failed", "unpaid"}
                    => askIns'[h] \in {{}, P}
               /\ askPc'[h] = "change" => askOuts'[h] \subseteq meltOuts[n] /\ askIns'[h] # {}
    <3>1. CASE h = g
      BY <1>1, <1>2, <3>1
    <3>2. CASE h # g
      BY <1>1, <1>2, <2>1, <3>2 DEF Asked, AsksOf
    <3>3. QED
      BY <3>1, <3>2
  <2>2. ASSUME NEW h \in Askers, DueAsk(h, q)'
        PROVE  /\ SpentFor(q)' = P /\ ~DueMelt(meltPc[n])'
               /\ \A k \in Askers : DueAsk(k, q)' => k = h
    <3>1. DueAsk(h, q) /\ Asked(h) /\ askFor[h] = q
      BY <1>8, <2>2 DEF DueAsk, Asked
    <3>2. QED
      BY <1>1, <1>6, <1>8, <3>1 DEF AsksOf, DueMelt
  <2>3. QED
    BY <1>6, <2>1, <2>2 DEF AsksOf
<1>10. ChangeOf(meltPc[n], q, P)'
  BY <1>1, <1>2, <1>6, <1>8 DEF Request, ChangeOf, ChangeLeavesFee, RoundedDown, DueMelt
<1>11. QED
  BY <1>5, <1>6, <1>7, <1>9, <1>10 DEF Request

\* The poll signs the change.
LEMMA AskSignStep ==
  ASSUME MeltTyped, ApartIInv, RequestsApart, NEW g \in Askers, Asked(g),
         NEW n \in Melts, Requested(n), NEW q, q = meltFor[n], NEW P, P = meltIns[n], askFor[g] = q,
         AskSignsChange(g)
  PROVE  OwnStep(n) /\ Request(n)'
<1>1. /\ Request(n) /\ q \in MeltQuotes /\ Sound(q, P) /\ PollKnows(g) /\ RowsHaveOwners
      /\ AsksOf(meltPc[n], q, P, meltOuts[n]) /\ Internal[q] = NoQuote
      /\ askPc[g] = "change" /\ askPc'[g] = "signed" /\ pay[q] = "settled"
      /\ askIns[g] = P /\ askOuts[g] \subseteq meltOuts[n] /\ askOuts[g] \in SUBSET Tokens
  <2>1. askIns[g] \in {{}, P} /\ askPc[g] = "change" /\ askPc \in [Askers -> AskPcs]
    BY AskCarries DEF AskSignsChange
  <2>2. askOuts[g] \subseteq meltOuts[n] /\ askIns[g] # {}
    BY <2>1, AskCarries DEF AsksOf
  <2>3. QED
    BY <2>1, <2>2, AskCarries, Carried DEF AskSignsChange, AskGoto, PollKnows, Knowing
<1>2. /\ UNCHANGED <<meltLocals, askFor, pay, payFee, meltState, askIns, askOuts>>
      /\ \A h \in Askers \ {g} : /\ askPc'[h] = askPc[h] /\ askIns'[h] = askIns[h]
                                 /\ askOuts'[h] = askOuts[h]
  BY AskFrame DEF AskStep, AskSignsChange
<1>3. PICK C \in Changes(askOuts[g], Overpaid(q, P, RoundedDown(payFee[q]))) : SignOutputs(C)
  BY <1>1 DEF AskSignsChange, AskOverpaid
<1>4. C \in SUBSET meltOuts[n] /\ C \in SUBSET Tokens
  BY <1>1, <1>3 DEF Changes
<1>5. /\ \A p \in MeltQuotes : /\ SpentFor(p)' = SpentFor(p) /\ PendingFor(p)' = PendingFor(p)
                               /\ ChangeFor(p)' = ChangeFor(p) \cup {t \in C : promiseFor[t] = p}
      /\ used' = used /\ promiseFor' = promiseFor
  BY <1>3, <1>4, Carried, RowsOfSign
<1>6. \A p \in MeltQuotes \ {q} : SameRows(p)
  <2>1. \A p \in MeltQuotes \ {q} : \A t \in Tokens \cap meltOuts[n] : promiseFor[t] # p
    BY RowsApart DEF ApartIInv
  <2>2. QED
    BY <1>4, <1>5, <2>1 DEF SameRows
<1>7. OwnStep(n)
  BY <1>1, <1>2, <1>5, <1>6, AskOwnStep DEF Knowing, Undoing
<1>8. DueAsk(g, q) /\ P # {}
  BY <1>1 DEF DueAsk, Sound
<1>9. ChangeFor(q) = {} /\ SpentFor(q) = P /\ ~DueMelt(meltPc[n])
      /\ \A h \in Askers : DueAsk(h, q) => h = g
  BY <1>1, <1>8 DEF Request, ChangeOf, AsksOf, Asked
<1>10. UNCHANGED <<meltPc, meltFor, meltIns, meltOuts>>
  BY <1>2 DEF meltLocals
<1>11. Sound(q, P)' /\ Placed(meltPc[n], q, P)' /\ Covered(meltPc[n], q, P)'
  BY <1>1, <1>2, <1>5, <1>10 DEF Request, Sound, Placed, Covered, PaidInside, Locked
<1>12. \A h \in Askers : ~DueAsk(h, q)'
  BY <1>1, <1>2, <1>9 DEF DueAsk
<1>13. ChangeLeavesFee(q, RoundedDown(payFee[q]))'
  BY <1>1, <1>2, <1>3, <1>9, ChangeIsWithin DEF Sound
<1>14. AsksOf(meltPc[n], q, P, meltOuts[n])'
  <2>1. ASSUME NEW h \in Askers, Asked(h)', askFor'[h] = q
        PROVE  /\ askPc'[h] \notin {"asking", "settled", "failed", "unpaid"}
                    => askIns'[h] \in {{}, P}
               /\ askPc'[h] = "change" => askOuts'[h] \subseteq meltOuts[n] /\ askIns'[h] # {}
    <3>1. CASE h = g
      BY <1>1, <1>2, <3>1
    <3>2. CASE h # g
      BY <1>1, <1>2, <2>1, <3>2 DEF Asked, AsksOf
    <3>3. QED
      BY <3>1, <3>2
  <2>2. QED
    BY <1>10, <1>12, <2>1 DEF AsksOf
<1>15. ChangeOf(meltPc[n], q, P)'
  BY <1>1, <1>5, <1>9, <1>10, <1>12, <1>13 DEF ChangeOf, DueMelt
<1>16. QED
  BY <1>7, <1>10, <1>11, <1>14, <1>15 DEF Request

-----------------------------------------------------------------------------
(* New requests and polls, payments and crashes *)

\* A step that leaves requests, rows and payments alone, and starts no poll.
LEMMA ApartUndisturbed ==
  ASSUME MeltTyped, ApartIInv,
         UNCHANGED <<pending, pendingFor, used, usedFor, signed, promiseFor, meltState, pay, payFee,
                     meltFor, meltIns, meltOuts>>,
         \A m \in Melts : /\ meltPc'[m] \in {meltPc[m], "dead"}
                          /\ Requested(m)' <=> Requested(m),
         \A q \in MeltQuotes : SameAsks(q),
         \A g \in Askers : Asked(g)' => Asked(g) /\ askFor'[g] = askFor[g]
  PROVE  ApartIInv'
<1> USE DEF ApartIInv
<1>1. \A q : SameRows(q)
  BY RowsUnchanged
<1>2. ASSUME NEW m \in Melts, Requested(m)' PROVE Request(m)'
  <2>1. Request(m) /\ meltFor[m] \in MeltQuotes
    BY <1>2 DEF Request, Sound
  <2>2. QED
    BY <1>1, <2>1, RequestKept
<1>3. \A m \in Melts, q \in MeltQuotes : Owns(m, q) => Owns(m, q)'
  BY DEF Owns
<1>4. RowsHaveOwners'
  <2>1. \A q \in MeltQuotes : PendingFor(q)' = PendingFor(q) /\ SpentFor(q)' = SpentFor(q)
    BY <1>1 DEF SameRows
  <2>2. QED
    BY <1>3, <2>1 DEF RowsHaveOwners
<1>5. ASSUME NEW g \in Askers, Asked(g)' PROVE PollKnows(g)'
  <2>1. Asked(g) /\ askFor'[g] = askFor[g] /\ PollKnows(g) /\ askFor[g] \in MeltQuotes
    BY <1>5 DEF PollsKnow, PollKnows
  <2>2. askPc'[g] = askPc[g]
    BY <1>5, <2>1 DEF SameAsks
  <2>3. \A m \in Melts : Owns(m, askFor[g]) => Owns(m, askFor[g])'
    BY <2>1 DEF Owns
  <2>4. QED
    BY <2>1, <2>2, <2>3 DEF PollKnows
<1>6. QED
  BY <1>2, <1>4, <1>5 DEF PollsKnow

\* The payment of a request comes to an end at the node.
LEMMA PaymentEnds ==
  ASSUME MeltTyped, ApartIInv, RequestsApart, NEW q \in MeltQuotes,
         PaymentSettles(q) \/ PaymentFails(q)
  PROVE  ApartIInv'
<1>1. /\ pay[q] = "inflight" /\ pay'[q] \in {"settled", "failed"}
      /\ \A p \in MeltQuotes \ {q} : pay'[p] = pay[p] /\ payFee'[p] = payFee[p]
      /\ UNCHANGED <<storeVars, meltState, meltLocals, askLocals>>
  BY Carried DEF PaymentSettles, PaymentFails, MeltTyped, MeltTypeOK
<1>2. PICK n \in Melts : Owns(n, q)
  BY <1>1 DEF ApartIInv, RowsHaveOwners
<1>3. /\ Requested(n) /\ q = meltFor[n] /\ Request(n)
      /\ UNCHANGED <<meltPc, meltFor, meltIns, meltOuts>>
  BY <1>1, <1>2 DEF Owns, ApartIInv, meltLocals
<1>4. payFee'[q] <= FeeReserve[q] * FeeUnit
  <2>1. FeeReserve[q] * FeeUnit \in Int /\ payFee \in [MeltQuotes -> Nat]
    BY FeeUnitAssumption, MeltQuotesAssumption DEF MeltTyped, MeltTypeOK
  <2>2. QED
    BY <2>1 DEF PaymentSettles, PaymentFails, ApartIInv, RowsHaveOwners
<1>5. \A p : SameRows(p) /\ used' = used /\ promiseFor' = promiseFor
  BY <1>1, RowsUnchanged DEF storeVars, promises, spends, pendings
<1>6. OwnStep(n)
  <2>1. \A p \in MeltQuotes \ {q} : SameAsks(p)
    BY <1>1 DEF SameAsks, Asked, askLocals
  <2>2. \A t \in Tokens : promiseFor'[t] = q => t \in meltOuts[n]
    BY <1>3, <1>5 DEF ApartIInv, RowsHaveOwners, RequestsApart, Owns
  <2>3. ASSUME NEW g \in Askers, Asked(g)'
        PROVE  askFor'[g] \in MeltQuotes /\ (askFor'[g] = q => PollKnows(g)')
    <3>1. Asked(g) /\ PollKnows(g) /\ UNCHANGED <<askFor, askPc>>
      BY <1>1, <2>3 DEF ApartIInv, PollsKnow, Asked, askLocals
    <3>2. Owns(n, q)'
      BY <1>3 DEF Owns, Requested
    <3>3. QED
      BY <1>1, <3>1, <3>2 DEF PollKnows
  <2>4. \A p \in MeltQuotes : payFee'[p] <= FeeReserve[p] * FeeUnit
    BY <1>1, <1>4 DEF ApartIInv, RowsHaveOwners
  <2>5. QED
    BY <1>1, <1>3, <1>5, <2>1, <2>2, <2>3, <2>4 DEF OwnStep, Requested
<1>7. Request(n)'
  <2> DEFINE P == meltIns[n]
  <2>1. /\ Sound(q, P) /\ Placed(meltPc[n], q, P) /\ Locked(q, P) /\ Internal[q] = NoQuote
        /\ AsksOf(meltPc[n], q, P, meltOuts[n])
    BY <1>1, <1>3 DEF Request, Placed, Covered
  <2>2. /\ SpentFor(q)' = SpentFor(q) /\ PendingFor(q)' = PendingFor(q)
        /\ ChangeFor(q)' = ChangeFor(q) /\ P' = P
    BY <1>3, <1>5 DEF SameRows
  <2>3. ChangeFor(q) = {}
    <3>1. P \cap used = {}
      BY <2>1 DEF Locked
    <3>2. QED
      BY <1>3, <3>1, FirstToSpend
  <2>4. Sound(q, P)'
    BY <1>3, <2>1, <2>2 DEF Sound
  <2>5. Placed(meltPc[n], q, P)'
    BY <1>1, <1>3, <2>1, <2>2 DEF Placed, PaidInside
  <2>6. Covered(meltPc[n], q, P)'
    BY <1>1, <1>3, <1>5, <2>1, <2>2 DEF Covered, PaidInside, Locked
  <2>7. \A g \in Askers : (Asked(g)' <=> Asked(g)) /\ (DueAsk(g, q)' <=> DueAsk(g, q))
    BY <1>1 DEF Asked, DueAsk, askLocals
  <2>8. AsksOf(meltPc[n], q, P, meltOuts[n])'
    BY <1>1, <1>3, <2>1, <2>2, <2>7 DEF AsksOf, askLocals
  <2>9. ChangeOf(meltPc[n], q, P)'
    BY <2>2, <2>3 DEF ChangeOf
  <2>10. QED
    BY <1>3, <2>4, <2>5, <2>6, <2>8, <2>9 DEF Request
<1>8. QED
  BY <1>3, <1>6, <1>7, OthersKept

\* A poll starts on a quote that is pending, and so has a request.
LEMMA ReadStep ==
  ASSUME MeltTyped, ApartIInv, NEW g \in Askers, NEW q \in MeltQuotes, AskReads(g, q)
  PROVE  ApartIInv'
<1>1. /\ UNCHANGED <<storeVars, meltState, pay, payFee, meltLocals, askIns, askOuts>>
      /\ meltState[q] = "pending" /\ Internal[q] = NoQuote
      /\ askPc[g] = "idle" /\ askPc'[g] = "asking" /\ askFor'[g] = q
      /\ \A h \in Askers \ {g} : askPc'[h] = askPc[h] /\ askFor'[h] = askFor[h]
  BY DEF AskReads, AskGoto, MeltTyped, MeltTypeOK, meltQuoteVars
<1>2. \E n \in Melts : Owns(n, q)
  BY <1>1 DEF ApartIInv, RowsHaveOwners
<1>3. \A p : SameRows(p) /\ used' = used /\ promiseFor' = promiseFor
  BY <1>1, RowsUnchanged DEF storeVars, promises, spends, pendings
<1>4. \A m \in Melts : /\ Requested(m)' <=> Requested(m)
                       /\ \A p : Owns(m, p)' <=> Owns(m, p)
  BY <1>1 DEF Requested, Owns, meltLocals
<1>5. RowsHaveOwners'
  <2>1. \A p \in MeltQuotes : PendingFor(p)' = PendingFor(p) /\ SpentFor(p)' = SpentFor(p)
    BY <1>3 DEF SameRows
  <2>2. UNCHANGED <<meltIns, meltOuts, pay, payFee, meltState, promiseFor>>
    BY <1>1, <1>3 DEF meltLocals
  <2>3. QED
    BY <1>4, <2>1, <2>2 DEF RowsHaveOwners, ApartIInv
<1>6. ASSUME NEW h \in Askers, Asked(h)' PROVE PollKnows(h)'
  <2>1. CASE h = g
    BY <1>1, <1>2, <1>4, <2>1 DEF PollKnows, Knowing, Undoing
  <2>2. CASE h # g
    <3>1. Asked(h) /\ PollKnows(h) /\ askPc'[h] = askPc[h] /\ askFor'[h] = askFor[h]
      BY <1>1, <1>6, <2>2 DEF Asked, ApartIInv, PollsKnow
    <3>2. QED
      BY <1>1, <1>4, <3>1 DEF PollKnows
  <2>3. QED
    BY <2>1, <2>2
<1>7. ASSUME NEW m \in Melts, Requested(m)' PROVE Request(m)'
  <2> DEFINE p == meltFor[m]
             P == meltIns[m]
  <2>1. /\ Request(m) /\ p' = p /\ P' = P /\ meltPc'[m] = meltPc[m] /\ meltOuts'[m] = meltOuts[m]
    BY <1>1, <1>4, <1>7 DEF ApartIInv, meltLocals
  <2>2. \A h \in Askers : /\ DueAsk(h, p)' => DueAsk(h, p)
                          /\ Asked(h)' /\ askFor'[h] = p /\ askPc'[h] # "asking" =>
                               Asked(h) /\ askFor[h] = p /\ askPc'[h] = askPc[h]
    BY <1>1, <2>1 DEF DueAsk, Asked
  <2>3. /\ SpentFor(p)' = SpentFor(p) /\ PendingFor(p)' = PendingFor(p)
        /\ ChangeFor(p)' = ChangeFor(p)
    BY <1>3, <2>1 DEF SameRows
  <2>4. Sound(p, P)' /\ Placed(meltPc[m], p, P)' /\ Covered(meltPc[m], p, P)'
    BY <1>1, <1>3, <2>1, <2>3 DEF Request, Sound, Placed, Covered, PaidInside, Locked
  <2>5. AsksOf(meltPc[m], p, P, meltOuts[m])'
    <3>1. UNCHANGED <<askIns, askOuts>> /\ AsksOf(meltPc[m], p, P, meltOuts[m])
      BY <1>1, <2>1 DEF Request
    <3>2. ASSUME NEW h \in Askers, Asked(h)', askFor'[h] = p
          PROVE  /\ askPc'[h] \notin {"asking", "settled", "failed", "unpaid"}
                      => askIns'[h] \in {{}, P}
                 /\ askPc'[h] = "change" => askOuts'[h] \subseteq meltOuts[m] /\ askIns'[h] # {}
      BY <2>2, <3>1, <3>2 DEF AsksOf
    <3>3. ASSUME NEW h \in Askers, DueAsk(h, p)'
          PROVE  /\ SpentFor(p)' = P /\ ~DueMelt(meltPc[m])'
                 /\ \A k \in Askers : DueAsk(k, p)' => k = h
      <4>1. DueAsk(h, p) /\ Asked(h) /\ askFor[h] = p
        BY <2>2, <3>3 DEF DueAsk, Asked
      <4>2. QED
        BY <2>1, <2>2, <2>3, <3>1, <4>1 DEF AsksOf, DueMelt
    <3>4. QED
      BY <2>1, <3>2, <3>3 DEF AsksOf
  <2>6. ChangeOf(meltPc[m], p, P)'
    BY <1>1, <2>1, <2>2, <2>3 DEF Request, ChangeOf, ChangeLeavesFee, RoundedDown, DueMelt
  <2>7. QED
    BY <2>1, <2>4, <2>5, <2>6 DEF Request
<1>8. QED
  BY <1>5, <1>6, <1>7 DEF ApartIInv, PollsKnow

\* A new request, whose quote has no other: there are no rows of it either.
LEMMA VerifyStep ==
  ASSUME MeltTyped, ApartIInv, RequestsApart', NEW m \in Melts, NEW q \in MeltQuotes,
         NEW P \in SUBSET signed, NEW O \in SUBSET (Tokens \ signed), MeltVerify(m, q, P, O)
  PROVE  ApartIInv'
<1>1. /\ UNCHANGED <<storeVars, meltState, pay, payFee, askFor, askIns, askOuts>>
      /\ meltPc[m] = "idle" /\ meltPc'[m] = "verified" /\ meltFor'[m] = q /\ meltIns'[m] = P
      /\ meltOuts'[m] = O
      /\ \A g \in Askers : askPc'[g] \in {askPc[g], "idle"}
      /\ P # {} /\ Value(P) >= MeltAmount[q] + FeeReserve[q] + Fee(P)
      /\ \A n \in Melts \ {m} : /\ meltPc'[n] = meltPc[n] /\ meltFor'[n] = meltFor[n]
                                /\ meltIns'[n] = meltIns[n] /\ meltOuts'[n] = meltOuts[n]
  BY DEF MeltVerify, MeltGoto, AskGoto, MeltTyped, MeltTypeOK, meltQuoteVars, ProofsVerify
<1>2. P \in SUBSET Tokens
  BY Carried DEF StoreTypeOK
<1>3. \A n \in Melts \ {m} : /\ Requested(n)' <=> Requested(n)
                             /\ \A p : Owns(n, p)' <=> Owns(n, p)
  BY <1>1 DEF Requested, Owns
<1>4. ~Requested(m) /\ Requested(m)' /\ Owns(m, q)' /\ \A p : ~Owns(m, p)
  BY <1>1 DEF Requested, Owns
<1>5. \A n \in Melts : ~Owns(n, q)
  BY <1>1, <1>3, <1>4 DEF RequestsApart, Owns
<1>6. \A p : SameRows(p) /\ used' = used /\ promiseFor' = promiseFor
  BY <1>1, RowsUnchanged DEF storeVars, promises, spends, pendings
<1>7. /\ PendingFor(q) = {} /\ SpentFor(q) = {} /\ ChangeFor(q) = {} /\ pay[q] = "none"
      /\ meltState[q] = "unpaid"
      /\ \A g \in Askers : Asked(g) => askFor[g] # q
  <2>1. PendingFor(q) = {} /\ SpentFor(q) = {} /\ pay[q] = "none" /\ meltState[q] = "unpaid"
        /\ \A t \in Tokens : promiseFor[t] # q
    BY <1>5 DEF ApartIInv, RowsHaveOwners
  <2>2. ChangeFor(q) = {}
    BY <2>1, Carried DEF ChangeFor, StoreTypeOK
  <2>3. QED
    BY <1>5, <2>1, <2>2 DEF ApartIInv, PollsKnow, PollKnows
<1>8. Request(m)'
  <2>1. PendingFor(q)' = {} /\ SpentFor(q)' = {} /\ ChangeFor(q)' = {} /\ pay'[q] = "none"
        /\ ~PaidInside(q)'
    BY <1>1, <1>6, <1>7 DEF SameRows, PaidInside
  <2>2. Sound(q, P)'
    BY <1>1, <1>2, <2>1 DEF Sound
  <2>3. Placed("verified", q, P)' /\ Covered("verified", q, P)'
    BY <2>1 DEF Placed, Covered
  <2>4. \A g \in Askers : ~(Asked(g)' /\ askFor'[g] = q) /\ ~DueAsk(g, q)'
    BY <1>1, <1>7 DEF Asked, DueAsk
  <2>5. AsksOf("verified", q, P, O)' /\ ChangeOf("verified", q, P)'
    BY <2>1, <2>4 DEF AsksOf, ChangeOf
  <2>6. QED
    BY <1>1, <2>2, <2>3, <2>5 DEF Request
<1>9. ASSUME NEW n \in Melts, Requested(n)' PROVE Request(n)'
  <2>1. CASE n # m
    <3>1. Request(n) /\ \A p : SameAsks(p)
      BY <1>1, <1>3, <1>9, <2>1 DEF ApartIInv, SameAsks, Asked
    <3>2. QED
      BY <1>1, <1>6, <2>1, <3>1, RequestKept
  <2>2. QED
    BY <1>8, <2>1
<1>10. RowsHaveOwners'
  <2>1. \A p \in MeltQuotes : PendingFor(p)' = PendingFor(p) /\ SpentFor(p)' = SpentFor(p)
    BY <1>6 DEF SameRows
  <2>2. \A p \in MeltQuotes, n \in Melts : Owns(n, p) =>
          Owns(n, p)' /\ meltIns'[n] = meltIns[n] /\ meltOuts'[n] = meltOuts[n]
    BY <1>1, <1>3, <1>4
  <2>3. UNCHANGED <<pay, payFee, meltState, promiseFor>>
    BY <1>1, <1>6
  <2>4. QED
    BY <2>1, <2>2, <2>3 DEF RowsHaveOwners, ApartIInv
<1>11. ASSUME NEW g \in Askers, Asked(g)' PROVE PollKnows(g)'
  <2>1. Asked(g) /\ PollKnows(g) /\ UNCHANGED <<askFor, pay>> /\ askPc'[g] = askPc[g]
    BY <1>1, <1>11 DEF Asked, ApartIInv, PollsKnow
  <2>2. \A n \in Melts : Owns(n, askFor[g]) => Owns(n, askFor[g])'
    BY <1>1, <2>1 DEF Owns, Requested
  <2>3. QED
    BY <2>1, <2>2 DEF PollKnows
<1>12. QED
  BY <1>9, <1>10, <1>11 DEF ApartIInv, PollsKnow

-----------------------------------------------------------------------------
(* Every step, and what the invariant says *)

LEMMA MeltInitApart == MeltInit => ApartIInv
<1> SUFFICES ASSUME MeltInit PROVE ApartIInv
  OBVIOUS
<1>1. \A q \in MeltQuotes : /\ PendingFor(q) = {} /\ SpentFor(q) = {} /\ pay[q] = "none"
                            /\ payFee[q] = 0 /\ meltState[q] = "unpaid"
                            /\ \A t \in Tokens : promiseFor[t] # q
  BY TokensAssumption DEF MeltInit, MintInit, StoreInit, PendingFor, SpentFor
<1>2. \A q \in MeltQuotes : 0 <= FeeReserve[q] * FeeUnit
  BY FeeUnitAssumption, MeltQuotesAssumption
<1>3. QED
  BY <1>1, <1>2 DEF MeltInit, ApartIInv, PollsKnow, RowsHaveOwners, Asked, Requested

LEMMA MeltStepApart ==
  ASSUME MeltTyped, ApartIInv, RequestsApart, UnknownInFlight = FALSE,
         NEW n \in Melts, MeltStep(n)
  PROVE  ApartIInv'
<1>1. Requested(n)
  BY DEF MeltStep, MeltHold, MeltLock, MeltStore, MeltRaises, MeltSettleReads, MeltSettleWrites,
         MeltPay, MeltReply, MeltCheckAgrees, MeltCheckDiffers, MeltReleaseProofs, MeltUnlock,
         MeltForgetOutputs, MeltInvalidate, MeltFree, MeltSignChange, MeltDropBlanks,
         MeltFinish, Requested
<1>2. OwnStep(n) /\ Request(n)'
  BY <1>1, QuietStep, HoldStep, ReleaseStep, InvalidateStep, SignStep DEF MeltStep
<1>3. QED
  BY <1>1, <1>2, OthersKept

LEMMA AskStepApart ==
  ASSUME MeltTyped, ApartIInv, RequestsApart, NEW g \in Askers,
         AskStep(g) \/ AskAnswered(g) \/ AskLearnsNothing(g)
  PROVE  ApartIInv'
<1>1. Asked(g)
  BY DEF AskStep, AskReadsProofs, AskCommits, AskReadsOutputs, AskSignsChange, AskDropsBlanks,
         AskWritesQuote, AskFrees, AskForgetsOutputs, AskRaises, AskAnswered,
         AskLearnsNothing, Asked
<1>2. PICK n \in Melts : Requested(n) /\ askFor[g] = meltFor[n]
  BY <1>1, AskedFor
<1>3. OwnStep(n) /\ Request(n)'
  BY <1>1, <1>2, QuietAsk, CommitStep, FreeStep, AskSignStep DEF AskStep
<1>4. QED
  BY <1>2, <1>3, OthersKept

LEMMA MeltNextApart ==
  ASSUME UnknownInFlight = FALSE, MeltTyped, ApartIInv, RequestsApart, RequestsApart',
         [MeltNext]_meltVars
  PROVE  ApartIInv'
<1>1. CASE \E n \in Melts : MeltStep(n)
  BY <1>1, MeltStepApart
<1>2. CASE \E n \in Melts, q \in MeltQuotes, P \in SUBSET signed,
              O \in SUBSET (Tokens \ signed) : MeltVerify(n, q, P, O)
  BY <1>2, VerifyStep
<1>3. CASE \E g \in Askers : AskStep(g) \/ AskAnswered(g) \/ AskLearnsNothing(g)
  BY <1>3, AskStepApart
<1>4. CASE \E g \in Askers, q \in MeltQuotes : AskReads(g, q)
  BY <1>4, ReadStep
<1>5. CASE \E q \in MeltQuotes : PaymentSettles(q) \/ PaymentFails(q)
  BY <1>5, PaymentEnds
<1>6. CASE (\E q \in MintQuotes : InvoiceWorld(q)) \/ MeltRotate \/ UNCHANGED meltVars
  <2>1. UNCHANGED <<pending, pendingFor, used, usedFor, signed, promiseFor, meltState, pay, payFee,
                    meltFor, meltIns, meltOuts, meltPc, askPc, askFor, askIns, askOuts>>
    BY <1>6 DEF InvoiceWorld, InvoicePaid, ListenerMarksPaid, MeltRotate, DeactivateKeyset,
       meltVars,
       storeVars, promises, spends, pendings, meltOwnVars, meltQuoteVars, meltLocals, askLocals
  <2>2. QED
    BY <2>1, ApartUndisturbed DEF SameAsks, Asked, Requested
<1>7. CASE MeltCrash
  <2>1. UNCHANGED <<pending, pendingFor, used, usedFor, signed, promiseFor, meltState, pay, payFee,
                    meltFor, meltIns, meltOuts>>
    BY <1>7 DEF MeltCrash, storeVars, promises, spends, pendings
  <2>2. \A m \in Melts : /\ meltPc'[m] \in {meltPc[m], "dead"}
                         /\ Requested(m)' <=> Requested(m)
    BY <1>7 DEF MeltCrash, MeltRunning, Requested
  <2>3. \A g \in Askers : ~Asked(g)'
    BY <1>7 DEF MeltCrash, Asked
  <2>4. QED
    BY <2>1, <2>2, <2>3, ApartUndisturbed DEF SameAsks
<1>8. QED
  BY <1>1, <1>2, <1>3, <1>4, <1>5, <1>6, <1>7 DEF MeltNext, MeltAsks, Askers

\* The notes of a quote that has been paid for, and what its change may be.
LEMMA RowsOfPaid ==
  ASSUME MeltTyped, ApartIInv, NEW q \in MeltQuotes,
         pay[q] \in {"inflight", "settled"} \/ PaidInside(q)
  PROVE  \E P \in SUBSET Tokens :
           /\ (PendingFor(q) \ used) \cup SpentFor(q) = P
           /\ Value(P) >= MeltAmount[q] + FeeReserve[q] + Fee(P)
           /\ ChangeFor(q) # {} => SpentFor(q) = P /\ ChangeLeavesFee(q, RoundedDown(payFee[q]))
           /\ pay[q] = "inflight" => ChangeFor(q) = {}
<1>1. PICK n \in Melts : Requested(n) /\ meltFor[n] = q /\ Request(n)
  BY DEF ApartIInv, RowsHaveOwners, Owns, PaidInside
<1> DEFINE P == meltIns[n]
<1>2. Sound(q, P) /\ ChangeOf(meltPc[n], q, P) /\ SpentFor(q) \subseteq used
  BY <1>1 DEF Request, SpentFor
<1>3. Locked(q, P) \/ (SpentFor(q) = P /\ pay[q] # "inflight")
  BY <1>1 DEF Request, Covered, Placed, PaidInside
<1>4. (PendingFor(q) \ used) \cup SpentFor(q) = P
  <2>1. CASE Locked(q, P)
    BY <1>2, <2>1 DEF Locked, Sound
  <2>2. CASE SpentFor(q) = P
    BY <1>2, <2>2 DEF Sound
  <2>3. QED
    BY <1>3, <2>1, <2>2
<1>5. Locked(q, P) => ChangeFor(q) = {}
  BY <1>1, FirstToSpend DEF Locked
<1>6. QED
  BY <1>2, <1>3, <1>4, <1>5 DEF Sound, ChangeOf

LEMMA PaymentsCovered ==
  ASSUME MeltTyped, ApartIInv
  PROVE  PaymentsAreCovered
<1> SUFFICES ASSUME NEW q \in MeltQuotes, Outflow(q) > 0
             PROVE  LET P == (PendingFor(q) \ used) \cup SpentFor(q)
                    IN Value(P) >= Outflow(q) + Fee(P) + Value(ChangeFor(q))
  BY DEF PaymentsAreCovered
<1>1. pay[q] \in {"inflight", "settled"} \/ PaidInside(q)
  BY DEF Outflow, PaidInside
<1>2. PICK P \in SUBSET Tokens :
           /\ (PendingFor(q) \ used) \cup SpentFor(q) = P
           /\ Value(P) >= MeltAmount[q] + FeeReserve[q] + Fee(P)
           /\ ChangeFor(q) # {} => SpentFor(q) = P /\ ChangeLeavesFee(q, RoundedDown(payFee[q]))
           /\ pay[q] = "inflight" => ChangeFor(q) = {}
  BY <1>1, RowsOfPaid
<1>3. /\ RoundedDown(payFee[q]) \in Nat /\ RoundedDown(payFee[q]) <= FeeReserve[q]
      /\ MeltAmount[q] \in Nat /\ FeeReserve[q] \in Nat
      /\ Value(P) \in Nat /\ Fee(P) \in Nat
  BY FeeIsReserved, ValueAssumption, FeeType DEF ApartIInv
<1>4. ChangeFor(q) \in SUBSET Tokens /\ Value(ChangeFor(q)) \in Nat
  BY ValueAssumption, Carried DEF ChangeFor, MeltTyped, MeltTypeOK, MintTypeOK, StoreTypeOK
<1>5. Outflow(q) \in Nat /\ Outflow(q) <= MeltAmount[q] + FeeReserve[q]
      /\ (pay[q] # "inflight" => Outflow(q) <= MeltAmount[q] + RoundedDown(payFee[q]))
  BY <1>3 DEF Outflow
<1>6. Value(P) >= Outflow(q) + Fee(P) + Value(ChangeFor(q))
  <2>1. CASE ChangeFor(q) = {}
    BY <1>2, <1>3, <1>5, <2>1, ValueAssumption
  <2>2. CASE ChangeFor(q) # {}
    <3>1. Value(ChangeFor(q)) + MeltAmount[q] + RoundedDown(payFee[q]) + Fee(P) <= Value(P)
      BY <1>2, <2>2 DEF ChangeLeavesFee
    <3>2. QED
      BY <1>2, <1>3, <1>4, <1>5, <2>2, <3>1
  <2>3. QED
    BY <2>1, <2>2
<1>7. QED
  BY <1>2, <1>6

LEMMA ChangeCovered ==
  ASSUME MeltTyped, ApartIInv
  PROVE  ChangeIsCovered
<1> SUFFICES ASSUME NEW q \in MeltQuotes, ChangeFor(q) # {}
             PROVE  ChangeLeavesFee(q, RoundedDown(payFee[q]))
  BY DEF ChangeIsCovered, ChangeLeavesFee
<1>1. PICK t \in Tokens : promiseFor[t] = q
  BY Carried DEF ChangeFor, MeltTyped, MeltTypeOK, MintTypeOK, StoreTypeOK
<1>2. PICK n \in Melts : Requested(n) /\ meltFor[n] = q /\ Request(n)
  BY <1>1 DEF ApartIInv, RowsHaveOwners, Owns
<1>3. QED
  BY <1>2 DEF Request, ChangeOf

LEMMA HeldStayHeld ==
  ASSUME MeltTyped, ApartIInv
  PROVE  HeldProofsStayHeld
<1> SUFFICES ASSUME NEW m \in Melts, Paying(m)
             PROVE  meltIns[m] \subseteq pending \cup used
  BY DEF HeldProofsStayHeld
<1> DEFINE q == meltFor[m]
           P == meltIns[m]
<1>1. Request(m) /\ q \in MeltQuotes
  BY DEF ApartIInv, Requested, Paying, Request, Sound
<1>2. pay[q] \in {"none", "inflight", "settled", "failed"}
  BY <1>1, Carried
<1>3. Locked(q, P) \/ SpentFor(q) = P
  BY <1>1, <1>2 DEF Paying, Request, Placed, Covered
<1>4. QED
  BY <1>3 DEF Locked, PendingFor, SpentFor

\* Requests that share nothing have never shared anything.
LEMMA ApartBefore ==
  ASSUME MeltTyped, [MeltNext]_meltVars, RequestsApart'
  PROVE  RequestsApart
<1>1. /\ meltPc \in [Melts -> MeltPcs] /\ meltFor \in [Melts -> Quotes]
      /\ meltIns \in [Melts -> SUBSET Tokens] /\ meltOuts \in [Melts -> SUBSET Tokens]
  BY DEF MeltTyped, MeltTypeOK
<1>2. SUFFICES \A m \in Melts : Requested(m) =>
        /\ Requested(m)' /\ meltFor'[m] = meltFor[m]
        /\ meltIns'[m] = meltIns[m] /\ meltOuts'[m] = meltOuts[m]
  BY DEF RequestsApart
<1>3. CASE \E n \in Melts : MeltStep(n)
  <2>1. PICK n \in Melts : MeltStep(n)
    BY <1>3
  <2>2. \E pc \in MeltPcs \ {"idle"} : MeltGoto(n, pc)
    BY <2>1 DEF MeltStep, MeltHold, MeltLock, MeltStore, MeltRaises, MeltSettleReads,
         MeltSettleWrites, MeltPay, MeltReply, MeltCheckAgrees, MeltCheckDiffers,
         MeltReleaseProofs, MeltUnlock, MeltForgetOutputs, MeltInvalidate, MeltFree,
         MeltSignChange, MeltDropBlanks, MeltFinish, MeltPcs
  <2>3. UNCHANGED <<meltFor, meltIns, meltOuts>>
    BY <2>1 DEF MeltStep, MeltHold, MeltLock, MeltStore, MeltRaises, MeltSettleReads,
         MeltSettleWrites, MeltPay, MeltReply, MeltCheckAgrees, MeltCheckDiffers,
         MeltReleaseProofs, MeltUnlock, MeltForgetOutputs, MeltInvalidate, MeltFree,
         MeltSignChange, MeltDropBlanks, MeltFinish, KeepMelt
  <2>4. QED
    BY <1>1, <2>2, <2>3 DEF Requested, MeltGoto
<1>4. CASE \E n \in Melts, q \in MeltQuotes, P \in SUBSET signed,
              O \in SUBSET (Tokens \ signed) : MeltVerify(n, q, P, O)
  BY <1>1, <1>4 DEF MeltVerify, MeltGoto, Requested
<1>5. CASE UNCHANGED meltLocals
  BY <1>5 DEF meltLocals, Requested
<1>6. CASE MeltCrash
  BY <1>1, <1>6 DEF MeltCrash, Requested
<1>7. CASE \E g \in Askers : \/ AskStep(g) \/ AskAnswered(g) \/ AskLearnsNothing(g)
                             \/ \E q \in MeltQuotes : AskReads(g, q)
  BY <1>5, <1>7 DEF AskStep, AskReadsProofs, AskCommits, AskReadsOutputs, AskSignsChange,
       AskDropsBlanks, AskWritesQuote, AskFrees, AskForgetsOutputs, AskRaises, AskAnswered,
       AskLearnsNothing, AskReads, KeepAsk
<1>8. CASE \/ \E q \in MeltQuotes : PaymentSettles(q) \/ PaymentFails(q)
           \/ \E q \in MintQuotes : InvoiceWorld(q)
           \/ MeltRotate \/ UNCHANGED meltVars
  BY <1>5, <1>8 DEF PaymentSettles, PaymentFails, InvoiceWorld, MeltRotate, meltVars, meltOwnVars
<1>9. QED
  BY <1>3, <1>4, <1>6, <1>7, <1>8 DEF MeltNext, MeltAsks, Askers

LEMMA MeltApart ==
  ASSUME UnknownInFlight = FALSE
  PROVE  MeltSpec => [](MeltTyped /\ (RequestsApart => ApartIInv))
<1>1. MeltInit => ApartIInv
  BY MeltInitApart
<1>2. MeltTyped /\ (RequestsApart => ApartIInv) /\ [MeltNext]_meltVars
        => (RequestsApart' => ApartIInv')
  BY MeltNextApart, ApartBefore
<1>3. QED
  BY <1>1, <1>2, MeltTypes, PTL DEF MeltSpec

\* While a payment is in flight or has settled, notes that cover it, its fee
\* and its change are pending or spent, whatever polls and crashes interleave
\* with the requests, as long as each request has a quote, proofs and outputs
\* of its own, and if the backend does not answer UNKNOWN for a payment it has.
THEOREM PaymentsCoveredApart ==
  ASSUME UnknownInFlight = FALSE
  PROVE  MeltSpec => [](RequestsApart => PaymentsAreCovered)
BY MeltApart, PaymentsCovered, PTL

\* Under the same hypotheses the change of a quote, which is signed once, is
\* within what its proofs left over.
THEOREM ChangeCoveredApart ==
  ASSUME UnknownInFlight = FALSE
  PROVE  MeltSpec => [](RequestsApart => ChangeIsCovered)
BY MeltApart, ChangeCovered, PTL

\* The proofs of a request stay held until a poll rolls a quote back, and
\* under the same hypotheses after that, polls by other requests included.
THEOREM HeldAlone ==
  ASSUME UnknownInFlight = FALSE
  PROVE  MeltSpec => []HeldUnlessUndone
<1>1. ("undone" \notin happened => HeldProofsStayHeld) /\ MeltTyped /\ (RequestsApart => ApartIInv)
        => HeldUnlessUndone
  BY HeldStayHeld DEF HeldUnlessUndone
<1>2. QED
  BY <1>1, MeltApart, HeldUntilUndone, PTL
=============================================================================
