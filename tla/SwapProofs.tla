----------------------------- MODULE SwapProofs -----------------------------
(***************************************************************************)
(* Proofs about Swap, for every set of tokens, keysets, amounts, fees and   *)
(* requests, and any number of faults.                                      *)
(***************************************************************************)
EXTENDS Swap, StoreProofs, SumProofs

-----------------------------------------------------------------------------
(* The inductive invariant *)

\* What SwapVerify established is still true of a running request, although
\* the tables changed since: its proofs are signed, its sums balance.
RequestsBalanced ==
  \A r \in Swaps : SwapRunning(r) =>
    /\ swapIns[r] \subseteq signed
    /\ Balanced(swapIns[r], swapOuts[r])

SwapIInv ==
  /\ SwapTypeOK
  /\ HoldersExclusive
  /\ RequestsBalanced
  /\ BalanceMatchesTables
  /\ NoInflation
  /\ SpentIsTold

\* The initial tables (StoreInit, no request running) satisfy the invariant.
THEOREM SwapInitInvariant == SwapInit => SwapIInv
<1> SUFFICES ASSUME SwapInit PROVE SwapIInv
  OBVIOUS
<1> USE DEF SwapInit, StoreInit
<1>0. Genesis \in SUBSET Tokens /\ {} \in SUBSET Genesis
  BY TokensAssumption
<1>1. SwapTypeOK
  <2>1. balance \in [Keysets -> Int]
    <3>1. ASSUME NEW k \in Keysets PROVE Value(Of(Genesis, k)) \in Nat
      BY <1>0, OfMinus
    <3>2. QED
      BY <3>1
  <2>2. QED
    BY <2>1, TokensAssumption
    DEF SwapTypeOK, StoreTypeOK, SwapPcs, Quotes
<1>2. HoldersExclusive
  BY DEF HoldersExclusive, Holds
<1>3. RequestsBalanced
  BY DEF RequestsBalanced, SwapRunning
<1>4. BalanceMatchesTables
  <2>1. ASSUME NEW k \in Keysets
        PROVE  balance[k] = Value(Of(Genesis, k)) - Value(Of({}, k)) - Value(Of({}, k))
    <3>1. balance[k] = Value(Of(Genesis, k)) /\ Value(Of(Genesis, k)) \in Nat
      BY <1>0, OfMinus
    <3>2. Value(Of({}, k)) = 0
      BY OfEmpty
    <3>3. QED
      BY <3>1, <3>2
  <2>2. QED
    BY <2>1 DEF BalanceMatchesTables
<1>5. NoInflation
  <2>1. signed \ used = Genesis
    OBVIOUS
  <2>2. Value(Genesis) \in Nat
    BY <1>0, ValueAssumption
  <2>3. QED
    BY <2>1, <2>2 DEF NoInflation
<1>6. SpentIsTold
  BY DEF SpentIsTold
<1>7. QED
  BY <1>1, <1>2, <1>3, <1>4, <1>5, <1>6 DEF SwapIInv

\* Steps that leave the tables alone: only where requests stand changes.
LEMMA TablesUnchanged ==
  ASSUME SwapIInv, UNCHANGED storeVars
  PROVE  StoreTypeOK' /\ BalanceMatchesTables' /\ NoInflation' /\ SpentIsTold'
BY DEF SwapIInv, SwapTypeOK, StoreTypeOK, BalanceMatchesTables, NoInflation,
       SpentIsTold, storeVars, promises, spends, pendings

\* verify_inputs_and_outputs: a new request enters balanced, and writes nothing.
LEMMA VerifyPreserves ==
  ASSUME SwapIInv, NEW r \in Swaps, NEW P \in SUBSET signed,
         NEW O \in SUBSET (Tokens \ signed), SwapVerify(r, P, O)
  PROVE  SwapIInv'
<1> USE DEF SwapVerify, SwapGoto
<1>1. StoreTypeOK' /\ BalanceMatchesTables' /\ NoInflation' /\ SpentIsTold'
  BY TablesUnchanged
<1>2. SwapTypeOK'
  BY <1>1 DEF SwapIInv, SwapTypeOK, StoreTypeOK, SwapPcs
<1>3. pending' = pending /\ signed' = signed
  BY DEF storeVars, promises, pendings
<1>4. HoldersExclusive'
  BY <1>3 DEF SwapIInv, SwapTypeOK, HoldersExclusive, Holds
<1>5. RequestsBalanced'
  BY <1>3 DEF SwapIInv, SwapTypeOK, RequestsBalanced, SwapRunning, Balanced
<1>6. QED
  BY <1>1, <1>2, <1>4, <1>5 DEF SwapIInv

\* _verify_spent_proofs_and_set_pending: the proofs it takes were nobody's.
LEMMA HoldPreserves ==
  ASSUME SwapIInv, NEW r \in Swaps, SwapHold(r)
  PROVE  SwapIInv'
<1> DEFINE P == swapIns[r]
<1> USE DEF SwapHold, SetProofsPending, SwapGoto, KeepRequest, ProofsFree,
            promises, spends
<1>1. P \in SUBSET signed /\ signed \in SUBSET Tokens /\ pending \in SUBSET Tokens
  BY DEF SwapIInv, SwapTypeOK, StoreTypeOK, RequestsBalanced, SwapRunning
<1>b. /\ balance' \in [Keysets -> Int]
      /\ \A k \in Keysets :
           /\ balance'[k] = balance[k] + Value(Of({}, k)) - Value(Of(P, k))
           /\ Value(Of(P, k)) \in Nat
  <2>1. {} \in SUBSET Tokens /\ P \in SUBSET Tokens
    BY <1>1
  <2>2. balance \in [Keysets -> Int] /\ balance' = Bumped({}, P)
    BY DEF SwapIInv, SwapTypeOK, StoreTypeOK
  <2>3. QED
    BY <2>1, <2>2, BumpedBy
<1>2. ASSUME NEW k \in Keysets
      PROVE  balance'[k] = balance[k] - Value(Of(P, k)) /\ Value(Of(P, k)) \in Nat
  <2>1. Value(Of({}, k)) = 0
    BY OfEmpty
  <2>2. balance[k] \in Int
    BY DEF SwapIInv, SwapTypeOK, StoreTypeOK
  <2>3. QED
    BY <1>b, <2>1, <2>2
<1>3. SwapTypeOK'
  <2>1. balance' \in [Keysets -> Int]
    BY <1>b
  <2>2. pendingFor' \in [Tokens -> Quotes]
    BY DEF Column, SwapIInv, SwapTypeOK, StoreTypeOK, Quotes
  <2>3. told' \in [Tokens -> {"unspent", "pending", "spent"}]
    BY DEF Column, SwapIInv, SwapTypeOK, StoreTypeOK
  <2>4. QED
    BY <1>1, <2>1, <2>2, <2>3 DEF SwapIInv, SwapTypeOK, StoreTypeOK, SwapPcs
<1>4. HoldersExclusive'
  BY DEF SwapIInv, SwapTypeOK, HoldersExclusive, Holds
<1>5. RequestsBalanced'
  BY DEF SwapIInv, SwapTypeOK, RequestsBalanced, SwapRunning, Balanced
<1>6. BalanceMatchesTables'
  <2>1. ASSUME NEW k \in Keysets
        PROVE  balance'[k] = Value(Of(signed, k)) - Value(Of(used, k))
                              - Value(Of(pending \cup P, k))
    <3>1. Value(Of(pending \cup P, k)) = Value(Of(pending, k)) + Value(Of(P, k))
          /\ Value(Of(pending, k)) \in Nat
      BY <1>1, OfPlus
    <3>2. Value(Of(signed, k)) \in Nat /\ Value(Of(used, k)) \in Nat
      BY <1>1, OfMinus DEF SwapIInv, SwapTypeOK, StoreTypeOK
    <3>3. balance[k] = Value(Of(signed, k)) - Value(Of(used, k)) - Value(Of(pending, k))
      BY DEF SwapIInv, BalanceMatchesTables
    <3>4. QED
      BY <1>2, <3>1, <3>2, <3>3
  <2>2. QED
    BY <2>1 DEF BalanceMatchesTables
<1>7. NoInflation'
  BY DEF SwapIInv, NoInflation
<1>8. SpentIsTold'
  BY DEF SwapIInv, SpentIsTold, Column, SwapTypeOK, StoreTypeOK
<1>9. QED
  BY <1>3, <1>4, <1>5, <1>6, <1>7, <1>8 DEF SwapIInv

\* The transaction of swap: what it signs is worth what it spends, less the fee.
LEMMA CommitPreserves ==
  ASSUME SwapIInv, NEW r \in Swaps, SwapCommit(r)
  PROVE  SwapIInv'
<1> DEFINE P == swapIns[r]
           O == swapOuts[r]
<1>1. /\ P \in SUBSET signed /\ signed \in SUBSET Tokens /\ O \in SUBSET Tokens
      /\ used \in SUBSET signed /\ stored \in SUBSET Tokens
      /\ pending \in SUBSET signed /\ Balanced(P, O)
  BY DEF SwapCommit, SwapIInv, SwapTypeOK, StoreTypeOK, RequestsBalanced, SwapRunning
<1>t. /\ O \in SUBSET Tokens /\ P \in SUBSET Tokens /\ signed \in SUBSET Tokens
      /\ used \in SUBSET Tokens /\ pending \in SUBSET Tokens
  BY <1>1
<1>2. signed \cap O = {} /\ used \cap P = {} /\ O \cap signed = {} /\ O \cap stored = {} /\ P \cap used = {}
  BY DEF SwapCommit, CanStore, CanInvalidate
<1>3. signed' = signed \cup O /\ used' = used \cup P /\ pending' = pending
  BY DEF SwapCommit, pendings
<1>b. /\ balance \in [Keysets -> Int] /\ balance' \in [Keysets -> Int]
      /\ \A k \in Keysets :
           /\ balance'[k] = balance[k] + Value(Of(O, k)) - Value(Of(P, k))
           /\ Value(Of(O, k)) \in Nat /\ Value(Of(P, k)) \in Nat
  <2>1. balance \in [Keysets -> Int] /\ balance' = Bumped(O, P)
    BY DEF SwapCommit, SwapIInv, SwapTypeOK, StoreTypeOK
  <2>2. O \in SUBSET Tokens /\ P \in SUBSET Tokens
    BY <1>1
  <2>3. QED
    BY <2>1, <2>2, BumpedBy
<1>4. SwapTypeOK'
  <2>1. feesPaid' \in [Keysets -> Nat]
    <3>1. ASSUME NEW k \in Keysets PROVE Fee(Of(P, k)) \in Nat
      <4>1. Of(P, k) \in SUBSET Tokens
        BY <1>1 DEF Of
      <4>2. QED
        BY <4>1, FeeType
    <3>2. feesPaid \in [Keysets -> Nat]
      BY DEF SwapIInv, SwapTypeOK, StoreTypeOK
    <3>3. QED
      BY <3>1, <3>2 DEF SwapCommit, FeesAfter
  <2>2. /\ promiseFor' \in [Tokens -> Quotes] /\ usedFor' \in [Tokens -> Quotes]
        /\ told' \in [Tokens -> {"unspent", "pending", "spent"}]
    BY DEF SwapCommit, Column, SwapIInv, SwapTypeOK, StoreTypeOK, Quotes
  <2>3. stored' = stored /\ active' = active /\ pendingFor' = pendingFor
        /\ faults' = faults /\ swapIns' = swapIns /\ swapOuts' = swapOuts
    BY DEF SwapCommit, pendings, KeepRequest
  <2>4. swapPc' \in [Swaps -> SwapPcs]
    BY DEF SwapCommit, SwapGoto, SwapIInv, SwapTypeOK, SwapPcs
  <2>5. QED
    BY <1>1, <1>2, <1>3, <1>b, <2>1, <2>2, <2>3, <2>4
    DEF SwapIInv, SwapTypeOK, StoreTypeOK
<1>5. HoldersExclusive'
  BY <1>3 DEF SwapCommit, SwapGoto, KeepRequest, SwapIInv, SwapTypeOK,
              HoldersExclusive, Holds
<1>6. RequestsBalanced'
  BY <1>3 DEF SwapCommit, SwapGoto, KeepRequest, SwapIInv, SwapTypeOK,
              RequestsBalanced, SwapRunning, Balanced
<1>7. BalanceMatchesTables'
  <2>1. ASSUME NEW k \in Keysets
        PROVE  balance'[k] = Value(Of(signed \cup O, k)) - Value(Of(used \cup P, k))
                              - Value(Of(pending, k))
    <3>1. /\ Value(Of(signed \cup O, k)) = Value(Of(signed, k)) + Value(Of(O, k))
          /\ Value(Of(signed, k)) \in Nat /\ Value(Of(O, k)) \in Nat
      <4>1. signed \in SUBSET Tokens /\ O \in SUBSET Tokens /\ signed \cap O = {}
        BY <1>t, <1>2
      <4>2. QED
        BY <4>1, OfPlus
    <3>2. /\ Value(Of(used \cup P, k)) = Value(Of(used, k)) + Value(Of(P, k))
          /\ Value(Of(used, k)) \in Nat /\ Value(Of(P, k)) \in Nat
      <4>1. used \in SUBSET Tokens /\ P \in SUBSET Tokens /\ used \cap P = {}
        BY <1>t, <1>2
      <4>2. QED
        BY <4>1, OfPlus
    <3>3. Value(Of(pending, k)) \in Nat
      BY <1>t, OfType
    <3>4. balance[k] = Value(Of(signed, k)) - Value(Of(used, k)) - Value(Of(pending, k))
      BY DEF SwapIInv, BalanceMatchesTables
    <3>5. QED
      BY <1>b, <3>1, <3>2, <3>3, <3>4
  <2>2. QED
    BY <1>3, <2>1 DEF BalanceMatchesTables
<1>8. NoInflation'
  <2> DEFINE live == signed \ used
  <2>1. signed' \ used' = (live \ P) \cup O
    BY <1>1, <1>2, <1>3
  <2>2. Value(live \ P) = Value(live) - Value(P) /\ Value(live) \in Nat
        /\ Value(P) \in Nat /\ Value(live \ P) \in Nat
    BY <1>1, <1>2, ValueMinus
  <2>3. Value((live \ P) \cup O) = Value(live \ P) + Value(O) /\ Value(O) \in Nat
    BY <1>1, <1>2, ValuePlus
  <2>4. Value(O) + Fee(P) = Value(P) /\ Fee(P) \in Nat
    BY <1>1, FeeType DEF Balanced
  <2>5. Value(live) <= Value(Genesis) /\ Value(Genesis) \in Nat
    BY TokensAssumption, ValueAssumption DEF SwapIInv, NoInflation
  <2>6. Value(signed' \ used') <= Value(Genesis)
    <3>1. Value(signed' \ used') = Value(live \ P) + Value(O)
      BY <2>1, <2>3
    <3>2. QED
      BY <3>1, <2>2, <2>3, <2>4, <2>5
  <2>7. QED
    BY <2>6 DEF NoInflation
<1>9. SpentIsTold'
  BY <1>1, <1>3 DEF SwapCommit, SwapIInv, SpentIsTold, Column, SwapTypeOK, StoreTypeOK
<1>10. QED
  BY <1>4, <1>5, <1>6, <1>7, <1>8, <1>9 DEF SwapIInv

\* The finally block: it deletes the rows of this request, which are all there,
\* so that the balance it bumps back is exactly theirs.
LEMMA ReleasePreserves ==
  ASSUME SwapIInv, NEW r \in Swaps, SwapRelease(r)
  PROVE  SwapIInv'
<1> DEFINE P == swapIns[r]
<1>1. /\ P \in SUBSET pending /\ pending \in SUBSET Tokens /\ P \in SUBSET Tokens
      /\ swapPc[r] \in {"committed", "aborted"}
  BY DEF SwapRelease, SwapIInv, SwapTypeOK, StoreTypeOK, HoldersExclusive, Holds
<1>2. /\ pending' = pending \ P /\ pendingFor' = Column(pendingFor, P, NoQuote)
      /\ signed' = signed /\ used' = used /\ told' = told
      /\ stored' = stored /\ active' = active /\ promiseFor' = promiseFor
      /\ usedFor' = usedFor /\ feesPaid' = feesPaid
  BY DEF SwapRelease, UnsetProofsPending, promises, spends
<1>3. /\ swapIns' = swapIns /\ swapOuts' = swapOuts /\ faults' = faults
      /\ swapPc' = [swapPc EXCEPT ![r] = IF swapPc[r] = "committed"
                                          THEN "succeeded" ELSE "failed"]
  BY DEF SwapRelease, SwapGoto, KeepRequest
<1>b. /\ balance \in [Keysets -> Int] /\ balance' \in [Keysets -> Int]
      /\ \A k \in Keysets :
           /\ balance'[k] = balance[k] + Value(Of(P, k)) - Value(Of({}, k))
           /\ Value(Of(P, k)) \in Nat
  <2>1. balance \in [Keysets -> Int] /\ balance' = Bumped(P, {})
    BY DEF SwapRelease, UnsetProofsPending, SwapIInv, SwapTypeOK, StoreTypeOK
  <2>2. P \in SUBSET Tokens /\ {} \in SUBSET Tokens
    BY <1>1
  <2>3. QED
    BY <2>1, <2>2, BumpedBy
<1>4. SwapTypeOK'
  <2>1. pendingFor' \in [Tokens -> Quotes]
    BY <1>2 DEF Column, SwapIInv, SwapTypeOK, StoreTypeOK, Quotes
  <2>2. swapPc' \in [Swaps -> SwapPcs]
    BY <1>3 DEF SwapIInv, SwapTypeOK, SwapPcs
  <2>3. QED
    BY <1>2, <1>3, <1>b, <2>1, <2>2 DEF SwapIInv, SwapTypeOK, StoreTypeOK
<1>5. HoldersExclusive'
  <2>1. ASSUME NEW s \in Swaps, Holds(s)'
        PROVE  s # r /\ Holds(s) /\ swapIns'[s] = swapIns[s]
               /\ swapIns[s] \cap P = {} /\ swapIns[s] \subseteq pending
    <3>1. s # r /\ Holds(s)
      BY <1>1, <1>3, <2>1 DEF Holds, SwapIInv, SwapTypeOK
    <3>2. Holds(r)
      BY <1>1 DEF Holds
    <3>3. QED
      BY <1>3, <3>1, <3>2 DEF SwapIInv, HoldersExclusive
  <2>2. ASSUME NEW s \in Swaps, Holds(s)' PROVE swapIns'[s] \subseteq pending'
    BY <1>2, <2>1, <2>2
  <2>3. ASSUME NEW s \in Swaps, NEW t \in Swaps, s # t, Holds(s)', Holds(t)'
        PROVE  swapIns'[s] \cap swapIns'[t] = {}
    BY <2>1, <2>3 DEF SwapIInv, HoldersExclusive
  <2>4. QED
    BY <2>2, <2>3 DEF HoldersExclusive, Holds
<1>6. RequestsBalanced'
  BY <1>2, <1>3 DEF SwapIInv, SwapTypeOK, RequestsBalanced, SwapRunning, Balanced
<1>7. BalanceMatchesTables'
  <2>1. ASSUME NEW k \in Keysets
        PROVE  balance'[k] = Value(Of(signed, k)) - Value(Of(used, k))
                              - Value(Of(pending \ P, k))
    <3>1. /\ Value(Of(pending \ P, k)) = Value(Of(pending, k)) - Value(Of(P, k))
          /\ Value(Of(pending, k)) \in Nat /\ Value(Of(P, k)) \in Nat
      BY <1>1, OfMinus
    <3>2. Value(Of(signed, k)) \in Nat /\ Value(Of(used, k)) \in Nat
      <4>1. signed \in SUBSET Tokens /\ used \in SUBSET Tokens
        BY DEF SwapIInv, SwapTypeOK, StoreTypeOK
      <4>2. QED
        BY <4>1, OfType
    <3>3. balance[k] = Value(Of(signed, k)) - Value(Of(used, k)) - Value(Of(pending, k))
      BY DEF SwapIInv, BalanceMatchesTables
    <3>4. Value(Of({}, k)) = 0
      BY OfEmpty
    <3>5. QED
      BY <1>b, <3>1, <3>2, <3>3, <3>4
  <2>2. QED
    BY <1>2, <2>1 DEF BalanceMatchesTables
<1>8. NoInflation' /\ SpentIsTold'
  BY <1>2 DEF SwapIInv, NoInflation, SpentIsTold
<1>9. QED
  BY <1>4, <1>5, <1>6, <1>7, <1>8 DEF SwapIInv

\* Refusals, aborts, faults and crashes move requests on and release nothing.
LEMMA GivingUpPreserves ==
  ASSUME SwapIInv, NEW r \in Swaps,
         SwapRefuse(r) \/ SwapAbort(r) \/ SwapReleaseFails(r) \/ SwapCrash
  PROVE  SwapIInv'
<1>1. UNCHANGED storeVars /\ swapIns' = swapIns /\ swapOuts' = swapOuts
  BY DEF SwapRefuse, SwapAbort, SwapReleaseFails, SwapCrash, KeepRequest
<1>2. pending' = pending /\ signed' = signed
  BY <1>1 DEF storeVars, promises, pendings
<1>3. StoreTypeOK' /\ BalanceMatchesTables' /\ NoInflation' /\ SpentIsTold'
  BY <1>1, TablesUnchanged
<1>4. /\ swapPc' \in [Swaps -> SwapPcs] /\ faults' \in Nat
      /\ \A s \in Swaps : Holds(s)' => Holds(s)
      /\ \A s \in Swaps : SwapRunning(s)' => SwapRunning(s)
  <2>1. CASE SwapRefuse(r)
    BY <2>1 DEF SwapRefuse, SwapGoto, KeepRequest, SwapIInv, SwapTypeOK, SwapPcs,
                Holds, SwapRunning
  <2>2. CASE SwapAbort(r)
    BY <2>2 DEF SwapAbort, SwapGoto, KeepRequest, SwapIInv, SwapTypeOK, SwapPcs,
                Holds, SwapRunning
  <2>3. CASE SwapReleaseFails(r)
    BY <2>3 DEF SwapReleaseFails, SwapGoto, SwapIInv, SwapTypeOK, SwapPcs,
                Holds, SwapRunning
  <2>4. CASE SwapCrash
    BY <2>4 DEF SwapCrash, SwapIInv, SwapTypeOK, SwapPcs, Holds, SwapRunning
  <2>5. QED
    BY <2>1, <2>2, <2>3, <2>4
<1>5. SwapTypeOK'
  BY <1>1, <1>3, <1>4 DEF SwapIInv, SwapTypeOK
<1>6. HoldersExclusive'
  BY <1>1, <1>2, <1>4 DEF SwapIInv, HoldersExclusive
<1>7. RequestsBalanced'
  BY <1>1, <1>2, <1>4 DEF SwapIInv, RequestsBalanced, Balanced
<1>8. QED
  BY <1>3, <1>5, <1>6, <1>7 DEF SwapIInv

\* A late abort has published "spent" for proofs that are not; a rotation
\* changes what may be stored next.  Neither touches what the sums count.
LEMMA LateAbortAndRotatePreserve ==
  ASSUME SwapIInv, NEW r \in Swaps, SwapAbortLate(r) \/ SwapRotate
  PROVE  SwapIInv'
<1>1. /\ signed' = signed /\ stored' = stored /\ used' = used /\ pending' = pending
      /\ balance' = balance /\ feesPaid' = feesPaid /\ promiseFor' = promiseFor
      /\ usedFor' = usedFor /\ pendingFor' = pendingFor
      /\ swapIns' = swapIns /\ swapOuts' = swapOuts /\ faults' = faults
  BY DEF SwapAbortLate, SwapRotate, DeactivateKeyset, KeepRequest, promises,
         spends, pendings, swapLocals
<1>2. /\ active' \subseteq Keysets
      /\ told' \in [Tokens -> {"unspent", "pending", "spent"}]
      /\ \A t \in Tokens : told[t] = "spent" => told'[t] = "spent"
  BY DEF SwapAbortLate, SwapRotate, DeactivateKeyset, Column, SwapIInv, SwapTypeOK,
         StoreTypeOK
<1>3. /\ swapPc' \in [Swaps -> SwapPcs]
      /\ \A s \in Swaps : Holds(s)' => Holds(s)
      /\ \A s \in Swaps : SwapRunning(s)' => SwapRunning(s)
  BY DEF SwapAbortLate, SwapRotate, SwapGoto, swapLocals, SwapIInv, SwapTypeOK,
         SwapPcs, Holds, SwapRunning
<1>4. SwapTypeOK'
  BY <1>1, <1>2, <1>3 DEF SwapIInv, SwapTypeOK, StoreTypeOK
<1>5. HoldersExclusive' /\ RequestsBalanced'
  BY <1>1, <1>3 DEF SwapIInv, HoldersExclusive, RequestsBalanced, Balanced
<1>6. BalanceMatchesTables' /\ NoInflation'
  BY <1>1 DEF SwapIInv, BalanceMatchesTables, NoInflation
<1>7. SpentIsTold'
  BY <1>1, <1>2 DEF SwapIInv, SwapTypeOK, StoreTypeOK, SpentIsTold
<1>8. QED
  BY <1>4, <1>5, <1>6, <1>7 DEF SwapIInv

\* Every step of every request, fault and rotation preserves the invariant.
THEOREM SwapNextInvariant == SwapIInv /\ [SwapNext]_swapVars => SwapIInv'
<1> SUFFICES ASSUME SwapIInv, [SwapNext]_swapVars PROVE SwapIInv'
  OBVIOUS
<1>1. ASSUME NEW r \in Swaps, SwapStep(r) PROVE SwapIInv'
  BY <1>1, HoldPreserves, CommitPreserves, ReleasePreserves, GivingUpPreserves,
     LateAbortAndRotatePreserve DEF SwapStep
<1>2. ASSUME NEW r \in Swaps, SwapReleaseFails(r) PROVE SwapIInv'
  BY <1>2, GivingUpPreserves
<1>3. ASSUME NEW r \in Swaps, NEW P \in SUBSET signed,
             NEW O \in SUBSET (Tokens \ signed), SwapVerify(r, P, O)
      PROVE  SwapIInv'
  BY <1>3, VerifyPreserves
<1>4. CASE Swaps # {} /\ SwapRotate
  BY <1>4, LateAbortAndRotatePreserve
<1>5. CASE SwapCrash
  BY <1>5, GivingUpPreserves DEF SwapCrash
<1>6. CASE Swaps = {} /\ SwapRotate
  BY <1>6 DEF SwapRotate, DeactivateKeyset, SwapIInv, SwapTypeOK, StoreTypeOK,
              HoldersExclusive, RequestsBalanced, BalanceMatchesTables, NoInflation,
              SpentIsTold, promises, spends, pendings, swapLocals
<1>7. CASE UNCHANGED swapVars
  <2>1. UNCHANGED storeVars /\ UNCHANGED swapLocals /\ faults' = faults
    BY <1>7 DEF swapVars
  <2>2. StoreTypeOK' /\ BalanceMatchesTables' /\ NoInflation' /\ SpentIsTold'
    BY <2>1, TablesUnchanged
  <2>3. QED
    BY <2>1, <2>2 DEF storeVars, promises, pendings, swapLocals, SwapIInv, SwapTypeOK,
         HoldersExclusive, Holds, RequestsBalanced, SwapRunning, Balanced
<1>8. QED
  BY <1>1, <1>2, <1>3, <1>4, <1>5, <1>6, <1>7 DEF SwapNext

\* The invariant holds in every state that concurrent swaps can reach.
THEOREM SwapInvariant == SwapSpec => []SwapIInv
<1>1. SwapInit => SwapIInv
  BY SwapInitInvariant
<1>2. SwapIInv /\ [SwapNext]_swapVars => SwapIInv'
  BY SwapNextInvariant
<1>3. QED
  BY <1>1, <1>2, PTL DEF SwapSpec

-----------------------------------------------------------------------------
(* The results *)

\* The tables and the requests keep their types, and the tables their
\* constraints (a promise is stored or signed, only signed notes are spent).
THEOREM SwapTypeCorrect == SwapSpec => []SwapTypeOK
<1>1. SwapIInv => SwapTypeOK
  BY DEF SwapIInv
<1>2. QED
  BY <1>1, SwapInvariant, PTL

\* However many swaps run, wherever they are interrupted: what one has set
\* pending is its own until its finally block.
THEOREM SwapsHoldTheirProofsAlone == SwapSpec => []HoldersExclusive
<1>1. SwapIInv => HoldersExclusive
  BY DEF SwapIInv
<1>2. QED
  BY <1>1, SwapInvariant, PTL

\* The running balance of a keyset never drifts from its tables under swaps.
THEOREM SwapsKeepBooks == SwapSpec => []BalanceMatchesTables
<1>1. SwapIInv => BalanceMatchesTables
  BY DEF SwapIInv
<1>2. QED
  BY <1>1, SwapInvariant, PTL

\* Swaps never create value, whatever the amounts, keysets and fees.
THEOREM SwapsCreateNoValue == SwapSpec => []NoInflation
<1>1. SwapIInv => NoInflation
  BY DEF SwapIInv
<1>2. QED
  BY <1>1, SwapInvariant, PTL

\* A subscriber of a spent proof has been told so, and was told it last.
THEOREM SwapsTellSpent == SwapSpec => []SpentIsTold
<1>1. SwapIInv => SpentIsTold
  BY DEF SwapIInv
<1>2. QED
  BY <1>1, SwapInvariant, PTL

\* A request pays its fee once, on all its inputs; what is recorded is a fee
\* for each keyset of theirs, which is as much or more (FeesAfter).
LEMMA FeesByKeyset ==
  ASSUME NEW P \in SUBSET Tokens, NEW fees \in [Keysets -> Nat],
         \A k \in Keysets : fees[k] = Fee(Of(P, k))
  PROVE  Fee(P) <= SumFunctionOnSet(fees, Keysets)
<1> DEFINE In(s) == {t \in P : KeysetOf[t] \in s}
           sum(s) == SumFunctionOnSet(fees, s)
           H == {s \in SUBSET Keysets : Ppk(In(s)) <= 1000 * sum(s)}
<1>0. \A s \in SUBSET Keysets :
        /\ In(s) \in SUBSET Tokens /\ Ppk(In(s)) \in Nat
        /\ IsFiniteSet(s) /\ \A k \in s : fees[k] \in Int
  BY PpkAssumption, FiniteKeysets, FS_Subset
<1>t. \A s \in SUBSET Keysets : sum(s) \in Int
  BY <1>0, SumPick
<1>1. ASSUME NEW s \in SUBSET Keysets, \A t \in SUBSET s : t # s => t \in H
      PROVE  s \in H
  <2>1. CASE s = {}
    <3>1. sum(s) = 0
      BY <1>0, <2>1, SumPick
    <3>2. In(s) = {} /\ {} \cup {} = {} /\ {} \cap {} = {} /\ {} \in SUBSET Tokens
      BY <2>1
    <3>3. Ppk({}) = Ppk({}) + Ppk({}) /\ Ppk({}) \in Nat
      BY <3>2, PpkAssumption
    <3>4. \A n \in Nat : n = n + n => n = 0
      OBVIOUS
    <3>5. Ppk(In(s)) = 0
      BY <3>2, <3>3, <3>4, Zenon
    <3>6. QED
      BY <3>1, <3>5
  <2>2. CASE s # {}
    <3>1. PICK k \in s : TRUE
      BY <2>2
    <3> DEFINE u == s \ {k}
    <3>2. u \in H /\ u \in SUBSET Keysets
      BY <1>1
    <3>3. sum(s) = fees[k] + sum(u)
      BY <1>0, SumTake
    <3>4. In(s) = In(u) \cup Of(P, k) /\ In(u) \cap Of(P, k) = {}
      BY DEF Of
    <3>5. Of(P, k) \in SUBSET Tokens /\ In(u) \in SUBSET Tokens
      BY DEF Of
    <3> DEFINE a == Ppk(In(u))
               b == Ppk(Of(P, k))
    <3>6. Ppk(In(u) \cup Of(P, k)) = a + b
      BY <3>4, <3>5, PpkAssumption
    <3>7. Ppk(In(s)) = a + b
      BY <3>4, <3>6, Zenon
    <3>8. a \in Nat /\ b \in Nat /\ a <= 1000 * sum(u) /\ sum(u) \in Int /\ fees[k] \in Nat
      BY <1>t, <3>2, <3>5, PpkAssumption
    <3>9. fees[k] = (b + 999) \div 1000
      BY DEF Fee
    <3> HIDE DEF a, b, u, sum, In
    <3>10. b <= 1000 * fees[k]
      BY <3>8, <3>9
    <3>11. Ppk(In(s)) <= 1000 * sum(s)
      BY <3>3, <3>7, <3>8, <3>10
    <3>12. QED
      BY <3>11
  <2>3. QED
    BY <2>1, <2>2
<1>2. H = SUBSET Keysets
  <2> HIDE DEF H
  <2>1. H \in SUBSET SUBSET Keysets
    BY DEF H
  <2>2. QED
    BY <1>1, <2>1, FiniteKeysets, AllSubsets
<1>3. Ppk(In(Keysets)) <= 1000 * sum(Keysets)
  BY <1>2
<1>4. In(Keysets) = P
  BY TokensAssumption
<1>5. Ppk(P) \in Nat /\ sum(Keysets) \in Int /\ Ppk(P) <= 1000 * sum(Keysets)
  BY <1>0, <1>3, <1>4, <1>t
<1>6. Fee(P) = (Ppk(P) + 999) \div 1000
  BY DEF Fee
<1> HIDE DEF sum
<1>7. Fee(P) <= sum(Keysets)
  BY <1>5, <1>6
<1>8. QED
  BY <1>7 DEF sum

\* What a transaction records is what it charged, or more.
LEMMA CommitRecordsItsFee ==
  ASSUME SwapIInv, FeesCoverSupplyLoss, NEW r \in Swaps, SwapCommit(r)
  PROVE  FeesCoverSupplyLoss'
<1> DEFINE P == swapIns[r]
           O == swapOuts[r]
           live == signed \ used
           fees == [k \in Keysets |-> Fee(Of(P, k))]
<1>1. /\ P \in SUBSET signed /\ signed \in SUBSET Tokens /\ O \in SUBSET Tokens
      /\ used \in SUBSET signed /\ Balanced(P, O) /\ feesPaid \in [Keysets -> Nat]
      /\ P \in SUBSET Tokens
  BY DEF SwapCommit, SwapIInv, SwapTypeOK, StoreTypeOK, RequestsBalanced, SwapRunning
<1>2. signed \cap O = {} /\ P \cap used = {}
  BY DEF SwapCommit, CanStore, CanInvalidate
<1>3. signed' = signed \cup O /\ used' = used \cup P /\ feesPaid' = FeesAfter(P)
  BY DEF SwapCommit
<1>4. \A k \in Keysets : Of(P, k) \in SUBSET Tokens /\ Fee(Of(P, k)) \in Nat
  <2>1. \A k \in Keysets : Of(P, k) \in SUBSET Tokens
    BY <1>1 DEF Of
  <2>2. QED
    BY <2>1, FeeType
<1>5. fees \in [Keysets -> Nat]
  BY <1>4
<1>6. Fee(P) <= SumFunctionOnSet(fees, Keysets)
  <2>1. \A k \in Keysets : fees[k] = Fee(Of(P, k))
    OBVIOUS
  <2>2. QED
    BY <1>1, <1>5, <2>1, FeesByKeyset
<1>7. RecordedFees' = RecordedFees + SumFunctionOnSet(fees, Keysets)
  <2>1. \A k \in Keysets : feesPaid[k] \in Int /\ fees[k] \in Int /\ feesPaid'[k] = feesPaid[k] + fees[k]
    BY <1>1, <1>3, <1>4 DEF FeesAfter
  <2> HIDE DEF fees
  <2>2. QED
    BY <2>1, FiniteKeysets, SumPlus DEF RecordedFees
<1>8. RecordedFees \in Int /\ SumFunctionOnSet(fees, Keysets) \in Int
  <2>1. \A k \in Keysets : feesPaid[k] \in Int /\ fees[k] \in Int
    BY <1>1, <1>4
  <2> HIDE DEF fees
  <2>2. QED
    BY <2>1, FiniteKeysets, SumPick DEF RecordedFees
<1>9. signed' \ used' = (live \ P) \cup O
  BY <1>1, <1>2, <1>3
<1>10. Value(live \ P) = Value(live) - Value(P) /\ Value(live) \in Nat
       /\ Value(P) \in Nat /\ Value(live \ P) \in Nat
  BY <1>1, <1>2, ValueMinus
<1>11. Value((live \ P) \cup O) = Value(live \ P) + Value(O) /\ Value(O) \in Nat
  BY <1>1, <1>2, ValuePlus
<1>12. Value(O) + Fee(P) = Value(P) /\ Fee(P) \in Nat
  BY <1>1, FeeType DEF Balanced
<1>13. Value(signed' \ used') = Value(live) - Fee(P)
  <2>1. Value(signed' \ used') = Value(live \ P) + Value(O)
    BY <1>9, <1>11
  <2>2. QED
    BY <2>1, <1>10, <1>11, <1>12
<1>14. Value(Genesis) \in Nat /\ Value(Genesis) - Value(live) <= RecordedFees
  BY TokensAssumption, ValueAssumption DEF FeesCoverSupplyLoss
<1>15. Value(Genesis) - Value(signed' \ used') <= RecordedFees'
  <2> HIDE DEF fees, live
  <2>1. QED
    BY <1>6, <1>7, <1>8, <1>10, <1>12, <1>13, <1>14
<1>16. QED
  BY <1>15 DEF FeesCoverSupplyLoss

\* The recorded fees are at least what swaps take out of circulation, whatever
\* the keysets the inputs are of and however often a request is interrupted.
THEOREM SwapsRecordTheirFees == SwapSpec => []FeesCoverSupplyLoss
<1>1. SwapInit => FeesCoverSupplyLoss
  <2> SUFFICES ASSUME SwapInit PROVE FeesCoverSupplyLoss
    OBVIOUS
  <2> DEFINE none == [k \in Keysets |-> 0]
  <2>1. signed \ used = Genesis /\ feesPaid = none
    BY DEF SwapInit, StoreInit
  <2>2. Value(Genesis) \in Nat /\ Value(signed \ used) = Value(Genesis)
    BY <2>1, TokensAssumption, ValueAssumption
  <2>3. SumFunctionOnSet(none, Keysets) \in Nat
    <3>1. \A k \in Keysets : none[k] \in Nat
      OBVIOUS
    <3> HIDE DEF none
    <3>2. QED
      BY <3>1, FiniteKeysets, SumNat
  <2>4. RecordedFees = SumFunctionOnSet(none, Keysets)
    BY <2>1 DEF RecordedFees
  <2>5. QED
    BY <2>2, <2>3, <2>4 DEF FeesCoverSupplyLoss
<1>2. SwapIInv /\ FeesCoverSupplyLoss /\ [SwapNext]_swapVars => FeesCoverSupplyLoss'
  <2> SUFFICES ASSUME SwapIInv, FeesCoverSupplyLoss, [SwapNext]_swapVars
               PROVE  FeesCoverSupplyLoss'
    OBVIOUS
  <2>1. ASSUME NEW r \in Swaps, SwapCommit(r) PROVE FeesCoverSupplyLoss'
    BY <2>1, CommitRecordsItsFee
  <2>2. CASE UNCHANGED <<signed, used, feesPaid>>
    BY <2>2 DEF FeesCoverSupplyLoss, RecordedFees
  <2>3. \/ \E r \in Swaps : SwapCommit(r)
        \/ UNCHANGED <<signed, used, feesPaid>>
    BY DEF SwapNext, SwapStep, SwapVerify, SwapHold, SetProofsPending, SwapRefuse,
           SwapAbort, SwapAbortLate, SwapRelease, UnsetProofsPending, SwapReleaseFails,
           SwapRotate, DeactivateKeyset, SwapCrash, swapVars, storeVars, promises, spends
  <2>4. QED
    BY <2>1, <2>2, <2>3
<1>3. QED
  BY <1>1, <1>2, SwapInvariant, PTL DEF SwapSpec

\* Every step of the code's tables is a step of the abstract mint or none.
LEMMA SwapStepSimulation ==
  ASSUME SwapIInv, [SwapNext]_swapVars
  PROVE  [Abstract!Next]_(Abstract!ecashVars)
<1> DEFINE lock == pending \ used
           Stutter == signed' = signed /\ used' = used /\ lock' = lock
<1>0. /\ signed \in SUBSET Tokens /\ used \in SUBSET signed
      /\ pending \in SUBSET signed
      /\ swapIns \in [Swaps -> SUBSET Tokens] /\ swapOuts \in [Swaps -> SUBSET Tokens]
  BY DEF SwapIInv, SwapTypeOK, StoreTypeOK
<1>1. ASSUME NEW r \in Swaps, SwapHold(r)
      PROVE  Abstract!Lock(swapIns[r])
  <2>1. /\ swapIns[r] \cap used = {} /\ swapIns[r] \cap pending = {}
        /\ pending' = pending \cup swapIns[r] /\ signed' = signed /\ used' = used
    BY <1>1 DEF SwapHold, SetProofsPending, ProofsFree, promises, spends
  <2>2. swapIns[r] \subseteq signed
    BY <1>1 DEF SwapHold, SwapIInv, RequestsBalanced, SwapRunning
  <2>3. QED
    BY <2>1, <2>2 DEF Abstract!Lock
<1>2. ASSUME NEW r \in Swaps, SwapCommit(r)
      PROVE  Abstract!Exchange(swapIns[r], swapOuts[r])
  <2>1. /\ swapIns[r] \cap used = {} /\ swapOuts[r] \cap signed = {}
        /\ pending' = pending /\ signed' = signed \cup swapOuts[r]
        /\ used' = used \cup swapIns[r]
    BY <1>2 DEF SwapCommit, CanStore, CanInvalidate, pendings
  <2>2. swapIns[r] \subseteq pending
    BY <1>2 DEF SwapCommit, SwapIInv, HoldersExclusive, Holds
  <2>3. Value(swapOuts[r]) <= Value(swapIns[r])
    <3>1. Balanced(swapIns[r], swapOuts[r])
      BY <1>2 DEF SwapCommit, SwapIInv, RequestsBalanced, SwapRunning
    <3>2. Fee(swapIns[r]) \in Nat
      BY <1>0, FeeType
    <3>3. Value(swapIns[r]) \in Nat /\ Value(swapOuts[r]) \in Nat
      BY <1>0, ValueAssumption
    <3>4. QED
      BY <3>1, <3>2, <3>3 DEF Balanced
  <2>4. QED
    BY <2>1, <2>2, <2>3 DEF Abstract!Exchange
<1>3. ASSUME NEW r \in Swaps, SwapRelease(r)
      PROVE  Abstract!Release(swapIns[r] \ used)
  <2>1. /\ pending' = pending \ swapIns[r] /\ signed' = signed /\ used' = used
    BY <1>3 DEF SwapRelease, UnsetProofsPending, promises, spends
  <2>2. swapIns[r] \subseteq pending
    BY <1>3 DEF SwapRelease, SwapIInv, HoldersExclusive, Holds
  <2>3. QED
    BY <2>1, <2>2 DEF Abstract!Release
<1>4. ASSUME NEW r \in Swaps,
             SwapRefuse(r) \/ SwapAbort(r) \/ SwapAbortLate(r) \/ SwapReleaseFails(r)
      PROVE  Stutter
  BY <1>4 DEF SwapRefuse, SwapAbort, SwapAbortLate, SwapReleaseFails, storeVars,
              promises, spends, pendings
<1>5. ASSUME NEW r \in Swaps, NEW P \in SUBSET signed,
             NEW O \in SUBSET (Tokens \ signed), SwapVerify(r, P, O)
      PROVE  Stutter
  BY <1>5 DEF SwapVerify, storeVars, promises, spends, pendings
<1>6. CASE SwapRotate \/ SwapCrash \/ UNCHANGED swapVars
  <2>1. Stutter
    BY <1>6 DEF SwapRotate, DeactivateKeyset, SwapCrash, swapVars, storeVars,
                promises, spends, pendings
  <2>2. QED
    BY <2>1 DEF Abstract!ecashVars
<1>7. ASSUME NEW r \in Swaps, SwapStep(r) \/ SwapReleaseFails(r)
      PROVE  [Abstract!Next]_(Abstract!ecashVars)
  <2>1. swapIns[r] \in SUBSET Tokens /\ swapOuts[r] \in SUBSET Tokens
        /\ swapIns[r] \ used \in SUBSET Tokens
    BY <1>0
  <2>2. CASE SwapHold(r)
    BY <1>1, <2>1, <2>2 DEF Abstract!Next
  <2>3. CASE SwapCommit(r)
    BY <1>2, <2>1, <2>3 DEF Abstract!Next
  <2>4. CASE SwapRelease(r)
    BY <1>3, <2>1, <2>4 DEF Abstract!Next
  <2>5. CASE SwapRefuse(r) \/ SwapAbort(r) \/ SwapAbortLate(r) \/ SwapReleaseFails(r)
    BY <1>4, <2>5 DEF Abstract!ecashVars
  <2>6. QED
    BY <1>7, <2>2, <2>3, <2>4, <2>5 DEF SwapStep
<1>8. ASSUME NEW r \in Swaps, NEW P \in SUBSET signed,
             NEW O \in SUBSET (Tokens \ signed), SwapVerify(r, P, O)
      PROVE  [Abstract!Next]_(Abstract!ecashVars)
  BY <1>5, <1>8 DEF Abstract!ecashVars
<1>9. QED
  BY <1>6, <1>7, <1>8 DEF SwapNext

\* Swap implements Ecash: with crashes, failing cleanups and rotated keysets,
\* the tables do nothing the abstract mint does not promise.
THEOREM SwapRefinesEcash == SwapSpec => SwapImplementsEcash
<1>1. SwapInit => Abstract!Init
  BY DEF SwapInit, StoreInit, Abstract!Init
<1>2. SwapIInv /\ [SwapNext]_swapVars => [Abstract!Next]_(Abstract!ecashVars)
  BY SwapStepSimulation
<1>3. QED
  BY <1>1, <1>2, SwapInvariant, PTL DEF SwapSpec, SwapImplementsEcash, Abstract!Spec
=============================================================================
