-------------------------------- MODULE Swap --------------------------------
(***************************************************************************)
(* Ledger.swap: concurrent requests that exchange proofs for new promises.  *)
(*                                                                         *)
(* A request is a coroutine that yields at every database access.  It       *)
(* verifies its inputs and outputs, sets the inputs pending, stores and     *)
(* signs the outputs and invalidates the inputs in ONE transaction, and     *)
(* deletes the pending rows in the `finally` block.  The process may crash  *)
(* between any two of these, the `finally` block itself may fail, and a     *)
(* keyset may be rotated out meanwhile.                                     *)
(***************************************************************************)
EXTENDS NoteStore, Functions

CONSTANTS
  Swaps,           \* the swap requests of a behaviour
  MaxFaults        \* bound on crashes and on failures of a finally block

ASSUME FiniteKeysets == IsFiniteSet(Keysets)

VARIABLES
  swapPc,          \* where the request is
  swapIns,         \* its proofs
  swapOuts,        \* its blinded messages
  faults           \* faults so far

swapLocals == <<swapPc, swapIns, swapOuts>>
swapVars == <<storeVars, swapLocals, faults>>

SwapPcs == {"idle", "verified", "held", "committed", "aborted",
            "succeeded", "failed", "dead"}

SwapTypeOK ==
  /\ StoreTypeOK
  /\ swapPc \in [Swaps -> SwapPcs]
  /\ swapIns \in [Swaps -> SUBSET Tokens]
  /\ swapOuts \in [Swaps -> SUBSET Tokens]
  /\ faults \in Nat

SwapInit ==
  /\ StoreInit
  /\ swapPc = [r \in Swaps |-> "idle"]
  /\ swapIns = [r \in Swaps |-> {}]
  /\ swapOuts = [r \in Swaps |-> {}]
  /\ faults = 0

SwapGoto(r, pc) == swapPc' = [swapPc EXCEPT ![r] = pc]
KeepRequest == UNCHANGED <<swapIns, swapOuts, faults>>

\* mutant: the fee has the wrong sign
BalancedWithFeeAdded(P, O) == Value(O) = Value(P) + Fee(P)

\* _verify_equation_balanced
Balanced(P, O) == Value(O) + Fee(P) = Value(P)

\* verify_inputs_and_outputs accepts; a refused request changes nothing
SwapVerify(r, P, O) ==
  /\ swapPc[r] = "idle"
  /\ ProofsVerify(P) /\ OutputsVerify(O) /\ Balanced(P, O)
  /\ SwapGoto(r, "verified")
  /\ swapIns' = [swapIns EXCEPT ![r] = P]
  /\ swapOuts' = [swapOuts EXCEPT ![r] = O]
  /\ UNCHANGED <<storeVars, faults>>

SwapHold(r) ==
  /\ swapPc[r] = "verified"
  /\ SetProofsPending(swapIns[r], NoQuote)
  /\ SwapGoto(r, "held")
  /\ KeepRequest

\* mutant: the proofs are set pending inside the try
SwapRefuseReleases(r) ==
  /\ swapPc[r] = "verified"
  /\ UnsetProofsPending(swapIns[r])
  /\ SwapGoto(r, "failed")
  /\ KeepRequest

\* spent, pending, or no lock within lock_timeout: raised before the try
SwapRefuse(r) ==
  /\ swapPc[r] = "verified"
  /\ SwapGoto(r, "failed")
  /\ UNCHANGED storeVars /\ KeepRequest

\* the transaction inside the try: store, invalidate, sign
SwapCommit(r) ==
  LET P == swapIns[r]
      O == swapOuts[r]
  IN /\ swapPc[r] = "held"
     /\ CanStore(O) /\ CanInvalidate(P)
     /\ signed' = signed \cup O
     /\ promiseFor' = Column(promiseFor, O, NoQuote)
     /\ used' = used \cup P
     /\ usedFor' = Column(usedFor, P, NoQuote)
     /\ balance' = Bumped(O, P)
     /\ feesPaid' = FeesAfter(P)
     /\ told' = Column(told, P, "spent")
     /\ SwapGoto(r, "committed")
     /\ UNCHANGED <<active, stored, pendings>> /\ KeepRequest

\* the transaction rolls back before _invalidate_proofs published anything:
\* no lock in time, an output stored meanwhile, an inactive keyset
SwapAbort(r) ==
  /\ swapPc[r] = "held"
  /\ SwapGoto(r, "aborted")
  /\ UNCHANGED storeVars /\ KeepRequest

\* it rolls back after _invalidate_proofs: signing or COMMIT failed, and
\* the "spent" events are out
SwapAbortLate(r) ==
  /\ swapPc[r] = "held"
  /\ CanStore(swapOuts[r]) /\ CanInvalidate(swapIns[r])
  /\ told' = Column(told, swapIns[r], "spent")
  /\ SwapGoto(r, "aborted")
  /\ UNCHANGED <<active, promises, spends, pendings, balance, feesPaid>>
  /\ KeepRequest

\* mutant: the proofs are released after a success only
SwapReleaseAfterSuccess(r) ==
  /\ swapPc[r] = "committed"
  /\ UnsetProofsPending(swapIns[r])
  /\ SwapGoto(r, "succeeded")
  /\ KeepRequest

\* the finally block
SwapRelease(r) ==
  /\ swapPc[r] \in {"committed", "aborted"}
  /\ UnsetProofsPending(swapIns[r])
  /\ SwapGoto(r, IF swapPc[r] = "committed" THEN "succeeded" ELSE "failed")
  /\ KeepRequest

\* the database fails the finally block too: the rows stay
SwapReleaseFails(r) ==
  /\ swapPc[r] \in {"committed", "aborted"}
  /\ faults < MaxFaults
  /\ faults' = faults + 1
  /\ SwapGoto(r, "dead")
  /\ UNCHANGED <<storeVars, swapIns, swapOuts>>

\* the process dies: the tables stay, the coroutines are gone
SwapRunning(r) == swapPc[r] \in {"verified", "held", "committed", "aborted"}

SwapCrash ==
  /\ faults < MaxFaults
  /\ \E r \in Swaps : SwapRunning(r)
  /\ faults' = faults + 1
  /\ swapPc' = [r \in Swaps |-> IF SwapRunning(r) THEN "dead" ELSE swapPc[r]]
  /\ UNCHANGED <<storeVars, swapIns, swapOuts>>

SwapStep(r) ==
  \/ SwapHold(r) \/ SwapRefuse(r)
  \/ SwapCommit(r) \/ SwapAbort(r) \/ SwapAbortLate(r)
  \/ SwapRelease(r)

SwapRotate ==
  /\ \E k \in Keysets : DeactivateKeyset(k)
  /\ UNCHANGED <<swapLocals, faults>>

SwapNext ==
  \/ \E r \in Swaps : \/ SwapStep(r)
                      \/ SwapReleaseFails(r)
                      \/ \E P \in SUBSET signed, O \in SUBSET (Tokens \ signed) :
                           SwapVerify(r, P, O)
  \/ SwapRotate
  \/ SwapCrash

SwapSpec == SwapInit /\ [][SwapNext]_swapVars

\* asyncio resumes every suspended coroutine and every database call
\* returns, with a result or with the timeout of Database.connect
SwapFairSpec == SwapSpec /\ \A r \in Swaps : WF_swapVars(SwapStep(r))
-----------------------------------------------------------------------------
(* Safety *)

Holds(r) == swapPc[r] \in {"held", "committed", "aborted"}

\* Concurrent swaps never work on the same proof: whatever a request has set
\* pending stays pending until its own finally block, and no other request
\* holds it (_verify_spent_proofs_and_set_pending, _unset_proofs_pending).
HoldersExclusive ==
  /\ \A r \in Swaps : Holds(r) => swapIns[r] \subseteq pending
  /\ \A r, s \in Swaps :
       r # s /\ Holds(r) /\ Holds(s) => swapIns[r] \cap swapIns[s] = {}

\* keysets.balance, bumped piecemeal in four places, equals what the tables
\* say: signed promises less spent and less pending proofs (m027 seeds it
\* from the first two; the watchdog compares it with the node's balance).
\* A proof between invalidation and release is subtracted twice.
BalanceMatchesTables ==
  \A k \in Keysets :
    balance[k] = Value(Of(signed, k)) - Value(Of(used, k)) - Value(Of(pending, k))

\* No interleaving of swaps, faults and rotations lets users hold more
\* spendable value than they started with (_verify_equation_balanced is
\* checked long before the transaction that relies on it).
NoInflation == Value(signed \ used) <= Value(Genesis)

\* The value that left circulation is what the fees account records, or
\* less: charged once on all inputs of a request, a fee is recorded keyset by
\* keyset, each rounded up on its own (get_fees_for_proofs, _invalidate_proofs).
RecordedFees == SumFunctionOnSet(feesPaid, Keysets)
FeesCoverSupplyLoss == Value(Genesis) - Value(signed \ used) <= RecordedFees

\* A spent proof is the last thing a subscriber hears of it, even though the
\* pending and the spent event come from different steps.
SpentIsTold == \A t \in used : told[t] = "spent"

\* What the docstring of _unset_proofs_pending says of its events: once no
\* request is running, a subscriber has last heard the state that
\* get_proofs_states would answer.
Quiet == \A r \in Swaps : ~SwapRunning(r)

ProofState(t) == CASE t \in used -> "spent"
                   [] t \in pending \ used -> "pending"
                   [] OTHER -> "unspent"

SubscribersToldTheState == Quiet => \A t \in Tokens : told[t] = ProofState(t)

-----------------------------------------------------------------------------
(* Refinement: pending proofs are locks until they are spent *)

Abstract == INSTANCE Ecash WITH
  issued <- signed, spent <- used, locked <- pending \ used

\* Swaps, crashes included, do nothing the abstract mint may not do: every
\* transaction of the code is one step on the notes or none at all.
SwapImplementsEcash == Abstract!Spec

-----------------------------------------------------------------------------
(* Liveness *)

\* Every proof that a swap sets pending is released again, by the finally
\* block that runs on success and on failure alike: only the proofs of a
\* request that a crash took, or whose finally block failed, stay pending.
Orphaned(t) == \E r \in Swaps : swapPc[r] = "dead" /\ t \in swapIns[r]

EveryLockReleased ==
  \A t \in Tokens : t \in pending ~> t \notin pending \/ Orphaned(t)
=============================================================================
