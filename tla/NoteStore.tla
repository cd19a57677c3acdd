------------------------------ MODULE NoteStore ------------------------------
(***************************************************************************)
(* The mint's database as the ledger uses it: the tables promises,          *)
(* proofs_used, proofs_pending and keysets, and the transactions that       *)
(* cashu/mint/ledger.py and cashu/mint/db/write.py run on them.             *)
(*                                                                         *)
(* A TOKEN is one note of ecash over its whole life: the blinded message B_ *)
(* a wallet submits, the promise the mint signs for it, and the proof it    *)
(* unblinds to.  The cryptography is abstracted to what the ledger relies   *)
(* on: a proof verifies exactly when its promise was signed, and one        *)
(* blinded message yields one proof.  The amount of a blank change output,  *)
(* which the mint imprints, is fixed in advance with the token.             *)
(*                                                                         *)
(* One action is one transaction (one `async with db.get_connection`        *)
(* block): the database makes it atomic, everything between two of them     *)
(* interleaves.                                                             *)
(***************************************************************************)
EXTENDS Integers, FiniteSets

CONSTANTS
  Tokens,          \* every note that exists in a behaviour
  Keysets,         \* the mint's keysets, all of one unit
  KeysetOf,        \* the keyset id of a token (output.id, proof.id)
  Value(_),        \* sum of the amounts of a set of tokens
  Ppk(_),          \* sum of input_fee_ppk over a set of tokens
  Genesis,         \* tokens signed before the behaviour starts
  MeltQuotes,      \* melt quote ids, the foreign key of the three tables
  NoQuote          \* NULL in that column

\* Value and Ppk are sums over a set: all the proofs need is additivity.
ASSUME TokensAssumption ==
  /\ IsFiniteSet(Tokens)
  /\ Genesis \subseteq Tokens
  /\ KeysetOf \in [Tokens -> Keysets]
  /\ NoQuote \notin MeltQuotes

ASSUME ValueAssumption ==
  /\ \A S \in SUBSET Tokens : Value(S) \in Nat
  /\ \A S, T \in SUBSET Tokens :
       S \cap T = {} => Value(S \cup T) = Value(S) + Value(T)

ASSUME PpkAssumption ==
  /\ \A S \in SUBSET Tokens : Ppk(S) \in Nat
  /\ \A S, T \in SUBSET Tokens :
       S \cap T = {} => Ppk(S \cup T) = Ppk(S) + Ppk(T)

VARIABLES
  active,          \* keysets with active = TRUE
  stored,          \* promises rows with c_ NULL
  signed,          \* promises rows with c_ set
  promiseFor,      \* promises.melt_quote
  used,            \* proofs_used rows, UNIQUE (y)
  usedFor,         \* proofs_used.melt_quote
  pending,         \* proofs_pending rows
  pendingFor,      \* proofs_pending.melt_quote
  balance,         \* keysets.balance
  feesPaid,        \* keysets.fees_paid
  told             \* the last ProofState event published for a token

promises  == <<stored, signed, promiseFor>>
spends    == <<used, usedFor>>
pendings  == <<pending, pendingFor>>
storeVars == <<active, promises, spends, pendings, balance, feesPaid, told>>

Quotes == MeltQuotes \cup {NoQuote}

Of(S, k) == {t \in S : KeysetOf[t] = k}

\* get_fees_for_proofs: per-thousand fees of the inputs, rounded up
Fee(P) == (Ppk(P) + 999) \div 1000

\* a column of a table after a row was written for each token of S
Column(col, S, q) == [t \in Tokens |-> IF t \in S THEN q ELSE col[t]]

\* bump_keyset_balance for every token of In (+) and of Out (-)
Bumped(In, Out) ==
  [k \in Keysets |-> balance[k] + Value(Of(In, k)) - Value(Of(Out, k))]

StoreTypeOK ==
  /\ active \subseteq Keysets
  /\ stored \subseteq Tokens /\ signed \subseteq Tokens
  /\ stored \cap signed = {}
  /\ used \subseteq signed /\ pending \subseteq signed
  /\ promiseFor \in [Tokens -> Quotes]
  /\ usedFor \in [Tokens -> Quotes]
  /\ pendingFor \in [Tokens -> Quotes]
  /\ balance \in [Keysets -> Int]
  /\ feesPaid \in [Keysets -> Nat]
  /\ told \in [Tokens -> {"unspent", "pending", "spent"}]

StoreInit ==
  /\ active = Keysets
  /\ stored = {} /\ signed = Genesis
  /\ used = {} /\ pending = {}
  /\ promiseFor = [t \in Tokens |-> NoQuote]
  /\ usedFor = [t \in Tokens |-> NoQuote]
  /\ pendingFor = [t \in Tokens |-> NoQuote]
  /\ balance = [k \in Keysets |-> Value(Of(Genesis, k))]
  /\ feesPaid = [k \in Keysets |-> 0]
  /\ told = [t \in Tokens |-> "unspent"]

-----------------------------------------------------------------------------
(* What the handlers check *)

\* verify_inputs_and_outputs on the inputs: there are some, each verifies
ProofsVerify(P) == P # {} /\ P \subseteq signed

\* _verify_outputs: one active keyset, no promise row yet
OutputsVerify(O) ==
  /\ O # {}
  /\ \E k \in active : O \subseteq Of(Tokens, k)
  /\ O \cap (stored \cup signed) = {}

\* mutant: the pending table is not consulted
ProofsFreeUnlessSpent(P) == P \cap used = {}

\* _verify_proofs_spendable and _validate_proofs_pending, under one lock
ProofsFree(P) == P \cap used = {} /\ P \cap pending = {}

\* INSERT INTO promises: UNIQUE (b_); the keyset has to be active still
CanStore(O) ==
  /\ O \cap (stored \cup signed) = {}
  /\ \A t \in O : KeysetOf[t] \in active

\* INSERT INTO proofs_used: UNIQUE (y)
CanInvalidate(P) == P \cap used = {}

\* update_blinded_message_signature needs the row, signing an active keyset
CanSign(O) ==
  /\ O \subseteq stored \cup signed
  /\ \A t \in O : KeysetOf[t] \in active

-----------------------------------------------------------------------------
(* The transactions *)

\* _verify_spent_proofs_and_set_pending, past its checks
SetProofsPending(P, q) ==
  /\ ProofsFree(P)
  /\ pending' = pending \cup P
  /\ pendingFor' = Column(pendingFor, P, q)
  /\ balance' = Bumped({}, P)
  /\ told' = Column(told, P, "pending")
  /\ UNCHANGED <<active, promises, spends, feesPaid>>

\* mutant: the balance is not bumped back
UnsetWithoutBump(P) ==
  /\ pending' = pending \ P
  /\ pendingFor' = Column(pendingFor, P, NoQuote)
  /\ UNCHANGED <<active, promises, spends, balance, feesPaid, told>>

\* _unset_proofs_pending: deletes the rows if there are any, bumps the
\* balance whether there were or not, and tells no one unless spent=False
UnsetProofsPending(P) ==
  /\ pending' = pending \ P
  /\ pendingFor' = Column(pendingFor, P, NoQuote)
  /\ balance' = Bumped(P, {})
  /\ UNCHANGED <<active, promises, spends, feesPaid, told>>

\* mutant: fees are rounded down
FeesRoundedDown(P) == [k \in Keysets |-> feesPaid[k] + (Ppk(Of(P, k)) \div 1000)]

\* fees_paid after _invalidate_proofs: a fee per keyset of the inputs
FeesAfter(P) == [k \in Keysets |-> feesPaid[k] + Fee(Of(P, k))]

\* _store_blinded_messages in a transaction of its own
StoreOutputs(O, q) ==
  /\ CanStore(O)
  /\ stored' = stored \cup O
  /\ promiseFor' = Column(promiseFor, O, q)
  /\ UNCHANGED <<active, signed, spends, pendings, balance, feesPaid, told>>

\* _sign_blinded_messages in a transaction of its own
SignOutputs(O) ==
  /\ CanSign(O)
  /\ stored' = stored \ O
  /\ signed' = signed \cup O
  /\ balance' = Bumped(O, {})
  /\ UNCHANGED <<active, promiseFor, spends, pendings, feesPaid, told>>

\* the last step of rotate_next_keyset; the new keyset is active already
DeactivateKeyset(k) ==
  /\ k \in active /\ active # {k}
  /\ active' = active \ {k}
  /\ UNCHANGED <<promises, spends, pendings, balance, feesPaid, told>>
=============================================================================
