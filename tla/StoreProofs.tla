---------------------------- MODULE StoreProofs ----------------------------
(***************************************************************************)
(* Lemmas about the note store that the proofs of every handler use: sums   *)
(* over sets of tokens, and the types of the tables after a transaction.    *)
(***************************************************************************)
EXTENDS NoteStore, TLAPS

-----------------------------------------------------------------------------
(* Lemmas about the sums over sets of tokens *)

\* Taking part of a set of proofs away takes its amount away.
LEMMA ValueMinus ==
  ASSUME NEW S \in SUBSET Tokens, NEW T \in SUBSET S
  PROVE  /\ Value(S \ T) = Value(S) - Value(T)
         /\ Value(S) \in Nat /\ Value(T) \in Nat /\ Value(S \ T) \in Nat
<1>1. T \in SUBSET Tokens /\ S \ T \in SUBSET Tokens
  OBVIOUS
<1>2. (S \ T) \cap T = {} /\ (S \ T) \cup T = S
  OBVIOUS
<1>3. Value((S \ T) \cup T) = Value(S \ T) + Value(T)
  BY <1>1, <1>2, ValueAssumption
<1>4. Value(S) \in Nat /\ Value(T) \in Nat /\ Value(S \ T) \in Nat
  BY <1>1, ValueAssumption
<1>5. QED
  BY <1>2, <1>3, <1>4

\* Adding new tokens adds their amount.
LEMMA ValuePlus ==
  ASSUME NEW S \in SUBSET Tokens, NEW T \in SUBSET Tokens, S \cap T = {}
  PROVE  /\ Value(S \cup T) = Value(S) + Value(T)
         /\ Value(S) \in Nat /\ Value(T) \in Nat
  BY ValueAssumption

\* The part of a set in one keyset follows the set operations.
LEMMA OfSets ==
  ASSUME NEW S, NEW T, NEW k
  PROVE  /\ Of(S \cup T, k) = Of(S, k) \cup Of(T, k)
         /\ Of(S \ T, k) = Of(S, k) \ Of(T, k)
         /\ S \cap T = {} => Of(S, k) \cap Of(T, k) = {}
         /\ T \subseteq S => Of(T, k) \subseteq Of(S, k)
         /\ Of(S, k) \subseteq S
  BY DEF Of

\* The sum per keyset is as additive as the whole sum.
LEMMA OfPlus ==
  ASSUME NEW S \in SUBSET Tokens, NEW T \in SUBSET Tokens, S \cap T = {}, NEW k
  PROVE  /\ Value(Of(S \cup T, k)) = Value(Of(S, k)) + Value(Of(T, k))
         /\ Value(Of(S, k)) \in Nat /\ Value(Of(T, k)) \in Nat
<1>1. Of(S, k) \in SUBSET Tokens /\ Of(T, k) \in SUBSET Tokens
  BY DEF Of
<1>2. Of(S, k) \cap Of(T, k) = {} /\ Of(S \cup T, k) = Of(S, k) \cup Of(T, k)
  BY OfSets
<1>3. QED
  BY <1>1, <1>2, ValuePlus

\* The sum per keyset takes away what is taken away.
LEMMA OfMinus ==
  ASSUME NEW S \in SUBSET Tokens, NEW T \in SUBSET S, NEW k
  PROVE  /\ Value(Of(S \ T, k)) = Value(Of(S, k)) - Value(Of(T, k))
         /\ Value(Of(S, k)) \in Nat /\ Value(Of(T, k)) \in Nat
<1>1. Of(S, k) \in SUBSET Tokens /\ Of(T, k) \in SUBSET Of(S, k)
  BY DEF Of
<1>2. Of(S \ T, k) = Of(S, k) \ Of(T, k)
  BY OfSets
<1>3. QED
  BY <1>1, <1>2, ValueMinus

\* The sum per keyset of a set of tokens is a natural number.
LEMMA OfType ==
  ASSUME NEW S \in SUBSET Tokens, NEW k
  PROVE  Value(Of(S, k)) \in Nat
<1>1. Of(S, k) \in SUBSET Tokens
  BY DEF Of
<1>2. QED
  BY <1>1, ValueAssumption

\* The empty set is worth nothing in any keyset, so a bump by it is none.
LEMMA OfEmpty ==
  ASSUME NEW k
  PROVE  Of({}, k) = {} /\ Value({}) = 0
<1>1. Of({}, k) = {}
  BY DEF Of
<1>2. {} \in SUBSET Tokens /\ {} \cap {} = {} /\ {} \cup {} = {}
  OBVIOUS
<1>3. Value({}) = Value({}) + Value({}) /\ Value({}) \in Nat
  BY <1>2, ValueAssumption
<1>4. \A n \in Nat : n = n + n => n = 0
  OBVIOUS
<1>5. QED
  BY <1>1, <1>3, <1>4, Zenon

\* What bump_keyset_balance does to one keyset.
LEMMA BumpedBy ==
  ASSUME balance \in [Keysets -> Int],
         NEW In \in SUBSET Tokens, NEW Out \in SUBSET Tokens,
         balance' = Bumped(In, Out)
  PROVE  /\ balance' \in [Keysets -> Int]
         /\ \A k \in Keysets :
              /\ balance'[k] = balance[k] + Value(Of(In, k)) - Value(Of(Out, k))
              /\ Value(Of(In, k)) \in Nat /\ Value(Of(Out, k)) \in Nat
<1>1. ASSUME NEW k \in Keysets
      PROVE  Value(Of(In, k)) \in Nat /\ Value(Of(Out, k)) \in Nat
  <2>1. In \in SUBSET In /\ Out \in SUBSET Out
    OBVIOUS
  <2>2. QED
    BY <2>1, OfMinus
<1>2. QED
  BY <1>1 DEF Bumped

\* A fee is a natural number.
LEMMA FeeType ==
  ASSUME NEW P \in SUBSET Tokens
  PROVE  Fee(P) \in Nat
<1>1. Ppk(P) \in Nat
  BY PpkAssumption
<1>2. QED
  BY <1>1 DEF Fee

-----------------------------------------------------------------------------
(* The types and constraints of the tables *)

\* The tables after the migration of m027.
LEMMA StoreInitTypeOK == StoreInit => StoreTypeOK
<1>1. Genesis \in SUBSET Tokens
  BY TokensAssumption
<1>2. \A k \in Keysets : Value(Of(Genesis, k)) \in Nat
  BY <1>1, OfType
<1>3. QED
  BY <1>1, <1>2, TokensAssumption DEF StoreInit, StoreTypeOK, Quotes

\* A step of another component leaves the tables alone.
LEMMA StoreUnchangedTypeOK ==
  ASSUME StoreTypeOK, UNCHANGED storeVars
  PROVE  StoreTypeOK'
BY DEF StoreTypeOK, storeVars, promises, spends, pendings, Quotes

\* _store_blinded_messages keeps stored and signed apart: UNIQUE (b_).
LEMMA StoreOutputsTypeOK ==
  ASSUME StoreTypeOK, NEW O \in SUBSET Tokens, NEW q \in Quotes, StoreOutputs(O, q)
  PROVE  StoreTypeOK'
<1>1. O \cap (stored \cup signed) = {}
  BY DEF StoreOutputs, CanStore
<1>2. promiseFor' \in [Tokens -> Quotes]
  BY DEF StoreTypeOK, StoreOutputs, Column
<1>3. QED
  BY <1>1, <1>2 DEF StoreTypeOK, StoreOutputs, spends, pendings, Quotes

\* _sign_blinded_messages moves rows from stored to signed.
LEMMA SignOutputsTypeOK ==
  ASSUME StoreTypeOK, NEW O \in SUBSET Tokens, SignOutputs(O)
  PROVE  StoreTypeOK'
<1>1. balance' \in [Keysets -> Int]
  <2>1. {} \in SUBSET Tokens
    OBVIOUS
  <2>2. balance \in [Keysets -> Int] /\ balance' = Bumped(O, {})
    BY DEF StoreTypeOK, SignOutputs
  <2>3. QED
    BY <2>1, <2>2, BumpedBy
<1>2. QED
  BY <1>1 DEF StoreTypeOK, SignOutputs, spends, pendings, Quotes

\* rotate_next_keyset only takes keysets out of the active ones.
LEMMA DeactivateTypeOK ==
  ASSUME StoreTypeOK, NEW k \in Keysets, DeactivateKeyset(k)
  PROVE  StoreTypeOK'
BY DEF StoreTypeOK, DeactivateKeyset, promises, spends, pendings, Quotes
=============================================================================
