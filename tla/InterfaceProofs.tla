-------------------------- MODULE InterfaceProofs ---------------------------
(***************************************************************************)
(* Proofs about the keysets of the mint and the interfaces of its clients: *)
(* the HTTP routes, blind auth, and subscriptions.                         *)
(***************************************************************************)
EXTENDS Keysets, Api, BlindAuth, Events, FiniteSetTheorems, SequenceTheorems,
        WellFoundedInduction, TLAPS

-----------------------------------------------------------------------------
(***************************************************************************)
(* Keysets: a keyset with signatures in circulation stays in the table and *)
(* in the memory of a running mint, and the wallet uses one that is        *)
(* active, for any number of rotations, melts, counters and crashes.       *)
(***************************************************************************)

(* The inductive invariant *)

\* A rotation that has stored its new keyset has stored one of the table.
RotationsAreStored ==
  \A r \in Rotations :
    /\ rotation[r].step # "idle" => rotation[r].old \in Counters /\ rotation[r].new \in Counters
    /\ rotation[r].step \in {"stored", "retiring"} => rotation[r].new \in Stored

RotationStates ==
  [step : {"idle", "selected", "stored", "retiring"},
   old : Counters \cup {NoKeyset}, new : Counters \cup {NoKeyset}]

KeysetsTypeOK ==
  /\ configured \in {NoKeyset, 0}
  /\ keysTable \in [Counters -> {"none", "active", "inactive"}]
  /\ keysHeld \in Seq(Counters)
  /\ rotation \in [Rotations -> RotationStates]

\* The memory of the mint is part of the table.
MemoryIsStored == Range(keysHeld) \subseteq Stored /\ keysOn \subseteq Range(keysHeld)

KeysetsIInv == KeysetsTypeOK /\ RotationsAreStored /\ MemoryIsStored /\ SignedStaysRedeemable

-----------------------------------------------------------------------------
(* Sequences of keysets *)

\* An enumeration of a finite set has all its elements.
LEMMA EnumerationIsComplete ==
  ASSUME NEW S, IsFiniteSet(S), NEW held \in SetToSeqs(S)
  PROVE  held \in Seq(S) /\ Range(held) = S
<1> DEFINE D == 1 .. Cardinality(S)
<1>1. Cardinality(S) \in Nat
  BY FS_CardinalityType
<1>2. held \in [D -> S] /\ \A i, j \in D : i # j => held[i] # held[j]
  BY DEF SetToSeqs
<1>3. held \in Injection(D, S)
  BY <1>2 DEF Injection, IsInjective
<1>4. IsFiniteSet(D) /\ Cardinality(D) = Cardinality(S)
  BY <1>1, FS_Interval
<1>5. held \in Surjection(D, S)
  BY <1>3, <1>4, FS_Injection
<1>6. Range(held) = S
  BY <1>2, <1>5 DEF Surjection, Range
<1>7. held \in Seq(S)
  BY <1>1, <1>2
<1>8. QED
  BY <1>6, <1>7

\* One more keyset in memory.
LEMMA RangeOfAppend ==
  ASSUME NEW S, NEW held \in Seq(S), NEW k \in S
  PROVE  Append(held, k) \in Seq(S) /\ Range(Append(held, k)) = Range(held) \cup {k}
<1>1. /\ Append(held, k) \in Seq(S)
      /\ Len(Append(held, k)) = Len(held) + 1 /\ Len(held) \in Nat
      /\ \A i \in 1 .. Len(held) : Append(held, k)[i] = held[i]
      /\ Append(held, k)[Len(held) + 1] = k
  OBVIOUS
<1>2. DOMAIN Append(held, k) = 1 .. Len(held) + 1 /\ DOMAIN held = 1 .. Len(held)
  BY <1>1
<1>3. Range(Append(held, k)) \subseteq Range(held) \cup {k}
  BY <1>1, <1>2 DEF Range
<1>4. Range(held) \subseteq Range(Append(held, k))
  BY <1>1, <1>2 DEF Range
<1>5. k \in Range(Append(held, k))
  BY <1>1, <1>2 DEF Range
<1>6. QED
  BY <1>1, <1>3, <1>4, <1>5

\* There are finitely many keysets.
LEMMA StoredIsFinite == IsFiniteSet(Stored) /\ Stored \subseteq Counters
<1>1. IsFiniteSet(Counters)
  BY KeysetsAssumption, FS_Interval DEF Counters
<1>2. QED
  BY <1>1, FS_Subset DEF Stored

\* The last of some keysets is one of those in memory.
LEMMA LastIsHeld ==
  ASSUME NEW held, NEW ks, NEW k \in LastOf(held, ks)
  PROVE  k \in ks /\ k \in Range(held)
BY DEF LastOf, Range

-----------------------------------------------------------------------------
(* The steps *)

\* The mint starts, with the whole table in memory.
LEMMA MintStarts ==
  ASSUME KeysetsIInv, InitKeysets
  PROVE  KeysetsIInv'
<1> USE DEF KeysetsIInv
<1>1. /\ UNCHANGED <<configured, rotation, change, signedWith>> /\ mintUp'
  BY DEF InitKeysets
<1> DEFINE on == {k \in Stored : keysTable[k] = "active"}
<1>2. PICK held \in SetToSeqs(Stored) :
        IF configured = NoKeyset
        THEN keysHeld' = held /\ keysOn' = on /\ UNCHANGED keysTable
        ELSE \E path \in MaybeUpdateDerivationPath(held, on) :
               /\ keysHeld' = IF path \in Stored THEN held ELSE Append(held, path)
               /\ keysOn' = on \cup {path}
               /\ keysTable' = IF path \in Stored THEN keysTable
                               ELSE [keysTable EXCEPT ![path] = "active"]
  BY DEF InitKeysets
<1>3. held \in Seq(Stored) /\ Range(held) = Stored /\ held \in Seq(Counters)
  BY EnumerationIsComplete, StoredIsFinite
<1>4. KeysetsTypeOK' /\ Stored \subseteq Stored' /\ Range(keysHeld') = Stored'
        /\ keysOn' \subseteq Stored'
  <2>1. CASE UNCHANGED keysTable /\ keysHeld' = held /\ keysOn' \subseteq Stored
    BY <1>1, <1>3, <2>1 DEF KeysetsTypeOK, Stored
  <2>2. CASE configured # NoKeyset
    <3>1. PICK path \in MaybeUpdateDerivationPath(held, on) :
            /\ keysHeld' = IF path \in Stored THEN held ELSE Append(held, path)
            /\ keysOn' = on \cup {path}
            /\ keysTable' = IF path \in Stored THEN keysTable
                            ELSE [keysTable EXCEPT ![path] = "active"]
      BY <1>2, <2>2
    <3>2. path \in Counters
      <4>1. path = configured \/ path \in on
        BY LastIsHeld DEF MaybeUpdateDerivationPath
      <4>2. configured \in Counters
        BY <2>2, KeysetsAssumption DEF KeysetsTypeOK, Counters
      <4>3. QED
        BY <4>1, <4>2, StoredIsFinite
    <3>3. CASE path \in Stored
      BY <2>1, <3>1, <3>3
    <3>4. CASE path \notin Stored
      <4>1. keysTable' \in [Counters -> {"none", "active", "inactive"}] /\ Stored' = Stored \cup {path}
        BY <3>1, <3>2, <3>4 DEF KeysetsTypeOK, Stored
      <4>2. keysHeld' \in Seq(Counters) /\ Range(keysHeld') = Stored \cup {path}
        BY <1>3, <3>1, <3>2, <3>4, RangeOfAppend
      <4>3. QED
        BY <1>1, <3>1, <4>1, <4>2 DEF KeysetsTypeOK
    <3>5. QED
      BY <3>3, <3>4
  <2>3. QED
    BY <1>2, <2>1, <2>2
<1>5. QED
  BY <1>1, <1>4 DEF RotationsAreStored, MemoryIsStored, SignedStaysRedeemable

\* The mint dies: its memory is gone, the table is not.
LEMMA MintStops ==
  ASSUME KeysetsIInv, MintDies
  PROVE  KeysetsIInv'
<1>1. /\ UNCHANGED <<configured, keysTable, signedWith>> /\ ~mintUp'
      /\ keysHeld' = <<>> /\ keysOn' = {} /\ rotation' = [r \in Rotations |-> Idle]
  BY DEF MintDies
<1>2. Range(keysHeld') = {}
  BY <1>1 DEF Range
<1>3. Idle \in RotationStates /\ Idle.step = "idle"
  BY DEF Idle, RotationStates
<1>4. QED
  BY <1>1, <1>2, <1>3
     DEF KeysetsIInv, KeysetsTypeOK, RotationsAreStored, MemoryIsStored, SignedStaysRedeemable, Stored

\* A rotation, at any of its steps.
LEMMA RotationSteps ==
  ASSUME KeysetsIInv, NEW r \in Rotations,
         RotateNextKeyset(r) \/ StoreKeyset(r) \/ SwitchKeyset(r) \/ UpdateKeyset(r)
  PROVE  KeysetsIInv'
<1> USE DEF KeysetsIInv
<1>1. CASE RotateNextKeyset(r)
  <2>1. PICK selected \in SelectedForRotation :
          /\ selected < LastCounter
          /\ rotation' = [rotation EXCEPT ![r] =
                            [step |-> "selected", old |-> selected, new |-> selected + 1]]
    BY <1>1 DEF RotateNextKeyset
  <2>2. selected \in Counters /\ selected + 1 \in Counters
    <3>1. selected \in Range(keysHeld)
      BY LastIsHeld DEF SelectedForRotation
    <3>2. selected \in Counters
      BY <3>1, StoredIsFinite DEF MemoryIsStored
    <3>3. QED
      BY <2>1, <3>2, KeysetsAssumption DEF Counters
  <2>3. UNCHANGED <<configured, keysTable, keysHeld, keysOn, mintUp, signedWith>>
    BY <1>1 DEF RotateNextKeyset
  <2>4. QED
    BY <2>1, <2>2, <2>3 DEF KeysetsTypeOK, RotationsAreStored, MemoryIsStored,
                            RotationStates, SignedStaysRedeemable, Stored
<1>2. CASE StoreKeyset(r)
  <2>1. /\ UNCHANGED <<configured, keysHeld, keysOn, mintUp, signedWith>>
        /\ rotation[r].new \in Counters /\ rotation[r].old \in Counters
    BY <1>2 DEF StoreKeyset, RotationsAreStored
  <2>2. CASE rotation[r].new \in Stored
    <3>1. rotation' = [rotation EXCEPT ![r] = Idle] /\ UNCHANGED keysTable
      BY <1>2, <2>2 DEF StoreKeyset
    <3>2. QED
      BY <2>1, <3>1 DEF KeysetsTypeOK, RotationsAreStored, MemoryIsStored,
                        RotationStates, SignedStaysRedeemable, Stored, Idle
  <2>3. CASE rotation[r].new \notin Stored
    <3>1. /\ keysTable' = [keysTable EXCEPT ![rotation[r].new] = "active"]
          /\ Proceeds(r, "stored")
      BY <1>2, <2>3 DEF StoreKeyset
    <3>2. /\ keysTable' \in [Counters -> {"none", "active", "inactive"}]
          /\ Stored' = Stored \cup {rotation[r].new}
      BY <2>1, <3>1 DEF KeysetsTypeOK, Stored
    <3>3. KeysetsTypeOK'
      BY <2>1, <3>1, <3>2 DEF KeysetsTypeOK, RotationStates, Proceeds
    <3>4. RotationsAreStored'
      BY <2>1, <3>1, <3>2 DEF KeysetsTypeOK, RotationStates, RotationsAreStored, Proceeds
    <3>5. QED
      BY <2>1, <3>2, <3>3, <3>4 DEF MemoryIsStored, SignedStaysRedeemable
  <2>4. QED
    BY <2>2, <2>3
<1>3. CASE SwitchKeyset(r)
  <2>1. /\ UNCHANGED <<configured, keysTable, mintUp, signedWith>>
        /\ keysHeld' = Append(keysHeld, rotation[r].new)
        /\ keysOn' \subseteq keysOn \cup {rotation[r].new}
        /\ Proceeds(r, "retiring")
        /\ rotation[r].new \in Stored /\ rotation[r].new \in Counters
        /\ rotation[r].old \in Counters
    BY <1>3 DEF SwitchKeyset, RotationsAreStored
  <2>2. /\ keysHeld' \in Seq(Counters)
        /\ Range(keysHeld') = Range(keysHeld) \cup {rotation[r].new}
    BY <2>1, RangeOfAppend DEF KeysetsTypeOK
  <2>3. Stored' = Stored
    BY <2>1 DEF Stored
  <2>4. KeysetsTypeOK' /\ RotationsAreStored'
    BY <2>1, <2>2, <2>3 DEF KeysetsTypeOK, RotationStates, RotationsAreStored, Proceeds
  <2>5. QED
    BY <2>1, <2>2, <2>3, <2>4 DEF MemoryIsStored, SignedStaysRedeemable
<1>4. CASE UpdateKeyset(r)
  <2>1. /\ UNCHANGED <<configured, keysHeld, keysOn, mintUp, signedWith>>
        /\ keysTable' = [keysTable EXCEPT ![rotation[r].old] = "inactive"]
        /\ rotation' = [rotation EXCEPT ![r] = Idle]
    BY <1>4 DEF UpdateKeyset
  <2>2. /\ keysTable' \in [Counters -> {"none", "active", "inactive"}]
        /\ Stored \subseteq Stored'
    BY <2>1 DEF KeysetsTypeOK, Stored
  <2>3. KeysetsTypeOK' /\ RotationsAreStored'
    BY <2>1, <2>2 DEF KeysetsTypeOK, RotationStates, RotationsAreStored, Idle
  <2>4. QED
    BY <2>1, <2>2, <2>3 DEF MemoryIsStored, SignedStaysRedeemable
<1>5. QED
  BY <1>1, <1>2, <1>3, <1>4

\* A melt signs with an active keyset; the wallet signs nothing.
LEMMA OtherSteps ==
  ASSUME KeysetsIInv,
         \/ \E m \in Melts : StoreChangeOutputs(m) \/ SignChange(m)
         \/ AskKeysets \/ AskKeys \/ AskKeyset \/ ActivateKeyset \/ LoadFails
  PROVE  KeysetsIInv'
<1>1. CASE \E m \in Melts : SignChange(m)
  <2>1. PICK m \in Melts : SignChange(m)
    BY <1>1
  <2>2. UNCHANGED mintSide
    BY <2>1 DEF SignChange
  <2>3. \/ signedWith' = signedWith
        \/ mintUp /\ change[m].keyset \in keysOn
           /\ signedWith' = signedWith \cup {change[m].keyset}
    BY <2>1, Zenon DEF SignChange
  <2>4. QED
    BY <2>2, <2>3 DEF mintSide, KeysetsIInv, KeysetsTypeOK, RotationsAreStored, MemoryIsStored,
                      SignedStaysRedeemable, Stored
<1>2. CASE \/ \E m \in Melts : StoreChangeOutputs(m)
           \/ AskKeysets \/ AskKeys \/ AskKeyset \/ ActivateKeyset \/ LoadFails
  <2>1. UNCHANGED mintSide /\ signedWith' = signedWith
    BY <1>2, Zenon
       DEF StoreChangeOutputs, AskKeysets, AskKeys, AskKeyset, ActivateKeyset, LoadFails
  <2>2. QED
    BY <2>1 DEF mintSide, KeysetsIInv, KeysetsTypeOK, RotationsAreStored, MemoryIsStored,
                SignedStaysRedeemable, Stored
<1>3. QED
  BY <1>1, <1>2

-----------------------------------------------------------------------------
\* The inductive invariant of the keysets.
THEOREM KeysetsInvariant == KeysetsSpec => []KeysetsIInv
<1>1. KeysetsInit => KeysetsIInv
  <2> SUFFICES ASSUME KeysetsInit PROVE KeysetsIInv
    OBVIOUS
  <2>1. Range(keysHeld) = {} /\ keysHeld \in Seq(Counters)
    BY DEF KeysetsInit, Range
  <2>2. QED
    BY <2>1 DEF KeysetsInit, KeysetsIInv, KeysetsTypeOK, RotationsAreStored, MemoryIsStored,
                SignedStaysRedeemable, RotationStates, Idle
<1>2. KeysetsIInv /\ [KeysetsNext]_keysetVars => KeysetsIInv'
  <2> SUFFICES ASSUME KeysetsIInv, [KeysetsNext]_keysetVars
               PROVE  KeysetsIInv'
    OBVIOUS
  <2>1. CASE KeysetsNext
    BY <2>1, MintStarts, MintStops, RotationSteps, OtherSteps DEF KeysetsNext
  <2>2. CASE UNCHANGED keysetVars
    BY <2>2 DEF keysetVars, KeysetsIInv, KeysetsTypeOK, RotationsAreStored, MemoryIsStored,
                SignedStaysRedeemable, Stored
  <2>3. QED
    BY <2>1, <2>2
<1>3. QED
  BY <1>1, <1>2, PTL DEF KeysetsSpec

\* What was signed with a keyset can be redeemed after every rotation and every
\* start: the INSERT of a keyset comes before its use, and init_keysets loads
\* all rows (rotate_next_keyset, init_keysets).
THEOREM KeysetsStayRedeemable == KeysetsSpec => []SignedStaysRedeemable
BY KeysetsInvariant, PTL DEF KeysetsIInv

-----------------------------------------------------------------------------
(* The wallet follows the rotation *)

LoadStates ==
  [step : {"none", "empty", "some"}, held : Seq(Counters), on : SUBSET Counters]

\* What the mint will have in memory, now or after its next start: it never
\* shrinks.
Remembered == IF mintUp THEN Range(keysHeld) ELSE Stored

\* A keyset is retired for its successor, which is in memory by then; so the
\* last keyset in memory is active.
RetiredHasSuccessor ==
  /\ \A r \in Rotations :
       /\ rotation[r].step # "idle" => rotation[r].new = rotation[r].old + 1
       /\ rotation[r].step = "retiring" => rotation[r].new \in Range(keysHeld)
  /\ \A k \in Range(keysHeld) \ keysOn : k + 1 \in Range(keysHeld)
  /\ \A k \in Counters : keysTable[k] = "inactive" => k + 1 \in Remembered

\* The answer to GET /v1/keysets was the mint's memory, and has all that the
\* wallet knows.
AnswerIsComplete ==
  loading.step # "none" =>
    /\ loading.held # <<>> /\ Range(loading.held) \subseteq Remembered
    /\ loading.on \subseteq Range(loading.held)
    /\ \A k \in Range(loading.held) \ loading.on : k + 1 \in Range(loading.held)
    /\ \A k \in Counters :
         /\ walletKeys[k] # "none" => k \in Range(loading.held)
         /\ walletKeys[k] = "inactive" => k + 1 \in Range(loading.held)

\* What the wallet knows, the mint remembers.
WalletIsInformed ==
  \A k \in Counters :
    /\ walletKeys[k] # "none" => k \in Remembered
    /\ walletKeys[k] = "inactive" => k + 1 \in Remembered

WalletTypeOK ==
  /\ walletKeys \in [Counters -> {"none", "active", "inactive"}]
  /\ loading \in LoadStates

FollowIInv ==
  /\ WalletTypeOK /\ RetiredHasSuccessor /\ AnswerIsComplete /\ WalletIsInformed
  /\ WalletFollowsRotation

\* The last of some counters.
LEMMA LastCounterOf ==
  ASSUME NEW ks \in SUBSET Counters, ks # {}
  PROVE  \E k \in ks : k + 1 \notin ks
<1> SUFFICES ASSUME \A k \in ks : k + 1 \in ks
             PROVE  FALSE
  OBVIOUS
<1> DEFINE T == {LastCounter - k : k \in ks}
<1>1. T \subseteq Nat /\ T # {}
  <2>1. \A k \in Counters : LastCounter - k \in Nat
    BY KeysetsAssumption DEF Counters
  <2>2. QED
    BY <2>1
<1>2. PICK n \in T : \A m \in T : <<m, n>> \notin OpToRel(<, Nat)
  BY <1>1, WFMin, NatLessThanWellFounded
<1>3. PICK k \in ks : n = LastCounter - k
  OBVIOUS
<1>4. k + 1 \in ks /\ LastCounter - (k + 1) \in T
  OBVIOUS
<1>5. LastCounter - (k + 1) \in Nat /\ n \in Nat /\ LastCounter - (k + 1) < n
  BY <1>1, <1>3, <1>4, KeysetsAssumption DEF Counters
<1>6. <<LastCounter - (k + 1), n>> \in OpToRel(<, Nat)
  BY <1>5 DEF OpToRel
<1>7. QED
  BY <1>2, <1>4, <1>6

\* The steps of the mint.
LEMMA MemoryNeverShrinks ==
  ASSUME KeysetsIInv, KeysetsIInv', RetiredHasSuccessor,
         \/ InitKeysets \/ MintDies
         \/ \E r \in Rotations :
              RotateNextKeyset(r) \/ StoreKeyset(r) \/ SwitchKeyset(r) \/ UpdateKeyset(r)
  PROVE  Remembered \subseteq Remembered' /\ RetiredHasSuccessor'
<1> USE DEF KeysetsIInv
<1> DEFINE on == {k \in Stored : keysTable[k] = "active"}
<1>1. CASE InitKeysets
  <2>1. /\ ~mintUp /\ mintUp' /\ UNCHANGED rotation
    BY <1>1 DEF InitKeysets
  <2>2. PICK held \in SetToSeqs(Stored) :
        IF configured = NoKeyset
        THEN keysHeld' = held /\ keysOn' = on /\ UNCHANGED keysTable
        ELSE \E path \in MaybeUpdateDerivationPath(held, on) :
               /\ keysHeld' = IF path \in Stored THEN held ELSE Append(held, path)
               /\ keysOn' = on \cup {path}
               /\ keysTable' = IF path \in Stored THEN keysTable
                               ELSE [keysTable EXCEPT ![path] = "active"]
    BY <1>1 DEF InitKeysets
  <2>3. held \in Seq(Stored) /\ Range(held) = Stored /\ held \in Seq(Counters)
    BY EnumerationIsComplete, StoredIsFinite
  <2>4. PICK path : path \in Counters \cup {NoKeyset}
                    /\ Range(keysHeld') = Stored \cup ({path} \cap Counters)
                    /\ on \subseteq keysOn' /\ {path} \cap Counters \subseteq keysOn'
                    /\ \A k \in Counters : keysTable'[k] = "inactive" => keysTable[k] = "inactive"
    <3>1. CASE configured = NoKeyset
      BY <2>2, <2>3, <3>1, KeysetsAssumption DEF Counters
    <3>2. CASE configured # NoKeyset
      <4>1. PICK path \in MaybeUpdateDerivationPath(held, on) :
               /\ keysHeld' = IF path \in Stored THEN held ELSE Append(held, path)
               /\ keysOn' = on \cup {path}
               /\ keysTable' = IF path \in Stored THEN keysTable
                               ELSE [keysTable EXCEPT ![path] = "active"]
        BY <2>2, <3>2
      <4>2. path \in Counters
        <5>1. path = configured \/ path \in on
          BY LastIsHeld DEF MaybeUpdateDerivationPath
        <5>2. configured \in Counters
          BY <3>2, KeysetsAssumption DEF KeysetsTypeOK, Counters
        <5>3. QED
          BY <5>1, <5>2, StoredIsFinite
      <4>3. Range(keysHeld') = Stored \cup {path}
        BY <2>3, <4>1, <4>2, RangeOfAppend
      <4>4. \A k \in Counters : keysTable'[k] = "inactive" => keysTable[k] = "inactive"
        BY <4>1, <4>2 DEF KeysetsTypeOK
      <4>5. QED
        BY <4>1, <4>2, <4>3, <4>4
    <3>3. QED
      BY <3>1, <3>2
  <2>5. Remembered = Stored /\ Remembered' = Range(keysHeld') /\ Remembered \subseteq Remembered'
    BY <2>1, <2>4 DEF Remembered
  <2>6. \A k \in Range(keysHeld') \ keysOn' : k \in Counters /\ keysTable[k] = "inactive"
    BY <2>4, StoredIsFinite DEF KeysetsTypeOK, Stored
  <2>7. QED
    BY <2>1, <2>4, <2>5, <2>6 DEF RetiredHasSuccessor, RotationsAreStored
<1>2. CASE MintDies
  <2>1. /\ UNCHANGED keysTable /\ mintUp /\ ~mintUp'
        /\ keysHeld' = <<>> /\ keysOn' = {} /\ rotation' = [r \in Rotations |-> Idle]
    BY <1>2 DEF MintDies
  <2>2. Range(keysHeld') = {}
    BY <2>1 DEF Range
  <2>3. Remembered \subseteq Remembered'
    BY <2>1 DEF Remembered, MemoryIsStored, Stored
  <2>4. QED
    BY <2>1, <2>2, <2>3 DEF RetiredHasSuccessor, Idle
<1>3. ASSUME NEW r \in Rotations, RotateNextKeyset(r)
      PROVE  Remembered \subseteq Remembered' /\ RetiredHasSuccessor'
  <2>1. PICK selected \in SelectedForRotation :
          rotation' = [rotation EXCEPT ![r] =
                            [step |-> "selected", old |-> selected, new |-> selected + 1]]
    BY <1>3 DEF RotateNextKeyset
  <2>2. UNCHANGED <<keysTable, keysHeld, keysOn, mintUp>>
    BY <1>3 DEF RotateNextKeyset
  <2>3. QED
    BY <2>1, <2>2 DEF RetiredHasSuccessor, Remembered, Stored, KeysetsTypeOK
<1>4. ASSUME NEW r \in Rotations, StoreKeyset(r)
      PROVE  Remembered \subseteq Remembered' /\ RetiredHasSuccessor'
  <2>1. /\ UNCHANGED <<keysHeld, keysOn, mintUp>>
        /\ rotation[r].new \in Counters /\ rotation[r].step = "selected"
        /\ \/ rotation' = [rotation EXCEPT ![r] = Idle] /\ UNCHANGED keysTable
           \/ /\ Proceeds(r, "stored")
              /\ keysTable' = [keysTable EXCEPT ![rotation[r].new] = "active"]
    BY <1>4 DEF StoreKeyset, RotationsAreStored
  <2>2. /\ Stored \subseteq Stored'
        /\ \A k \in Counters : keysTable'[k] = "inactive" => keysTable[k] = "inactive"
    BY <2>1 DEF Stored, KeysetsTypeOK
  <2>3. Remembered \subseteq Remembered'
    BY <2>1, <2>2 DEF Remembered
  <2>4. QED
    BY <2>1, <2>2, <2>3 DEF RetiredHasSuccessor, KeysetsTypeOK, Proceeds, Idle
<1>5. ASSUME NEW r \in Rotations, SwitchKeyset(r)
      PROVE  Remembered \subseteq Remembered' /\ RetiredHasSuccessor'
  <2>1. /\ UNCHANGED <<keysTable, mintUp>>
        /\ keysHeld' = Append(keysHeld, rotation[r].new)
        /\ keysOn' = (keysOn \cup {rotation[r].new}) \ {rotation[r].old}
        /\ Proceeds(r, "retiring") /\ rotation[r].step = "stored"
        /\ rotation[r].new \in Counters /\ rotation[r].new = rotation[r].old + 1
    BY <1>5 DEF SwitchKeyset, RotationsAreStored, RetiredHasSuccessor
  <2>2. Range(keysHeld') = Range(keysHeld) \cup {rotation[r].new}
    BY <2>1, RangeOfAppend DEF KeysetsTypeOK
  <2>3. Remembered \subseteq Remembered'
    BY <2>1, <2>2 DEF Remembered, Stored
  <2>4. QED
    BY <2>1, <2>2, <2>3 DEF RetiredHasSuccessor, KeysetsTypeOK, Proceeds
<1>6. ASSUME NEW r \in Rotations, UpdateKeyset(r)
      PROVE  Remembered \subseteq Remembered' /\ RetiredHasSuccessor'
  <2>1. /\ UNCHANGED <<keysHeld, keysOn, mintUp>>
        /\ keysTable' = [keysTable EXCEPT ![rotation[r].old] = "inactive"]
        /\ rotation' = [rotation EXCEPT ![r] = Idle]
        /\ rotation[r].old \in Counters /\ rotation[r].old + 1 \in Range(keysHeld)
    BY <1>6 DEF UpdateKeyset, RotationsAreStored, RetiredHasSuccessor
  <2>2. /\ Stored \subseteq Stored'
        /\ \A k \in Counters : keysTable'[k] = "inactive" =>
             k = rotation[r].old \/ keysTable[k] = "inactive"
    BY <2>1 DEF Stored, KeysetsTypeOK
  <2>3. Remembered \subseteq Remembered' /\ Range(keysHeld) \subseteq Remembered'
    BY <2>1, <2>2 DEF Remembered, MemoryIsStored
  <2>4. QED
    BY <2>1, <2>2, <2>3 DEF RetiredHasSuccessor, KeysetsTypeOK, Idle
<1>7. QED
  BY <1>1, <1>2, <1>3, <1>4, <1>5, <1>6

\* The wallet stores keysets of the answer, with its flags.
LEMMA KeysAreStored ==
  ASSUME KeysetsIInv, FollowIInv, loading.step # "none",
         NEW got, got \subseteq Range(loading.held),
         walletKeys' \in [Counters -> {"none", "active", "inactive"}],
         \A k \in Counters : walletKeys'[k] = IF k \in got THEN Flag(k) ELSE walletKeys[k],
         UNCHANGED <<mintSide, walletKeyset, asOf>>,
         loading' = loading \/ loading' = NoLoad \/ loading' = [loading EXCEPT !.step = "some"]
  PROVE  FollowIInv'
<1> USE DEF FollowIInv
<1>1. Remembered' = Remembered /\ RetiredHasSuccessor' /\ WalletFollowsRotation'
  BY DEF mintSide, Remembered, Stored, RetiredHasSuccessor, WalletFollowsRotation
<1>2. WalletTypeOK'
  <2>1. NoLoad \in LoadStates
    BY DEF NoLoad, LoadStates
  <2>2. QED
    BY <2>1 DEF WalletTypeOK, LoadStates
<1>3. \A k \in Counters :
        /\ walletKeys'[k] # "none" => walletKeys[k] # "none" \/ k \in Range(loading.held)
        /\ walletKeys'[k] = "inactive" =>
             walletKeys[k] = "inactive" \/ k \in Range(loading.held) \ loading.on
  BY DEF Flag
<1>4. WalletIsInformed'
  BY <1>1, <1>3 DEF WalletIsInformed, AnswerIsComplete
<1>5. loading'.step # "none" => loading'.held = loading.held /\ loading'.on = loading.on
  BY DEF WalletTypeOK, LoadStates, NoLoad
<1>6. AnswerIsComplete'
  BY <1>1, <1>3, <1>5 DEF AnswerIsComplete
<1>7. QED
  BY <1>1, <1>2, <1>4, <1>6

\* load_mint, request by request.
LEMMA WalletSteps ==
  ASSUME KeysetsIInv, FollowIInv, AskKeysets \/ AskKeys \/ AskKeyset \/ ActivateKeyset \/ LoadFails
  PROVE  FollowIInv'
<1> USE DEF FollowIInv
<1>1. UNCHANGED mintSide
  BY DEF AskKeysets, AskKeys, AskKeyset, ActivateKeyset, LoadFails
<1>2. Remembered' = Remembered /\ RetiredHasSuccessor'
  BY <1>1 DEF mintSide, Remembered, Stored, RetiredHasSuccessor
<1>3. CASE AskKeysets
  <2>1. /\ mintUp /\ keysHeld # <<>> /\ UNCHANGED <<walletKeys, walletKeyset, asOf>>
        /\ loading' = [step |-> IF \A k \in Counters : walletKeys[k] = "none" THEN "empty" ELSE "some",
                       held |-> keysHeld, on |-> keysOn]
    BY <1>3 DEF AskKeysets, KeysetsServed
  <2>2. WalletTypeOK'
    BY <2>1, StoredIsFinite
       DEF WalletTypeOK, LoadStates, KeysetsIInv, KeysetsTypeOK, MemoryIsStored
  <2>3. Remembered = Range(keysHeld)
    BY <2>1 DEF Remembered
  <2>4. AnswerIsComplete'
    BY <1>2, <2>1, <2>3
       DEF AnswerIsComplete, WalletIsInformed, RetiredHasSuccessor, KeysetsIInv, MemoryIsStored
  <2>5. WalletIsInformed' /\ WalletFollowsRotation'
    BY <1>2, <2>1 DEF WalletIsInformed, WalletFollowsRotation
  <2>6. QED
    BY <1>2, <2>2, <2>4, <2>5
<1>4. CASE AskKeys
  <2> DEFINE news  == {i \in 1 .. Len(KeysServed) : KeysServed[i] \notin Range(loading.held)}
             known == {i \in 1 .. Len(KeysServed) : \A j \in news : i < j}
             got   == {KeysServed[i] : i \in known}
  <2>1. /\ walletKeys' = [k \in Counters |-> IF k \in got THEN Flag(k) ELSE walletKeys[k]]
        /\ UNCHANGED <<walletKeyset, asOf>> /\ loading.step # "none"
        /\ loading' = NoLoad \/ loading' = [loading EXCEPT !.step = "some"]
    BY <1>4 DEF AskKeys, LoadStep
  <2>2. got \subseteq Range(loading.held)
    <3>1. ASSUME NEW i \in known, i \in news
          PROVE  FALSE
      <4>1. i < i
        BY <3>1
      <4>2. QED
        BY <4>1
    <3>2. QED
      BY <3>1
  <2>3. walletKeys' \in [Counters -> {"none", "active", "inactive"}]
    BY <2>1 DEF Flag, WalletTypeOK
  <2>4. QED
    BY <1>1, <2>1, <2>2, <2>3, KeysAreStored
<1>5. CASE AskKeyset
  <2>1. /\ loading.step # "none" /\ UNCHANGED <<walletKeyset, loading, asOf>>
    BY <1>5 DEF AskKeyset
  <2>2. PICK i \in UnknownKeysets :
          walletKeys' = [walletKeys EXCEPT ![loading.held[i]] = Flag(loading.held[i])]
    BY <1>5 DEF AskKeyset
  <2>3. loading.held[i] \in Range(loading.held) /\ loading.held[i] \in Counters
    BY <2>2 DEF UnknownKeysets, Range, WalletTypeOK, LoadStates
  <2>4. walletKeys' \in [Counters -> {"none", "active", "inactive"}]
    BY <2>2, <2>3 DEF Flag, WalletTypeOK
  <2>5. \A k \in Counters :
          walletKeys'[k] = IF k \in {loading.held[i]} THEN Flag(k) ELSE walletKeys[k]
    BY <2>2, <2>3 DEF WalletTypeOK
  <2>6. QED
    BY <1>1, <2>1, <2>3, <2>4, <2>5, KeysAreStored
<1>6. CASE ActivateKeyset
  <2> DEFINE usable == {k \in Counters : LoadedKeys[k] = "active"}
             gone   == Range(loading.held) \ loading.on
  <2>1. /\ loading.step = "some" /\ UnknownKeysets = {} /\ asOf' = loading.on /\ loading' = NoLoad
        /\ walletKeys' = LoadedKeys
        /\ usable # {} => walletKeyset' \in usable
    BY <1>6 DEF ActivateKeyset
  <2>2. LoadedKeys = [k \in Counters |-> IF k \in gone THEN "inactive" ELSE walletKeys[k]]
    BY DEF LoadedKeys
  <2>3. \A k \in Range(loading.held) : k \in Counters /\ walletKeys[k] # "none"
    BY <2>1 DEF UnknownKeysets, Range, WalletTypeOK, LoadStates
  <2>4. usable \subseteq loading.on
    BY <2>1, <2>2 DEF AnswerIsComplete
  <2>5. usable # {}
    <3>1. Range(loading.held) # {} /\ Range(loading.held) \subseteq Counters
      <4>1. loading.held \in Seq(Counters) /\ loading.held # <<>>
        BY <2>1 DEF AnswerIsComplete, WalletTypeOK, LoadStates
      <4>2. Len(loading.held) \in Nat \ {0} /\ DOMAIN loading.held = 1 .. Len(loading.held)
        BY <4>1
      <4>3. loading.held[1] \in Range(loading.held)
        BY <4>2 DEF Range
      <4>4. QED
        BY <2>3, <4>3
    <3>2. PICK k \in Range(loading.held) : k + 1 \notin Range(loading.held)
      BY <3>1, LastCounterOf
    <3>3. k \in Counters /\ k \notin gone /\ walletKeys[k] = "active"
      BY <2>1, <2>3, <3>2 DEF AnswerIsComplete, WalletTypeOK
    <3>4. QED
      BY <2>2, <3>3
  <2>6. WalletFollowsRotation'
    BY <2>1, <2>4, <2>5 DEF WalletFollowsRotation
  <2>7. /\ walletKeys' \in [Counters -> {"none", "active", "inactive"}]
        /\ \A k \in Counters :
             /\ walletKeys'[k] # "none" => walletKeys[k] # "none" \/ k \in gone
             /\ walletKeys'[k] = "inactive" => walletKeys[k] = "inactive" \/ k \in gone
    BY <2>1, <2>2 DEF WalletTypeOK
  <2>8. WalletIsInformed'
    BY <1>2, <2>1, <2>7 DEF WalletIsInformed, AnswerIsComplete
  <2>9. WalletTypeOK' /\ AnswerIsComplete'
    BY <2>1, <2>7 DEF WalletTypeOK, AnswerIsComplete, NoLoad, LoadStates
  <2>10. QED
    BY <1>2, <2>6, <2>8, <2>9
<1>7. CASE LoadFails
  <2>1. UNCHANGED <<walletKeys, walletKeyset, asOf>> /\ loading' = NoLoad
    BY <1>7 DEF LoadFails
  <2>2. WalletTypeOK' /\ AnswerIsComplete'
    BY <2>1 DEF WalletTypeOK, AnswerIsComplete, NoLoad, LoadStates
  <2>3. QED
    BY <1>2, <2>1, <2>2 DEF WalletIsInformed, WalletFollowsRotation
<1>8. QED
  BY <1>3, <1>4, <1>5, <1>6, <1>7

\* What the wallet knows of the mint's keysets, and what will be there still.
THEOREM FollowInvariant == KeysetsSpec => []FollowIInv
<1>1. KeysetsInit => FollowIInv
  <2> SUFFICES ASSUME KeysetsInit PROVE FollowIInv
    OBVIOUS
  <2>1. WalletTypeOK /\ AnswerIsComplete /\ WalletIsInformed /\ WalletFollowsRotation
    BY DEF KeysetsInit, WalletTypeOK, AnswerIsComplete, WalletIsInformed, WalletFollowsRotation,
           NoLoad, LoadStates
  <2>2. Range(keysHeld) = {}
    BY DEF KeysetsInit, Range
  <2>3. RetiredHasSuccessor
    BY <2>2 DEF KeysetsInit, RetiredHasSuccessor, Idle
  <2>4. QED
    BY <2>1, <2>3 DEF FollowIInv
<1>2. KeysetsIInv /\ KeysetsIInv' /\ FollowIInv /\ [KeysetsNext]_keysetVars => FollowIInv'
  <2> SUFFICES ASSUME KeysetsIInv, KeysetsIInv', FollowIInv, [KeysetsNext]_keysetVars
               PROVE  FollowIInv'
    OBVIOUS
  <2>1. CASE \/ InitKeysets \/ MintDies
             \/ \E r \in Rotations :
                  RotateNextKeyset(r) \/ StoreKeyset(r) \/ SwitchKeyset(r) \/ UpdateKeyset(r)
    <3>1. Remembered \subseteq Remembered' /\ RetiredHasSuccessor'
      BY <2>1, MemoryNeverShrinks DEF FollowIInv
    <3>2. UNCHANGED walletSide
      BY <2>1 DEF InitKeysets, MintDies, RotateNextKeyset, StoreKeyset, SwitchKeyset, UpdateKeyset
    <3>3. QED
      BY <3>1, <3>2 DEF FollowIInv, walletSide, WalletTypeOK, AnswerIsComplete, WalletIsInformed,
                        WalletFollowsRotation
  <2>2. CASE UNCHANGED <<mintSide, walletSide>>
    BY <2>2 DEF FollowIInv, mintSide, walletSide, WalletTypeOK, AnswerIsComplete, WalletIsInformed,
                WalletFollowsRotation, RetiredHasSuccessor, Remembered, Stored
  <2>3. CASE \E m \in Melts : StoreChangeOutputs(m) \/ SignChange(m)
    BY <2>2, <2>3 DEF StoreChangeOutputs, SignChange
  <2>4. CASE UNCHANGED keysetVars
    BY <2>2, <2>4 DEF keysetVars, mintSide, walletSide
  <2>5. QED
    BY <2>1, <2>3, <2>4, WalletSteps DEF KeysetsNext
<1>3. QED
  BY <1>1, <1>2, KeysetsInvariant, PTL DEF KeysetsSpec

\* The wallet uses a keyset that was active in the last answer it applied:
\* the newest of an answer is always active, the wallet never takes a keyset
\* for retired that may be the newest of a later one, and what an answer lacks
\* the wallet does not have (load_mint_keysets, activate_keyset).
THEOREM WalletsFollow == KeysetsSpec => []WalletFollowsRotation
BY FollowInvariant, PTL DEF FollowIInv

-----------------------------------------------------------------------------
(***************************************************************************)
(* Blind auth: a token buys one call, for any number of logins, calls and  *)
(* tokens, whatever dies in between.                                       *)
(***************************************************************************)

\* the calls that hold their token in the table of pending ones
Holding(r) == req[r].at \in {"held", "performed", "answered", "raised", "leaving"}

LoginStages == {"idle", "asked", "create", "user", "signed", "done", "failed"}
CallStages == {"idle", "picked", "sent", "refused", "held", "performed", "answered", "raised", "leaving",
               "over"}
AuthTyped ==
  /\ login \in [Logins -> [at : LoginStages, outputs : SUBSET Tokens]]
  /\ signed \subseteq Tokens /\ purse \subseteq Tokens
  /\ req \in [Calls -> [at : CallStages, token : Tokens \cup {NoToken}]]
  /\ performed \in [Tokens -> Nat] /\ unburnt \in [Tokens -> Nat]

\* a token is held by one call at a time, and burnt by none of the others
TokenHasOneHolder ==
  /\ \A r \in Calls : Holding(r) => req[r].token \in Tokens \cap authPending
  /\ \A r, s \in Calls : Holding(r) /\ Holding(s) /\ req[r].token = req[s].token => r = s
  /\ \A r \in Calls : Holding(r) /\ req[r].at # "leaving" => req[r].token \notin authSpent

\* a call that was to burn its token: it is burnt, or it is pending, for good if
\* the mint died before it could be burnt
BoughtTokenIsGone ==
  \A t \in Tokens : performed[t] > unburnt[t] =>
    \/ t \in authSpent
    \/ /\ t \in authPending
       /\ \A r \in Calls : Holding(r) /\ req[r].token = t => req[r].at = "performed"

AuthIInv == AuthTyped /\ TokenHasOneHolder /\ BoughtTokenIsGone /\ OneCallPerToken

LEMMA AuthTypesKept ==
  ASSUME AuthTyped, [AuthNext]_authVars
  PROVE  AuthTyped'
<1> USE DEF AuthTyped
<1>1. CASE UNCHANGED <<loginVars, purse, req, tableVars>>
  BY <1>1 DEF loginVars, tableVars
<1>2. CASE \E l \in Logins : AskForTokens(l) \/ GetUser(l) \/ CreateUser(l) \/ SignTokens(l)
                             \/ ReceiveTokens(l)
  <2>1. PICK l \in Logins : AskForTokens(l) \/ GetUser(l) \/ CreateUser(l) \/ SignTokens(l)
                            \/ ReceiveTokens(l)
    BY <1>2
  <2>2. login[l].outputs \subseteq Tokens /\ UNCHANGED <<req, tableVars>>
    BY <2>1 DEF AskForTokens, GetUser, CreateUser, SignTokens, ReceiveTokens
  <2>3. login' \in [Logins -> [at : LoginStages, outputs : SUBSET Tokens]]
    <3>1. CASE \E os \in SUBSET Tokens, st \in LoginStages :
                  login' = [login EXCEPT ![l] = [at |-> st, outputs |-> os]]
      BY <3>1
    <3>2. CASE \E st \in LoginStages : login' = [login EXCEPT ![l].at = st]
      BY <3>2
    <3>3. CASE UNCHANGED login
      BY <3>3
    <3>4. QED
      BY <2>1, <3>1, <3>2, <3>3 DEF AskForTokens, GetUser, CreateUser, SignTokens, ReceiveTokens,
         LoginFails, LoginStages
  <2>4. signed' \subseteq Tokens /\ purse' \subseteq Tokens
    BY <2>1, <2>2 DEF AskForTokens, GetUser, CreateUser, SignTokens, ReceiveTokens
  <2>5. QED
    BY <2>2, <2>3, <2>4 DEF tableVars
<1>3. CASE \E r \in Calls : PickToken(r) \/ SendWithToken(r) \/ HoldToken(r) \/ Call(r) \/ Invalidate(r)
                            \/ Release(r)
  <2>1. PICK r \in Calls : PickToken(r) \/ SendWithToken(r) \/ HoldToken(r) \/ Call(r) \/ Invalidate(r)
                           \/ Release(r)
    BY <1>3
  <2>2. UNCHANGED loginVars /\ purse' \subseteq Tokens
    BY <2>1 DEF PickToken, SendWithToken, HoldToken, Call, Invalidate, Release
  <2>3. req' \in [Calls -> [at : CallStages, token : Tokens \cup {NoToken}]]
    <3>1. CASE PickToken(r)
      BY <3>1 DEF PickToken, CallStages
    <3>2. CASE \E st \in CallStages : req' = [req EXCEPT ![r].at = st]
      BY <3>2
    <3>3. QED
      BY <2>1, <3>1, <3>2 DEF SendWithToken, HoldToken, Call, Invalidate, Release, At, CallStages
  <2>4. performed' \in [Tokens -> Nat] /\ unburnt' \in [Tokens -> Nat]
    BY <2>1 DEF PickToken, SendWithToken, HoldToken, Call, Invalidate, Release, tableVars
  <2>5. QED
    BY <2>2, <2>3, <2>4 DEF loginVars
<1>4. CASE MinutePasses
  BY <1>4 DEF MinutePasses, tableVars
<1>5. CASE Restart
  <2>1. req' \in [Calls -> [at : CallStages, token : Tokens \cup {NoToken}]]
    <3>1. SUFFICES ASSUME NEW r \in Calls
                   PROVE  req'[r] \in [at : CallStages, token : Tokens \cup {NoToken}]
      BY <1>5 DEF Restart
    <3>2. req'[r] = req[r] \/ req'[r] = [req[r] EXCEPT !.at = "over"]
      BY <1>5 DEF Restart
    <3>3. QED
      BY <3>2 DEF CallStages
  <2>2. login' \in [Logins -> [at : LoginStages, outputs : SUBSET Tokens]]
    BY <1>5 DEF Restart, LoginStages
  <2>3. QED
    BY <1>5, <2>1, <2>2 DEF Restart, tableVars
<1>6. CASE OpenWallet \/ SessionEnds \/ LoginWithCode \/ LoginWithPassword \/ StoreClearAuthToken
           \/ TokenHasExpired \/ \E force \in BOOLEAN : Authenticate(force) \/ RefreshAccessToken(force)
  BY <1>1, <1>6 DEF OpenWallet, SessionEnds, LoginWithCode, LoginWithPassword, StoreClearAuthToken,
     TokenHasExpired, Authenticate, RefreshAccessToken, UpdateTokenData, SessionOnly
<1>7. QED
  BY <1>1, <1>2, <1>3, <1>4, <1>5, <1>6 DEF AuthNext, authVars

\* A step that leaves the calls and the tables alone keeps what is said of them.
LEMMA CallsElsewhere ==
  ASSUME AuthIInv, UNCHANGED <<req, tableVars>>
  PROVE  TokenHasOneHolder' /\ BoughtTokenIsGone' /\ OneCallPerToken'
BY DEF AuthIInv, TokenHasOneHolder, BoughtTokenIsGone, OneCallPerToken, Holding, tableVars

LEMMA CallKeeps ==
  ASSUME AuthIInv, NEW r \in Calls,
         PickToken(r) \/ SendWithToken(r) \/ HoldToken(r) \/ Call(r) \/ Invalidate(r) \/ Release(r)
  PROVE  TokenHasOneHolder' /\ BoughtTokenIsGone' /\ OneCallPerToken'
<1> DEFINE t == req[r].token
<1> USE DEF AuthIInv, AuthTyped
<1>1. \A s \in Calls \ {r} : req'[s] = req[s]
  BY DEF PickToken, SendWithToken, HoldToken, Call, Invalidate, Release, At
<1>2. CASE PickToken(r) \/ SendWithToken(r)
  <2>1. ~Holding(r) /\ ~Holding(r)' /\ UNCHANGED tableVars
    BY <1>2 DEF PickToken, SendWithToken, At, Holding
  <2>2. QED
    BY <1>1, <2>1 DEF TokenHasOneHolder, BoughtTokenIsGone, OneCallPerToken, Holding, tableVars
<1>3. CASE HoldToken(r)
  <2>1. /\ ~Holding(r) /\ req'[r].token = t /\ UNCHANGED <<authSpent, performed, unburnt>>
        /\ \/ ~Holding(r)' /\ UNCHANGED authPending
           \/ /\ req'[r].at = "held" /\ t \in Tokens /\ t \notin authSpent \cup authPending
              /\ authPending' = authPending \cup {t}
    BY <1>3 DEF HoldToken, At, Holding
  <2>2. TokenHasOneHolder'
    <3>1. \A s \in Calls : Holding(s)' => (s = r /\ req'[r].at = "held") \/ (s # r /\ Holding(s))
      <4>1. SUFFICES ASSUME NEW s \in Calls, Holding(s)', s # r PROVE Holding(s)
        BY <2>1 DEF Holding
      <4>2. QED
        BY <1>1, <4>1 DEF Holding
    <3>2. \A s \in Calls : Holding(s) => req[s].token \in Tokens \cap authPending
      BY DEF TokenHasOneHolder
    <3>3. \A s \in Calls : Holding(s)' => req'[s].token \in Tokens \cap authPending'
      BY <1>1, <2>1, <3>1, <3>2
    <3>4. \A s \in Calls \ {r} : Holding(s)' /\ Holding(r)' => req'[s].token # req'[r].token
      BY <1>1, <2>1, <3>1, <3>2 DEF Holding
    <3>5. \A s \in Calls : Holding(s)' /\ req'[s].at # "leaving" => req'[s].token \notin authSpent'
      BY <1>1, <2>1, <3>1 DEF TokenHasOneHolder, Holding
    <3>6. QED
      BY <1>1, <3>1, <3>3, <3>4, <3>5 DEF TokenHasOneHolder
  <2>3. BoughtTokenIsGone'
    BY <1>1, <2>1 DEF BoughtTokenIsGone, Holding
  <2>4. QED
    BY <2>1, <2>2, <2>3 DEF OneCallPerToken
<1>4. CASE Call(r)
  <2>1. /\ req[r].at = "held" /\ Holding(r) /\ req'[r].token = t
        /\ UNCHANGED <<authPending, authSpent>>
        /\ \/ /\ req'[r].at = "performed" /\ performed' = [performed EXCEPT ![t] = @ + 1]
              /\ UNCHANGED unburnt
           \/ /\ req'[r].at = "raised" /\ performed' = [performed EXCEPT ![t] = @ + 1]
              /\ unburnt' = [unburnt EXCEPT ![t] = @ + 1]
           \/ req'[r].at \in {"raised", "answered"} /\ UNCHANGED <<performed, unburnt>>
    BY <1>4 DEF Call, At, Holding
  <2>2. TokenHasOneHolder'
    BY <1>1, <2>1 DEF TokenHasOneHolder, Holding
  <2>3. t \in Tokens \cap authPending /\ t \notin authSpent
    BY <2>1 DEF TokenHasOneHolder
  <2>4. performed[t] <= unburnt[t]
    BY <2>1, <2>3 DEF BoughtTokenIsGone
  <2>5. \A s \in Calls : Holding(s)' /\ req'[s].token = t => s = r
    BY <1>1, <2>1 DEF TokenHasOneHolder, Holding
  <2>6. BoughtTokenIsGone'
    BY <1>1, <2>1, <2>3, <2>4, <2>5 DEF BoughtTokenIsGone, Holding
  <2>7. OneCallPerToken'
    BY <2>1, <2>3, <2>4 DEF OneCallPerToken
  <2>8. QED
    BY <2>2, <2>6, <2>7
<1>5. CASE Invalidate(r)
  <2>1. /\ req[r].at \in {"performed", "answered"} /\ Holding(r) /\ req'[r].token = t
        /\ req'[r].at = "leaving" /\ UNCHANGED <<authPending, performed>>
        /\ \/ authSpent' = authSpent \cup {t} /\ UNCHANGED unburnt
           \/ /\ unburnt' = [unburnt EXCEPT ![t] = IF req[r].at = "performed" THEN @ + 1 ELSE @]
              /\ UNCHANGED authSpent
    BY <1>5 DEF Invalidate, At, Holding
  <2>2. TokenHasOneHolder'
    BY <1>1, <2>1 DEF TokenHasOneHolder, Holding
  <2>3. t \in Tokens \cap authPending /\ t \notin authSpent
    BY <2>1 DEF TokenHasOneHolder, Holding
  <2>4. req[r].at = "answered" => performed[t] <= unburnt[t]
    BY <2>1, <2>3 DEF BoughtTokenIsGone
  <2>5. \A u \in Tokens : unburnt'[u] >= unburnt[u]
    BY <2>1
  <2>6. OneCallPerToken'
    BY <2>1, <2>5 DEF OneCallPerToken
  <2>7. t \in authSpent' \/ performed'[t] <= unburnt'[t]
    BY <2>1, <2>3, <2>4 DEF OneCallPerToken
  <2>8. BoughtTokenIsGone'
    BY <1>1, <2>1, <2>5, <2>7 DEF BoughtTokenIsGone, Holding
  <2>9. QED
    BY <2>2, <2>6, <2>8
<1>6. CASE Release(r)
  <2>1. /\ req[r].at \in {"raised", "leaving"} /\ Holding(r) /\ ~Holding(r)'
        /\ authPending' = authPending \ {t} /\ UNCHANGED <<authSpent, performed, unburnt>>
    BY <1>6 DEF Release, At, Holding
  <2>2. t \in Tokens
    BY <2>1 DEF TokenHasOneHolder
  <2>3. TokenHasOneHolder'
    BY <1>1, <2>1 DEF TokenHasOneHolder, Holding
  <2>4. performed[t] > unburnt[t] => t \in authSpent
    BY <2>1, <2>2 DEF BoughtTokenIsGone
  <2>5. BoughtTokenIsGone'
    BY <1>1, <2>1, <2>4 DEF BoughtTokenIsGone, Holding
  <2>6. QED
    BY <2>1, <2>3, <2>5 DEF OneCallPerToken
<1>7. QED
  BY <1>2, <1>3, <1>4, <1>5, <1>6

\* What a token buys, and the calls that hold one, whatever the mint survives.
THEOREM AuthInvariant == AuthSpec => []AuthIInv
<1>1. AuthInit => AuthIInv
  <2> SUFFICES ASSUME AuthInit PROVE AuthIInv
    OBVIOUS
  <2>1. AuthTyped
    BY DEF AuthInit, AuthTyped, LoginStages, CallStages
  <2>2. \A r \in Calls : ~Holding(r)
    BY DEF AuthInit, Holding
  <2>3. QED
    BY <2>1, <2>2 DEF AuthInit, AuthIInv, TokenHasOneHolder, BoughtTokenIsGone, OneCallPerToken
<1>2. AuthIInv /\ [AuthNext]_authVars => AuthIInv'
  <2> SUFFICES ASSUME AuthIInv, [AuthNext]_authVars PROVE AuthIInv'
    OBVIOUS
  <2>1. AuthTyped'
    BY AuthTypesKept DEF AuthIInv
  <2>2. CASE UNCHANGED <<req, tableVars>>
    BY <2>1, <2>2, CallsElsewhere DEF AuthIInv
  <2>3. CASE \E r \in Calls : PickToken(r) \/ SendWithToken(r) \/ HoldToken(r) \/ Call(r) \/ Invalidate(r)
                              \/ Release(r)
    BY <2>1, <2>3, CallKeeps DEF AuthIInv
  <2>4. CASE Restart
    <3>1. \A r \in Calls : Holding(r)' => FALSE
      BY <2>4 DEF Restart, Holding, AuthIInv, AuthTyped
    <3>2. UNCHANGED tableVars
      BY <2>4 DEF Restart
    <3>3. QED
      BY <2>1, <3>1, <3>2 DEF AuthIInv, TokenHasOneHolder, BoughtTokenIsGone, OneCallPerToken, tableVars
  <2>5. CASE \E l \in Logins : AskForTokens(l) \/ GetUser(l) \/ CreateUser(l) \/ SignTokens(l)
                               \/ ReceiveTokens(l)
    BY <2>2, <2>5 DEF AskForTokens, GetUser, CreateUser, SignTokens, ReceiveTokens
  <2>6. CASE MinutePasses \/ OpenWallet \/ SessionEnds \/ LoginWithCode \/ LoginWithPassword
             \/ StoreClearAuthToken \/ TokenHasExpired
             \/ \E force \in BOOLEAN : Authenticate(force) \/ RefreshAccessToken(force)
    BY <2>2, <2>6 DEF MinutePasses, OpenWallet, SessionEnds, LoginWithCode, LoginWithPassword,
       StoreClearAuthToken, TokenHasExpired, Authenticate, RefreshAccessToken, UpdateTokenData, SessionOnly
  <2>7. CASE UNCHANGED authVars
    BY <2>2, <2>7 DEF authVars
  <2>8. QED
    BY <2>3, <2>4, <2>5, <2>6, <2>7 DEF AuthNext
<1>3. QED
  BY <1>1, <1>2, PTL DEF AuthSpec

\* A token buys one call, and another only after one that left it unburnt, however
\* many requests carry it and whatever dies in between: verify_blind_auth, its
\* finally, and the auth ledger's two tables.
THEOREM TokensBuyOneCall == AuthSpec => []OneCallPerToken
<1>1. AuthIInv => OneCallPerToken
  BY DEF AuthIInv
<1>2. QED
  BY <1>1, AuthInvariant, PTL

-----------------------------------------------------------------------------
(***************************************************************************)
(* Events: a subscriber is told the last state, however the first read,    *)
(* the changes and the messages interleave.                                *)
(***************************************************************************)

EventsTyped ==
  /\ state \in [Filters -> Nat]
  /\ subs \in [Clients -> SUBSET (Filters \X (SubIds \cup {CliSub, "none"}))]
  /\ conn \in [Clients -> {"none", "open", "gone"}]
  /\ clients \subseteq Clients
  /\ \A a \in announced : a.f \in Filters /\ a.v \in Nat

\* whom an event was sent to before its transaction has ended has its message, or
\* will have
AnnouncedIsSent ==
  \A a \in announced : \A c \in Clients : \A s : <<c, s>> \in a.to =>
    /\ conn[c] # "none"
    /\ conn[c] = "open" => [c |-> c, s |-> s, f |-> a.f, v |-> a.v] \in tasks \cup told

\* what a connection that is open follows was asked for over it
FollowsWhenOpen == \A c \in Clients : conn[c] = "none" => subs[c] = {}

\* a message of the last state, or what will make one
WillKnow(c, f, s) ==
  \/ [c |-> c, s |-> s, f |-> f, v |-> state[f]] \in tasks \cup told
  \/ [c |-> c, s |-> s, f |-> f, v |-> -1] \in tasks
  \/ <<f, state[f]>> \in submitting
  \/ <<c, s, f>> \in passedBy

AllWillKnow ==
  \A c \in clients : conn[c] = "open" =>
    \A f \in Filters, s \in SubIds \cup {CliSub} : <<f, s>> \in subs[c] /\ s # "none" => WillKnow(c, f, s)

EventsIInv == EventsTyped /\ AnnouncedIsSent /\ FollowsWhenOpen /\ AllWillKnow

LEMMA EventTypesKept ==
  ASSUME EventsIInv, [EventsNext]_eventVars
  PROVE  EventsTyped' /\ FollowsWhenOpen'
<1> USE EventsAssumption DEF EventsIInv, EventsTyped, changeVars
<1>1. CASE \E c \in Clients : Connect(c) \/ Disconnect(c)
  BY <1>1 DEF Connect, Disconnect, FollowsWhenOpen
<1>2. ASSUME NEW c \in Clients, NEW s \in SubIds \cup {CliSub}, NEW fs \in SUBSET Filters,
             conn[c] = "open", AddSubscription(c, s, fs), UNCHANGED <<changeVars, conn, clients>>
      PROVE  EventsTyped' /\ FollowsWhenOpen'
  <2>1. subs' = [subs EXCEPT ![c] = @ \cup {<<f, s>> : f \in fs} \cup {<<f, "none">> : f \in fs}]
    BY <1>2 DEF AddSubscription
  <2>2. {<<f, s>> : f \in fs} \cup {<<f, "none">> : f \in fs}
          \subseteq Filters \X (SubIds \cup {CliSub, "none"})
    BY <1>2
  <2>3. subs' \in [Clients -> SUBSET (Filters \X (SubIds \cup {CliSub, "none"}))]
    BY <2>1, <2>2
  <2>4. QED
    BY <1>2, <2>1, <2>3 DEF FollowsWhenOpen
<1>3. CASE \E c \in Clients, s \in SubIds : Unsubscribe(c, s)
  BY <1>3 DEF Unsubscribe, FollowsWhenOpen
<1>4. CASE \E t \in tasks : InitSubscription(t) \/ SendObj(t)
  BY <1>4 DEF InitSubscription, SendObj, FollowsWhenOpen
<1>5. CASE \E f \in Filters : Change(f) \/ Announce(f) \/ ChangeSilently(f)
  <2>1. PICK f \in Filters : Change(f) \/ Announce(f) \/ ChangeSilently(f)
    BY <1>5
  <2>2. /\ UNCHANGED <<conn, clients, subs>>
        /\ \/ state' = [state EXCEPT ![f] = @ + 1] /\ UNCHANGED announced
           \/ /\ UNCHANGED state
              /\ \E to : announced' = announced \cup {[f |-> f, v |-> state[f] + 1, to |-> to]}
    BY <2>1 DEF Change, Announce, ChangeSilently
  <2>3. QED
    BY <2>2 DEF FollowsWhenOpen
<1>6. CASE (\E e \in submitting : Submit(e)) \/ (\E a \in announced : EndTransaction(a))
  BY <1>6 DEF Submit, EndTransaction, FollowsWhenOpen
<1>7. CASE SendSubscribe
  BY <1>2, <1>7 DEF SendSubscribe
<1>8. CASE \E c \in Clients, s \in SubIds, fs \in SUBSET Filters : Subscribe(c, s, fs)
  BY <1>2, <1>8 DEF Subscribe
<1>9. CASE RequestMint \/ StoreQuote \/ OnMessage \/ PollQuote \/ UNCHANGED eventVars
  <2>1. UNCHANGED mintEventVars
    BY <1>9 DEF RequestMint, StoreQuote, OnMessage, PollQuote, eventVars
  <2>2. QED
    BY <2>1 DEF mintEventVars, FollowsWhenOpen
<1>10. QED
  BY <1>1, <1>3, <1>4, <1>5, <1>6, <1>7, <1>8, <1>9 DEF EventsNext

\* Messages are not lost on the way to whoever is there.
LEMMA AnnouncedStaysSent ==
  ASSUME EventsIInv, [EventsNext]_eventVars
  PROVE  AnnouncedIsSent'
<1> USE EventsAssumption DEF EventsIInv, EventsTyped, changeVars
<1>1. CASE /\ announced' \subseteq announced
           /\ \A c \in Clients : /\ conn[c] # "none" => conn'[c] # "none"
                                 /\ conn[c] # "none" /\ conn'[c] = "open" => conn[c] = "open"
           /\ \A t \in tasks \cup told : conn'[t.c] = "open" /\ t.v # -1 => t \in tasks' \cup told'
  <2>1. \A a \in announced' : a \in announced /\ a.v # -1
    BY <1>1
  <2>2. QED
    BY <1>1, <2>1 DEF AnnouncedIsSent
<1>2. CASE \E c \in Clients : Connect(c) \/ Disconnect(c)
  BY <1>1, <1>2 DEF Connect, Disconnect
<1>3. CASE \E c \in Clients, s \in SubIds : Unsubscribe(c, s)
  BY <1>1, <1>3 DEF Unsubscribe
<1>4. CASE \E t \in tasks : InitSubscription(t) \/ SendObj(t)
  BY <1>1, <1>4 DEF InitSubscription, SendObj
<1>5. CASE \E f \in Filters : Change(f) \/ ChangeSilently(f)
  BY <1>1, <1>5 DEF Change, ChangeSilently
<1>6. CASE \E f \in Filters : Announce(f)
  <2>1. PICK f \in Filters : Announce(f)
    BY <1>6
  <2> DEFINE new == [f |-> f, v |-> state[f] + 1,
                     to |-> UNION {{<<c, s>> : s \in Subscribed(c, f)} : c \in clients}]
  <2>2. /\ announced' = announced \cup {new} /\ tasks' = tasks \cup Messages(f, state[f] + 1)
        /\ UNCHANGED <<conn, told>>
    BY <2>1 DEF Announce
  <2>3. SUFFICES ASSUME NEW c \in Clients, NEW s, <<c, s>> \in new.to
                 PROVE  /\ conn[c] # "none"
                        /\ [c |-> c, s |-> s, f |-> f, v |-> state[f] + 1] \in tasks'
    BY <2>2 DEF AnnouncedIsSent
  <2>4. c \in clients /\ s \in Subscribed(c, f)
    BY <2>3
  <2>5. conn[c] # "none"
    BY <2>4 DEF FollowsWhenOpen, Subscribed
  <2>6. QED
    BY <2>2, <2>4, <2>5 DEF Messages
<1>7. CASE (\E e \in submitting : Submit(e)) \/ (\E a \in announced : EndTransaction(a))
  BY <1>1, <1>7 DEF Submit, EndTransaction
<1>8. CASE SendSubscribe \/ \E c \in Clients, s \in SubIds, fs \in SUBSET Filters : Subscribe(c, s, fs)
  BY <1>1, <1>8 DEF SendSubscribe, Subscribe, AddSubscription
<1>9. CASE RequestMint \/ StoreQuote \/ OnMessage \/ PollQuote \/ UNCHANGED eventVars
  <2>1. UNCHANGED mintEventVars
    BY <1>9 DEF RequestMint, StoreQuote, OnMessage, PollQuote, eventVars
  <2>2. QED
    BY <1>1, <2>1 DEF mintEventVars
<1>10. QED
  BY <1>2, <1>3, <1>4, <1>5, <1>6, <1>7, <1>8, <1>9 DEF EventsNext

LEMMA AddedWillKnow ==
  ASSUME EventsIInv, NEW c \in Clients, NEW s, NEW fs \in SUBSET Filters,
         AddSubscription(c, s, fs), UNCHANGED <<changeVars, conn, clients, told>>
  PROVE  AllWillKnow'
<1> USE DEF EventsIInv, EventsTyped, changeVars
<1>1. /\ subs' = [subs EXCEPT ![c] = @ \cup {<<f, s>> : f \in fs} \cup {<<f, "none">> : f \in fs}]
      /\ tasks' = tasks \cup {[c |-> c, s |-> s, f |-> f, v |-> -1] : f \in fs}
  BY DEF AddSubscription
<1>2. SUFFICES ASSUME NEW d \in clients, conn[d] = "open", NEW g \in Filters,
                      NEW u \in SubIds \cup {CliSub}, <<g, u>> \in subs'[d], u # "none"
               PROVE  WillKnow(d, g, u)'
  BY DEF AllWillKnow
<1>3. CASE <<g, u>> \in subs[d]
  BY <1>1, <1>2, <1>3 DEF AllWillKnow, WillKnow
<1>4. CASE <<g, u>> \notin subs[d]
  <2>1. d = c /\ g \in fs /\ u = s
    BY <1>1, <1>2, <1>4
  <2>2. QED
    BY <1>1, <2>1 DEF WillKnow
<1>5. QED
  BY <1>3, <1>4

\* Whoever follows a filter when it changes and is not passed by has been sent
\* the change, or will read it.
LEMMA PassedOrNot ==
  ASSUME EventsIInv, NEW f \in Filters, NEW to, passedBy' = Passed(f, to),
         UNCHANGED <<conn, clients, subs, tasks, told, submitting>>,
         NEW v \in Nat, state' = [state EXCEPT ![f] = v],
         \A c \in clients : conn[c] = "open" => \A s : <<c, s>> \in to =>
           [c |-> c, s |-> s, f |-> f, v |-> v] \in tasks \cup told
  PROVE  AllWillKnow'
<1> USE DEF EventsIInv, EventsTyped
<1>1. SUFFICES ASSUME NEW c \in clients, conn[c] = "open", NEW g \in Filters,
                      NEW s \in SubIds \cup {CliSub}, <<g, s>> \in subs[c], s # "none",
                      WillKnow(c, g, s)
               PROVE  WillKnow(c, g, s)'
  BY DEF AllWillKnow
<1>2. CASE g # f
  <2>1. state'[g] = state[g] /\ (<<c, s, g>> \in passedBy => <<c, s, g>> \in passedBy')
    BY <1>2 DEF Passed
  <2>2. QED
    BY <1>1, <2>1 DEF WillKnow
<1>3. CASE g = f
  <2>1. state'[f] = v /\ s \in Subscribed(c, f)
    BY <1>1, <1>3 DEF Subscribed
  <2>2. CASE <<c, s>> \in to
    BY <1>1, <1>3, <2>1, <2>2 DEF WillKnow
  <2>3. CASE [c |-> c, s |-> s, f |-> f, v |-> -1] \in tasks
    BY <1>3, <2>3 DEF WillKnow
  <2>4. CASE <<c, s>> \notin to /\ [c |-> c, s |-> s, f |-> f, v |-> -1] \notin tasks
    <3>1. <<c, s, f>> \in passedBy'
      BY <2>1, <2>4 DEF Passed
    <3>2. QED
      BY <1>3, <3>1 DEF WillKnow
  <2>5. QED
    BY <2>2, <2>3, <2>4
<1>4. QED
  BY <1>2, <1>3

\* More messages do no harm, and a submit that is made leaves them behind.
LEMMA SubmitKeeps ==
  ASSUME EventsIInv, NEW e \in submitting, Submit(e)
  PROVE  AllWillKnow'
<1> USE DEF EventsIInv, EventsTyped
<1>1. /\ submitting' = submitting \ {e} /\ UNCHANGED <<state, conn, clients, subs, told, passedBy>>
      /\ tasks' = tasks \cup Messages(e[1], e[2])
  BY DEF Submit
<1>2. SUFFICES ASSUME NEW c \in clients, NEW f \in Filters, NEW s \in SubIds \cup {CliSub},
                      <<f, s>> \in subs[c], s # "none", WillKnow(c, f, s)
               PROVE  WillKnow(c, f, s)'
  BY <1>1 DEF AllWillKnow
<1>3. CASE e = <<f, state[f]>>
  <2>1. s \in Subscribed(c, f)
    BY <1>2 DEF Subscribed
  <2>2. [c |-> c, s |-> s, f |-> f, v |-> state[f]] \in tasks'
    BY <1>1, <1>3, <2>1 DEF Messages
  <2>3. QED
    BY <1>1, <2>2 DEF WillKnow
<1>4. CASE e # <<f, state[f]>>
  BY <1>1, <1>2, <1>4 DEF WillKnow
<1>5. QED
  BY <1>3, <1>4

LEMMA MessagesKeep ==
  ASSUME EventsIInv, [EventsNext]_eventVars
  PROVE  AllWillKnow'
<1> USE EventsAssumption DEF EventsIInv, EventsTyped, changeVars
<1>1. CASE \E c \in Clients : Connect(c)
  BY <1>1 DEF Connect, AllWillKnow, WillKnow, FollowsWhenOpen
<1>2. CASE \E c \in Clients : Disconnect(c)
  BY <1>2 DEF Disconnect, AllWillKnow, WillKnow
<1>3. CASE \E c \in Clients, s \in SubIds : Unsubscribe(c, s)
  <2>1. PICK c \in Clients, s \in SubIds : Unsubscribe(c, s)
    BY <1>3
  <2>2. PICK f \in FiltersOf(c) : /\ s \in Subscribed(c, f)
                                  /\ subs' = [subs EXCEPT ![c] = @ \ {<<f, s>>}]
                                  /\ passedBy' = passedBy \ {<<c, s, f>>}
    BY <2>1 DEF Unsubscribe
  <2>3. UNCHANGED <<state, submitting, conn, clients, tasks, told>>
    BY <2>1 DEF Unsubscribe
  <2>4. QED
    BY <2>2, <2>3 DEF AllWillKnow, WillKnow
<1>4. CASE \E t \in tasks : InitSubscription(t)
  <2>1. PICK t \in tasks : InitSubscription(t)
    BY <1>4
  <2>2. /\ t.v = -1 /\ tasks' = (tasks \ {t}) \cup {[t EXCEPT !.v = state[t.f]]}
        /\ UNCHANGED <<state, submitting, passedBy, conn, clients, subs, told>>
    BY <2>1 DEF InitSubscription
  <2>3. SUFFICES ASSUME NEW c \in clients, NEW f \in Filters, NEW s, WillKnow(c, f, s)
                 PROVE  WillKnow(c, f, s)'
    BY <2>2 DEF AllWillKnow
  <2>4. CASE t = [c |-> c, s |-> s, f |-> f, v |-> -1]
    BY <2>2, <2>4 DEF WillKnow
  <2>5. CASE t # [c |-> c, s |-> s, f |-> f, v |-> -1]
    <3>1. CASE t = [c |-> c, s |-> s, f |-> f, v |-> state[f]]
      BY <2>2, <3>1 DEF WillKnow
    <3>2. CASE t # [c |-> c, s |-> s, f |-> f, v |-> state[f]]
      BY <2>2, <2>3, <2>5, <3>2 DEF WillKnow
    <3>3. QED
      BY <3>1, <3>2
  <2>6. QED
    BY <2>4, <2>5
<1>5. CASE \E t \in tasks : SendObj(t)
  <2>1. PICK t \in tasks : SendObj(t)
    BY <1>5
  <2>2. /\ t.v # -1 /\ tasks' = tasks \ {t}
        /\ told' = IF conn[t.c] = "open" THEN told \cup {t} ELSE told
        /\ UNCHANGED <<state, submitting, passedBy, conn, clients, subs>>
    BY <2>1 DEF SendObj
  <2>3. SUFFICES ASSUME NEW c \in clients, conn[c] = "open", NEW f \in Filters, NEW s, WillKnow(c, f, s)
                 PROVE  WillKnow(c, f, s)'
    BY <2>2 DEF AllWillKnow
  <2>4. QED
    BY <2>2, <2>3 DEF WillKnow
<1>6. CASE \E f \in Filters : Change(f)
  <2>1. PICK f \in Filters : Change(f)
    BY <1>6
  <2>2. /\ state' = [state EXCEPT ![f] = @ + 1] /\ submitting' = submitting \cup {<<f, state'[f]>>}
        /\ passedBy' = {x \in passedBy : x[3] # f}
        /\ UNCHANGED <<conn, clients, subs, tasks, told>>
    BY <2>1 DEF Change
  <2>3. QED
    BY <2>2 DEF AllWillKnow, WillKnow
<1>7. CASE \E f \in Filters : Announce(f)
  BY <1>7 DEF Announce, AllWillKnow, WillKnow
<1>8. CASE \E f \in Filters : ChangeSilently(f)
  <2>1. PICK f \in Filters : ChangeSilently(f)
    BY <1>8
  <2>2. /\ state' = [state EXCEPT ![f] = state[f] + 1] /\ passedBy' = Passed(f, {})
        /\ UNCHANGED <<conn, clients, subs, tasks, told, submitting>>
    BY <2>1 DEF ChangeSilently
  <2>3. PICK v \in Nat : v = state[f] + 1
    OBVIOUS
  <2>4. state' = [state EXCEPT ![f] = v]
    BY <2>2, <2>3
  <2>5. PICK to : to = {}
    OBVIOUS
  <2>6. passedBy' = Passed(f, to) /\ UNCHANGED <<conn, clients, subs, tasks, told, submitting>>
    BY <2>2, <2>5
  <2>7. \A c \in clients : conn[c] = "open" => \A s : <<c, s>> \in to =>
          [c |-> c, s |-> s, f |-> f, v |-> v] \in tasks \cup told
    BY <2>5
  <2>8. QED
    BY <2>4, <2>6, <2>7, PassedOrNot
<1>9. CASE \E a \in announced : EndTransaction(a)
  <2>1. PICK a \in announced : EndTransaction(a)
    BY <1>9
  <2>2. UNCHANGED <<conn, clients, subs, tasks, told, submitting>>
    BY <2>1 DEF EndTransaction
  <2>3. CASE UNCHANGED <<state, passedBy>>
    BY <2>2, <2>3 DEF AllWillKnow, WillKnow
  <2>4. CASE state' = [state EXCEPT ![a.f] = a.v] /\ passedBy' = Passed(a.f, a.to)
    <3>1. \A c \in clients : conn[c] = "open" => \A s : <<c, s>> \in a.to =>
            [c |-> c, s |-> s, f |-> a.f, v |-> a.v] \in tasks \cup told
      BY DEF AnnouncedIsSent
    <3>2. a.f \in Filters /\ a.v \in Nat
      OBVIOUS
    <3>3. QED
      BY <2>2, <2>4, <3>1, <3>2, PassedOrNot
  <2>5. QED
    BY <2>1, <2>3, <2>4 DEF EndTransaction
<1>10. CASE \E e \in submitting : Submit(e)
  BY <1>10, SubmitKeeps
<1>11. CASE SendSubscribe
  BY <1>11, AddedWillKnow DEF SendSubscribe
<1>12. CASE \E c \in Clients, s \in SubIds, fs \in SUBSET Filters : Subscribe(c, s, fs)
  BY <1>12, AddedWillKnow DEF Subscribe
<1>13. CASE RequestMint \/ StoreQuote \/ OnMessage \/ PollQuote \/ UNCHANGED eventVars
  <2>1. UNCHANGED mintEventVars
    BY <1>13 DEF RequestMint, StoreQuote, OnMessage, PollQuote, eventVars
  <2>2. QED
    BY <2>1 DEF mintEventVars, AllWillKnow, WillKnow
<1>14. QED
  BY <1>1, <1>2, <1>3, <1>4, <1>5, <1>6, <1>7, <1>8, <1>9, <1>10, <1>11, <1>12, <1>13 DEF EventsNext

\* A subscriber that is connected knows the last state, or what will tell it is
\* on its way.
THEOREM EventsInvariant == EventsSpec => []EventsIInv
<1>1. EventsInit => EventsIInv
  BY DEF EventsInit, EventsIInv, EventsTyped, AnnouncedIsSent, FollowsWhenOpen, AllWillKnow
<1>2. EventsIInv /\ [EventsNext]_eventVars => EventsIInv'
  BY EventTypesKept, AnnouncedStaysSent, MessagesKeep DEF EventsIInv
<1>3. QED
  BY <1>1, <1>2, PTL DEF EventsSpec

\* A subscriber that stays connected is told the last state of what it follows,
\* or will be: the first read and the changes may interleave as they like.
THEOREM SubscribersAreTold == EventsSpec => []SubscriberIsTold
<1>1. EventsIInv => SubscriberIsTold
  <2> SUFFICES ASSUME EventsIInv, NEW c \in clients, conn[c] = "open",
                      NEW f \in FiltersOf(c), NEW s \in Subscribed(c, f)
               PROVE  WillKnow(c, f, s)
    BY DEF SubscriberIsTold, WillKnow
  <2>1. /\ f \in Filters /\ s \in SubIds \cup {CliSub} /\ s # "none" /\ <<f, s>> \in subs[c]
    BY DEF EventsIInv, EventsTyped, FiltersOf, Subscribed
  <2>2. QED
    BY <2>1 DEF EventsIInv, AllWillKnow
<1>2. QED
  BY <1>1, EventsInvariant, PTL

-----------------------------------------------------------------------------
(***************************************************************************)
(* The HTTP interface: an invoice is paid once, and what a client is told, *)
(* at once, from the cache or by a deprecated endpoint, is true.           *)
(***************************************************************************)

Outputs == DOMAIN OutputAmount
Keysets2 == {0, 1}

LedgerTyped ==
  /\ noteState \in [ApiNotes -> {"UNSPENT", "PENDING", "SPENT"}]
  /\ heldFor \in [ApiNotes -> MeltQuotes \cup {Nobody}]
  /\ DOMAIN signedBy = Outputs
  /\ mintQuote \in [MintQuotes -> {"NONE", "UNPAID", "PAID", "ISSUED"}]
  /\ meltQuote \in [MeltQuotes -> {"NONE", "UNPAID", "PENDING", "PAID"}]

\* a note that was spent is held for nobody, so that no rollback returns it
HeldIsPending == \A n \in ApiNotes : heldFor[n] # Nobody => noteState[n] = "PENDING"

Paying(q) == meltQuote[q] \in {"PENDING", "PAID"}
OneQuotePays == ~IdPerQuote => \A q, p \in MeltQuotes : Paying(q) /\ Paying(p) => q = p

LedgerInv == LedgerTyped /\ HeldIsPending /\ OneQuotePays

\* what the ledger never takes back
NothingIsUndone ==
  /\ \A b \in Outputs : signedBy[b] # Nobody => signedBy'[b] # Nobody
  /\ \A q \in MintQuotes : mintQuote[q] = "ISSUED" => mintQuote'[q] = "ISSUED"
  /\ \A n \in ApiNotes : noteState[n] = "SPENT" => noteState'[n] = "SPENT"
  /\ \A q \in MeltQuotes : meltQuote[q] = "PAID" => meltQuote'[q] = "PAID"

LEMMA SignedStays ==
  ASSUME LedgerInv, NEW outs, NEW ks \in Keysets2, signedBy' = Signed(outs, ks)
  PROVE  /\ DOMAIN signedBy' = Outputs
         /\ \A b \in Outputs : signedBy[b] # Nobody => signedBy'[b] # Nobody
         /\ \A b \in Range(outs) \cap Outputs : signedBy'[b] # Nobody
BY ApiAssumption DEF LedgerInv, LedgerTyped, Signed, Keysets2

LEMMA MintKeepsLedger ==
  ASSUME LedgerInv, NEW r, r.quote \in MintQuotes, NEW ks \in Keysets2, LedgerMint(r, ks)
  PROVE  LedgerInv' /\ NothingIsUndone /\ mintQuote'[r.quote] = "ISSUED"
<1>1. /\ mintQuote[r.quote] = "PAID" /\ mintQuote' = [mintQuote EXCEPT ![r.quote] = "ISSUED"]
      /\ signedBy' = Signed(r.outs, ks) /\ UNCHANGED <<noteState, heldFor, meltQuote>>
  BY DEF LedgerMint
<1>2. LedgerTyped'
  BY <1>1, SignedStays DEF LedgerInv, LedgerTyped
<1>3. HeldIsPending' /\ OneQuotePays'
  BY <1>1 DEF LedgerInv, HeldIsPending, OneQuotePays, Paying
<1>4. NothingIsUndone
  BY <1>1, SignedStays DEF LedgerInv, LedgerTyped, NothingIsUndone
<1>5. QED
  BY <1>1, <1>2, <1>3, <1>4 DEF LedgerInv, LedgerTyped

LEMMA SwapKeepsLedger ==
  ASSUME LedgerInv, NEW r, r.uses \in ApiNotes, NEW ks \in Keysets2, LedgerSwap(r, ks)
  PROVE  LedgerInv' /\ NothingIsUndone /\ noteState'[r.uses] = "SPENT"
<1>1. /\ noteState[r.uses] = "UNSPENT" /\ noteState' = [noteState EXCEPT ![r.uses] = "SPENT"]
      /\ signedBy' = Signed(r.outs, ks) /\ UNCHANGED <<heldFor, mintQuote, meltQuote>>
  BY DEF LedgerSwap
<1>2. LedgerTyped'
  BY <1>1, SignedStays DEF LedgerInv, LedgerTyped
<1>3. HeldIsPending' /\ OneQuotePays'
  BY <1>1 DEF LedgerInv, LedgerTyped, HeldIsPending, OneQuotePays, Paying
<1>4. NothingIsUndone
  BY <1>1, SignedStays DEF LedgerInv, LedgerTyped, NothingIsUndone
<1>5. QED
  BY <1>1, <1>2, <1>3, <1>4 DEF LedgerInv, LedgerTyped

LEMMA StoreQuoteKeepsLedger ==
  ASSUME LedgerInv, NEW q \in MeltQuotes, StoreMeltQuote(q)
  PROVE  LedgerInv' /\ NothingIsUndone
<1>1. /\ meltQuote[q] = "NONE" /\ meltQuote' = [meltQuote EXCEPT ![q] = "UNPAID"]
      /\ UNCHANGED <<noteState, heldFor, signedBy, mintQuote>>
  BY DEF StoreMeltQuote
<1>2. QED
  BY <1>1 DEF LedgerInv, LedgerTyped, HeldIsPending, OneQuotePays, Paying, NothingIsUndone

LEMMA PayKeepsLedger ==
  ASSUME LedgerInv, NEW r, r.uses \in ApiNotes, r.quote \in MeltQuotes, NEW ks \in Keysets2,
         NEW given, LedgerMeltPays(r, ks, given)
  PROVE  LedgerInv' /\ NothingIsUndone /\ meltQuote'[r.quote] = "PAID"
<1>1. /\ meltQuote[r.quote] = "UNPAID" /\ noteState[r.uses] = "UNSPENT" /\ QuoteMayPay(r.quote)
      /\ noteState' = [noteState EXCEPT ![r.uses] = "SPENT"]
      /\ meltQuote' = [meltQuote EXCEPT ![r.quote] = "PAID"]
      /\ signedBy' = Signed(given, ks) /\ UNCHANGED <<heldFor, mintQuote>>
  BY DEF LedgerMeltPays, MeltAccepts
<1>2. LedgerTyped'
  BY <1>1, SignedStays DEF LedgerInv, LedgerTyped
<1>3. HeldIsPending'
  BY <1>1 DEF LedgerInv, LedgerTyped, HeldIsPending
<1>4. OneQuotePays'
  BY <1>1 DEF LedgerInv, LedgerTyped, OneQuotePays, Paying, QuoteMayPay, NoneIsPaid, SameCheckingId
<1>5. NothingIsUndone
  BY <1>1, SignedStays DEF LedgerInv, LedgerTyped, NothingIsUndone
<1>6. QED
  BY <1>1, <1>2, <1>3, <1>4, <1>5 DEF LedgerInv, LedgerTyped

LEMMA PendingKeepsLedger ==
  ASSUME LedgerInv, NEW r, r.uses \in ApiNotes, r.quote \in MeltQuotes, NEW ks,
         LedgerMeltPending(r, ks) \/ LedgerMeltRaises(r, ks)
  PROVE  LedgerInv' /\ NothingIsUndone
<1>1. CASE UNCHANGED ledgerVars
  BY <1>1 DEF ledgerVars, LedgerInv, LedgerTyped, HeldIsPending, OneQuotePays, Paying, NothingIsUndone
<1>2. CASE /\ noteState[r.uses] = "UNSPENT" /\ noteState' = [noteState EXCEPT ![r.uses] = "PENDING"]
           /\ heldFor' = [heldFor EXCEPT ![r.uses] = r.quote] /\ UNCHANGED <<signedBy, mintQuote>>
           /\ \/ UNCHANGED meltQuote
              \/ /\ meltQuote[r.quote] = "UNPAID" /\ QuoteMayPay(r.quote)
                 /\ meltQuote' = [meltQuote EXCEPT ![r.quote] = "PENDING"]
  <2>1. LedgerTyped'
    BY <1>2 DEF LedgerInv, LedgerTyped
  <2>2. HeldIsPending'
    BY <1>2 DEF LedgerInv, LedgerTyped, HeldIsPending
  <2>3. OneQuotePays'
    BY <1>2 DEF LedgerInv, LedgerTyped, OneQuotePays, Paying, QuoteMayPay, NoneIsPaid, SameCheckingId
  <2>4. NothingIsUndone
    BY <1>2 DEF LedgerInv, LedgerTyped, NothingIsUndone
  <2>5. QED
    BY <2>1, <2>2, <2>3, <2>4 DEF LedgerInv
<1>3. QED
  BY <1>1, <1>2 DEF LedgerMeltPending, LedgerMeltRaises, MeltAccepts

LEMMA PollKeepsLedger ==
  ASSUME LedgerInv, activeKeyset \in Keysets2, NEW q \in MeltQuotes, NEW given,
         LedgerSettles(q, given) \/ LedgerRollsBack(q)
  PROVE  LedgerInv' /\ NothingIsUndone
<1>1. PICK note \in {"SPENT", "UNSPENT"}, row \in {"PAID", "UNPAID"} :
        /\ meltQuote[q] = "PENDING" /\ meltQuote' = [meltQuote EXCEPT ![q] = row]
        /\ noteState' = [n \in ApiNotes |-> IF heldFor[n] = q THEN note ELSE noteState[n]]
        /\ heldFor' = [n \in ApiNotes |-> IF heldFor[n] = q THEN Nobody ELSE heldFor[n]]
        /\ UNCHANGED mintQuote /\ (signedBy' = Signed(given, activeKeyset) \/ UNCHANGED signedBy)
  <2>1. CASE LedgerSettles(q, given)
    BY <2>1 DEF LedgerSettles, Held
  <2>2. CASE LedgerRollsBack(q)
    BY <2>2 DEF LedgerRollsBack, Held
  <2>3. QED
    BY <2>1, <2>2
<1>2. LedgerTyped'
  BY <1>1, SignedStays DEF LedgerInv, LedgerTyped
<1>3. HeldIsPending'
  BY <1>1 DEF LedgerInv, LedgerTyped, HeldIsPending
<1>4. OneQuotePays'
  BY <1>1 DEF LedgerInv, LedgerTyped, OneQuotePays, Paying
<1>5. NothingIsUndone
  <2>1. \A n \in ApiNotes : heldFor[n] = q => noteState[n] = "PENDING"
    BY ApiAssumption DEF LedgerInv, HeldIsPending
  <2>2. \A n \in ApiNotes : noteState[n] = "SPENT" => noteState'[n] = "SPENT"
    BY <1>1, <2>1
  <2>3. \A b \in Outputs : signedBy[b] # Nobody => signedBy'[b] # Nobody
    BY <1>1, SignedStays
  <2>4. \A p \in MeltQuotes : meltQuote[p] = "PAID" => meltQuote'[p] = "PAID"
    BY <1>1 DEF LedgerInv, LedgerTyped
  <2>5. QED
    BY <1>1, <2>2, <2>3, <2>4 DEF NothingIsUndone
<1>6. QED
  BY <1>2, <1>3, <1>4, <1>5 DEF LedgerInv

LEMMA QuoteRequestsKeepLedger ==
  ASSUME LedgerInv, NEW q \in MintQuotes, CreateMintQuote(q) \/ GetMintQuote(q)
  PROVE  LedgerInv' /\ NothingIsUndone
<1>1. /\ mintQuote[q] # "ISSUED" /\ UNCHANGED <<noteState, heldFor, signedBy, meltQuote>>
      /\ \E standing \in {"UNPAID", "PAID"} : mintQuote' = [mintQuote EXCEPT ![q] = standing]
  BY DEF CreateMintQuote, GetMintQuote, LedgerInv, LedgerTyped
<1>2. QED
  BY <1>1 DEF LedgerInv, LedgerTyped, HeldIsPending, OneQuotePays, Paying, NothingIsUndone

LEMMA NothingKeepsLedger ==
  ASSUME LedgerInv, UNCHANGED ledgerVars
  PROVE  LedgerInv' /\ NothingIsUndone
BY DEF ledgerVars, LedgerInv, LedgerTyped, HeldIsPending, OneQuotePays, Paying, NothingIsUndone

-----------------------------------------------------------------------------
(* What is told, and what is stored to be told again *)

\* a request as it is served: /melt has given it a quote by then, or not yet
Carries(r) ==
  /\ r = [path |-> r.path, uses |-> r.uses, quote |-> r.quote, outs |-> r.outs, amount |-> r.amount]
  /\ r.outs \in Seq(Outputs)
  /\ r.path \in {"/v1/mint/bolt11", "/mint"} => r.quote \in MintQuotes
  /\ r.path = "/v1/melt/bolt11" => r.quote \in MeltQuotes
  /\ r.path = "/melt" => r.quote \in MeltQuotes \cup {Nobody}
  /\ r.path \in {"/v1/swap", "/split", "/v1/melt/bolt11", "/melt"} => r.uses \in ApiNotes

Told(r, a) == TrueOf(r, a) /\ (a.ok /\ a.state = "PAID" => r.quote \in MeltQuotes)

ServingTyped ==
  /\ serving = [w \in Connections |-> serving[w]]
  /\ \A w \in Connections :
       LET c == serving[w] IN
       /\ c = [step |-> c.step, request |-> c.request, response |-> c.response]
       /\ c.step # "idle" => Carries(c.request)
       /\ c.step \in {"arrived", "cached", "storing"} => c.request.path # "/melt"

Says(w, r, a) ==
  /\ serving[w].step \in {"storing", "answered"}
  /\ serving[w].request = r /\ serving[w].response = a /\ r.path # "/melt"

ServingInv == ServingTyped /\ \A w \in Connections : \A r, a : Says(w, r, a) => Told(r, a)

RedisInv == \A e \in redis : Carries(e[1]) /\ Told(e[1], e[2])

ApiIInv ==
  /\ LedgerInv /\ ServingInv /\ RedisInv
  /\ activeKeyset \in Keysets2 /\ sigKeyset \in Keysets2 /\ wanted \in ApiRequests

LEMMA WantedIsCarried ==
  ASSUME wanted \in ApiRequests, NEW r \in wanted
  PROVE  Carries(r)
BY ApiAssumption DEF Carries, IsRequest, Outputs

LEMMA ToldStays ==
  ASSUME LedgerInv, NothingIsUndone, NEW r, NEW a, Carries(r), Told(r, a)
  PROVE  Told(r, a)'
<1> SUFFICES ASSUME a.ok PROVE Told(r, a)'
  BY DEF Told, TrueOf
<1>1. Range(a.promises) \cup Range(a.more) \subseteq Restored(r.outs)'
  <2>1. Range(r.outs) \subseteq Outputs
    BY DEF Carries, Range
  <2>2. QED
    BY <2>1 DEF Told, TrueOf, Restored, NothingIsUndone
<1>2. r.path \in {"/v1/mint/bolt11", "/mint"} => mintQuote'[r.quote] = "ISSUED"
  BY DEF Told, TrueOf, Carries, NothingIsUndone
<1>3. r.path \in {"/v1/swap", "/split"} => noteState'[r.uses] = "SPENT"
  BY DEF Told, TrueOf, Carries, NothingIsUndone, CheckState
<1>4. a.state = "PAID" => meltQuote'[r.quote] = "PAID"
  BY DEF Told, TrueOf, NothingIsUndone
<1>5. QED
  BY <1>1, <1>2, <1>3, <1>4 DEF Told, TrueOf, CheckState, CheckSpendableDeprecated

\* A connection goes on, and what was told on the others stays true.
LEMMA ServingGoes ==
  ASSUME ServingInv, LedgerInv, NothingIsUndone, NEW w \in Connections, NEW s, NEW r, NEW a,
         serving' = [serving EXCEPT ![w] = [step |-> s, request |-> r, response |-> a]],
         s # "idle" => Carries(r),
         s \in {"arrived", "cached", "storing"} => r.path # "/melt",
         s \in {"storing", "answered"} /\ r.path # "/melt" => Told(r, a)'
  PROVE  ServingInv'
<1>1. serving' = [v \in Connections |-> serving'[v]]
  BY DEF ServingInv, ServingTyped
<1>2. serving'[w] = [step |-> s, request |-> r, response |-> a]
  BY DEF ServingInv, ServingTyped
<1>3. \A v \in Connections \ {w} : serving'[v] = serving[v]
  BY DEF ServingInv, ServingTyped
<1>4. ServingTyped'
  BY <1>1, <1>2, <1>3 DEF ServingInv, ServingTyped
<1>5. ASSUME NEW v \in Connections, NEW p, NEW b, Says(v, p, b)'
      PROVE  Told(p, b)'
  <2>1. CASE v = w
    <3>1. p = r /\ b = a /\ s \in {"storing", "answered"} /\ r.path # "/melt"
      BY <1>2, <1>5, <2>1 DEF Says
    <3>2. QED
      BY <3>1
  <2>2. CASE v # w
    <3>1. Says(v, p, b) /\ Carries(p)
      BY <1>3, <1>5, <2>2 DEF Says, ServingInv, ServingTyped
    <3>2. QED
      BY <3>1, ToldStays DEF ServingInv
  <2>3. QED
    BY <2>1, <2>2
<1>6. QED
  BY <1>4, <1>5 DEF ServingInv

LEMMA ServingStays ==
  ASSUME ServingInv, LedgerInv, NothingIsUndone, UNCHANGED serving
  PROVE  ServingInv'
<1>1. ASSUME NEW v \in Connections, NEW p, NEW b, Says(v, p, b)'
      PROVE  Told(p, b)'
  <2>1. Says(v, p, b) /\ Carries(p)
    BY <1>1 DEF Says, ServingInv, ServingTyped
  <2>2. QED
    BY <2>1, ToldStays DEF ServingInv
<1>2. QED
  BY <1>1 DEF ServingInv, ServingTyped

LEMMA RedisStays ==
  ASSUME RedisInv, LedgerInv, NothingIsUndone, redis' \subseteq redis
  PROVE  RedisInv'
<1>1. ASSUME NEW e \in redis, NEW r, NEW a, r = e[1], a = e[2]
      PROVE  Told(r, a)'
  BY <1>1, ToldStays DEF RedisInv
<1>2. QED
  BY <1>1 DEF RedisInv

LEMMA ResponseIs ==
  ASSUME NEW promises, NEW standing
  PROVE  /\ Response(promises, standing) = [ok |-> TRUE, promises |-> promises, more |-> <<>>, state |-> standing]
         /\ Error.ok = FALSE
BY DEF Response, Error

LEMMA ErrorIsTold == ASSUME NEW r PROVE Told(r, Error)'
BY ResponseIs DEF Told, TrueOf

\* What an endpoint returns is true of its request when it has been done.
LEMMA NewIsTold ==
  ASSUME NEW r, Carries(r), NEW promises, NEW more, NEW standing,
         Range(promises) \cup Range(more) \subseteq Range(r.outs),
         \A b \in Range(promises) \cup Range(more) : signedBy'[b] # Nobody,
         r.path \in {"/v1/mint/bolt11", "/v1/swap"} => promises = r.outs,
         r.path \in {"/v1/mint/bolt11", "/mint"} => mintQuote'[r.quote] = "ISSUED",
         r.path \in {"/v1/swap", "/split"} => noteState'[r.uses] = "SPENT",
         standing = "PAID" => r.quote \in MeltQuotes /\ meltQuote'[r.quote] = "PAID"
  PROVE  Told(r, [ok |-> TRUE, promises |-> promises, more |-> more, state |-> standing])'
BY DEF Told, TrueOf, Restored, CheckState, CheckSpendableDeprecated

LEMMA ResponseIsTold ==
  ASSUME NEW r, Carries(r), NEW promises, NEW standing, Range(promises) \subseteq Range(r.outs),
         \A b \in Range(promises) : signedBy'[b] # Nobody,
         r.path \in {"/v1/mint/bolt11", "/v1/swap"} => promises = r.outs,
         r.path \in {"/v1/mint/bolt11", "/mint"} => mintQuote'[r.quote] = "ISSUED",
         r.path \in {"/v1/swap", "/split"} => noteState'[r.uses] = "SPENT",
         standing = "PAID" => r.quote \in MeltQuotes /\ meltQuote'[r.quote] = "PAID"
  PROVE  Told(r, Response(promises, standing))'
<1>1. Range(<<>>) = {}
  BY DEF Range
<1>2. Told(r, [ok |-> TRUE, promises |-> promises, more |-> <<>>, state |-> standing])'
  BY <1>1, NewIsTold
<1>3. QED
  BY <1>2 DEF Response

LEMMA OutsAreSigned ==
  ASSUME LedgerInv, NEW r, Carries(r), NEW ks \in Keysets2, signedBy' = Signed(r.outs, ks)
  PROVE  \A b \in Range(r.outs) : signedBy'[b] # Nobody
<1>1. Range(r.outs) \subseteq Outputs
  BY DEF Carries, Range
<1>2. QED
  BY <1>1, SignedStays

LEMMA NoRange == Range(<<>>) = {}
BY DEF Range

\* the two lists of an old client are of its outputs
LEMMA SplitInTwo ==
  ASSUME NEW S, NEW outs \in Seq(S), NEW amount
  PROVE  LET second == SecondList(outs, amount) IN
         Range(second) \cup Range(FirstList(outs, second)) \subseteq Range(outs)
<1> DEFINE behind == {i \in 1 .. Len(outs) : WorthFrom(outs, i + 1) < amount}
           n == Cardinality(behind)
           second == SubSeq(outs, Len(outs) - n + 1, Len(outs))
<1>1. Len(outs) \in Nat /\ \A i \in 1 .. Len(outs) : outs[i] \in Range(outs)
  BY DEF Range
<1>2. n \in 0 .. Len(outs)
  <2>1. IsFiniteSet(1 .. Len(outs)) /\ Cardinality(1 .. Len(outs)) = Len(outs)
    <3>1. /\ IsFiniteSet(1 .. Len(outs))
          /\ Cardinality(1 .. Len(outs)) = IF 1 > Len(outs) THEN 0 ELSE Len(outs) - 1 + 1
      BY <1>1, FS_Interval
    <3>2. QED
      BY <1>1, <3>1
  <2>2. IsFiniteSet(behind) /\ Cardinality(behind) <= Len(outs)
    BY <2>1, FS_Subset
  <2>3. QED
    BY <2>2, FS_CardinalityType
<1> HIDE DEF n
<1>3. second \in Seq(Range(outs)) /\ Len(second) = n
  <2>1. Len(outs) - n + 1 \in Int /\ \A i \in Len(outs) - n + 1 .. Len(outs) : outs[i] \in Range(outs)
    BY <1>1, <1>2
  <2>2. /\ second \in Seq(Range(outs))
        /\ Len(second) = IF Len(outs) - n + 1 <= Len(outs) THEN Len(outs) - (Len(outs) - n + 1) + 1 ELSE 0
    BY <1>1, <2>1, SubSeqProperties
  <2>3. QED
    BY <1>1, <1>2, <2>2
<1> HIDE DEF second
<1>4. SubSeq(outs, 1, Len(outs) - n) \in Seq(Range(outs))
  <2>1. \A i \in 1 .. Len(outs) - n : outs[i] \in Range(outs)
    BY <1>1, <1>2
  <2>2. QED
    BY <1>1, <1>2, <2>1, SubSeqProperties
<1>5. \A s \in Seq(Range(outs)) : Range(s) \subseteq Range(outs)
  BY DEF Range
<1>6. QED
  BY <1>3, <1>4, <1>5 DEF SecondList, FirstList, second, n

\* One step of a connection: what it does, and what it then says.
LEMMA ConnectionGoes ==
  ASSUME ApiIInv, NEW w \in Connections,
         LedgerInv', NothingIsUndone, NEW s, NEW r, NEW a,
         serving' = [serving EXCEPT ![w] = [step |-> s, request |-> r, response |-> a]],
         s # "idle" => Carries(r),
         s \in {"arrived", "cached", "storing"} => r.path # "/melt",
         s \in {"storing", "answered"} /\ r.path # "/melt" => Told(r, a)',
         redis' \subseteq redis, UNCHANGED <<activeKeyset, sigKeyset, wanted>>
  PROVE  ApiIInv'
<1>1. ServingInv'
  BY ServingGoes DEF ApiIInv
<1>2. RedisInv'
  BY RedisStays DEF ApiIInv
<1>3. QED
  BY <1>1, <1>2 DEF ApiIInv

LEMMA CacheKeeps ==
  ASSUME ApiIInv, NEW w \in Connections,
         PostMint(w) \/ PostMelt(w) \/ PostSplit(w) \/ FindCached(w) \/ GetCached(w) \/ SetCached(w)
           \/ Receive(w) \/ \E path \in {"/mint", "/melt", "/split"} : OldPost(w, path)
  PROVE  ApiIInv'
<1>1. PICK r, a : r = serving[w].request /\ a = serving[w].response
  OBVIOUS
<1>2. UNCHANGED <<ledgerVars, activeKeyset, sigKeyset, wanted>>
  BY DEF PostMint, PostMelt, PostSplit, PostCached, OldPost, Post, FindCached, GetCached, SetCached, Receive
<1>3. LedgerInv' /\ NothingIsUndone
  BY <1>2, NothingKeepsLedger DEF ApiIInv
<1>4. serving[w].step # "idle" => Carries(r)
  BY <1>1 DEF ApiIInv, ServingInv, ServingTyped
<1> ServingTyped
  BY DEF ApiIInv, ServingInv
<1>5. CASE \/ PostMint(w) \/ PostMelt(w) \/ PostSplit(w)
           \/ \E path \in {"/mint", "/melt", "/split"} : OldPost(w, path)
  <2>1. PICK new \in wanted, s \in {"arrived", "performing"} :
          /\ Post(w, new, s)
          /\ (s = "arrived" => new.path # "/melt")
    BY <1>5 DEF PostMint, PostMelt, PostSplit, PostCached, OldPost
  <2>2. /\ serving' = [serving EXCEPT ![w] = [step |-> s, request |-> new, response |-> Nobody]]
        /\ UNCHANGED redis
    BY <2>1 DEF Post, Serves
  <2>3. Carries(new)
    BY WantedIsCarried DEF ApiIInv
  <2>4. QED
    BY <1>2, <1>3, <2>1, <2>2, <2>3, ConnectionGoes
<1>6. CASE FindCached(w)
  <2>1. PICK s \in {"cached", "performing"} : Steps(w, s)
    BY <1>6 DEF FindCached
  <2>2. serving[w].step = "arrived" /\ UNCHANGED redis
    BY <1>6 DEF FindCached
  <2>3. r.path # "/melt"
    BY <1>1, <2>2 DEF ApiIInv, ServingInv, ServingTyped
  <2>4. serving' = [serving EXCEPT ![w] = [step |-> s, request |-> r, response |-> a]]
    BY <1>1, <2>1 DEF Steps, Serves
  <2>5. QED
    BY <1>2, <1>3, <1>4, <2>2, <2>3, <2>4, ConnectionGoes
<1>7. CASE GetCached(w)
  <2>1. PICK b : Answer(w, b) /\ (b = Error \/ \E entry \in StoredFor(w) : b = entry[2])
    BY <1>7 DEF GetCached, Refuses
  <2>2. serving[w].step = "cached" /\ UNCHANGED redis
    BY <1>7 DEF GetCached
  <2>3. b = Error \/ Told(r, b)
    BY <1>1, <2>1 DEF StoredFor, Key, ApiIInv, RedisInv
  <2>4. Told(r, b)'
    BY <1>3, <1>4, <2>2, <2>3, ToldStays, ErrorIsTold DEF ApiIInv
  <2>5. serving' = [serving EXCEPT ![w] = [step |-> "answered", request |-> r, response |-> b]]
    BY <1>1, <2>1 DEF Answer, Serves
  <2>6. QED
    BY <1>2, <1>3, <1>4, <2>2, <2>4, <2>5, ConnectionGoes
<1>8. CASE SetCached(w)
  <2>1. /\ serving[w].step = "storing" /\ redis' = (redis \ StoredFor(w)) \cup {<<r, a>>}
        /\ serving' = [serving EXCEPT ![w] = [step |-> "answered", request |-> r, response |-> a]]
    BY <1>1, <1>8 DEF SetCached, Key, Steps, Serves
  <2>2. r.path # "/melt"
    BY <1>1, <2>1 DEF ApiIInv, ServingInv, ServingTyped
  <2>3. Told(r, a)
    BY <1>1, <2>1, <2>2 DEF ApiIInv, ServingInv, Says
  <2>4. Told(r, a)'
    BY <1>3, <1>4, <2>1, <2>3, ToldStays DEF ApiIInv
  <2>6. ServingInv'
    <3>1. Carries(r) /\ ServingInv /\ LedgerInv /\ NothingIsUndone
      BY <1>3, <1>4, <2>1 DEF ApiIInv
    <3>2. QED
      BY <2>1, <2>4, <3>1, ServingGoes
  <2>7. ASSUME NEW e \in redis', NEW p, NEW b, p = e[1], b = e[2]
        PROVE  Carries(p) /\ Told(p, b)'
    <3>1. CASE e = <<r, a>>
      <4>1. p = r /\ b = a
        BY <2>7, <3>1
      <4>2. QED
        BY <1>4, <2>1, <2>4, <4>1
    <3>2. CASE e # <<r, a>>
      <4>1. Carries(p) /\ Told(p, b)
        BY <2>1, <2>7, <3>2 DEF ApiIInv, RedisInv
      <4>2. QED
        BY <1>3, <4>1, ToldStays DEF ApiIInv
    <3>3. QED
      BY <3>1, <3>2
  <2>8. RedisInv'
    BY <2>7 DEF RedisInv
  <2>9. QED
    BY <1>2, <1>3, <2>6, <2>8 DEF ApiIInv
<1>9. CASE Receive(w)
  <2>1. /\ serving' = [serving EXCEPT ![w] = [step |-> "idle", request |-> Nobody, response |-> Nobody]]
        /\ UNCHANGED redis
    BY <1>9 DEF Receive, Free
  <2>2. QED
    BY <1>2, <1>3, <2>1, ConnectionGoes
<1>10. QED
  BY <1>5, <1>6, <1>7, <1>8, <1>9

\* An endpoint that performs what it was asked, or refuses.
LEMMA RouteKeeps ==
  ASSUME ApiIInv, NEW w \in Connections,
         MintRoute(w) \/ SwapRoute(w) \/ MeltRoute(w) \/ MintDeprecated(w) \/ SplitDeprecated(w)
           \/ MeltDeprecated(w)
  PROVE  ApiIInv'
<1>1. PICK r : r = serving[w].request
  OBVIOUS
<1>2. /\ UNCHANGED <<activeKeyset, sigKeyset, wanted, redis>> /\ serving[w].step = "performing"
      /\ r.path \in {"/v1/mint/bolt11", "/mint", "/v1/swap", "/split", "/v1/melt/bolt11", "/melt"}
  BY <1>1 DEF MintRoute, SwapRoute, MeltRoute, MintDeprecated, SplitDeprecated, MeltDeprecated, Performing
<1>3. Carries(r)
  BY <1>1, <1>2 DEF ApiIInv, ServingInv, ServingTyped
<1>4. LedgerInv /\ 0 \in Keysets2 /\ sigKeyset \in Keysets2
  BY DEF ApiIInv, Keysets2
<1>5. ASSUME LedgerInv', NothingIsUndone, Refuses(w) PROVE ApiIInv'
  <2>1. serving' = [serving EXCEPT ![w] = [step |-> "answered", request |-> r, response |-> Error]]
    BY <1>1, <1>5 DEF Refuses, Answer, Serves
  <2>2. QED
    BY <1>2, <1>3, <1>5, <2>1, ErrorIsTold, ConnectionGoes
<1>6. ASSUME LedgerInv', NothingIsUndone, NEW a, r.path # "/melt" => Told(r, a)',
             Answer(w, a) \/ (Returns(w, a) /\ r.path # "/melt")
      PROVE  ApiIInv'
  <2>1. PICK s \in {"storing", "answered"} :
          /\ serving' = [serving EXCEPT ![w] = [step |-> s, request |-> r, response |-> a]]
          /\ s = "storing" => r.path # "/melt"
    BY <1>1, <1>6 DEF Returns, Answer, Serves
  <2>2. QED
    BY <1>2, <1>3, <1>6, <2>1, ConnectionGoes
<1>7. ASSUME UNCHANGED ledgerVars, Refuses(w) PROVE ApiIInv'
  BY <1>4, <1>5, <1>7, NothingKeepsLedger
<1>8. CASE MintRoute(w) \/ MintDeprecated(w)
  <2>1. r.path \in {"/v1/mint/bolt11", "/mint"} /\ r.quote \in MintQuotes
    BY <1>1, <1>3, <1>8 DEF MintRoute, MintDeprecated, Performing, Carries
  <2>2. ASSUME NEW ks \in Keysets2, LedgerMint(r, ks),
               Returns(w, Response(r.outs, "")) \/ Answer(w, Response(r.outs, ""))
        PROVE  ApiIInv'
    <3>1. LedgerInv' /\ NothingIsUndone /\ mintQuote'[r.quote] = "ISSUED"
      BY <1>4, <2>1, <2>2, MintKeepsLedger
    <3>2. \A b \in Range(r.outs) : signedBy'[b] # Nobody
      BY <1>3, <1>4, <2>2, OutsAreSigned DEF LedgerMint
    <3>3. Told(r, Response(r.outs, ""))'
      BY <1>3, <2>1, <3>1, <3>2, ResponseIsTold
    <3>4. QED
      BY <1>6, <2>1, <2>2, <3>1, <3>3
  <2>3. QED
    BY <1>1, <1>4, <1>7, <1>8, <2>2 DEF MintRoute, MintDeprecated, LedgerMintRaises
<1>9. CASE SwapRoute(w)
  <2>1. \/ LedgerSwap(r, 0) /\ Returns(w, Response(r.outs, ""))
        \/ UNCHANGED ledgerVars /\ Refuses(w)
    BY <1>1, <1>9 DEF SwapRoute, LedgerSwapRaises
  <2>2. r.path = "/v1/swap" /\ r.uses \in ApiNotes
    BY <1>1, <1>3, <1>9 DEF SwapRoute, Performing, Carries
  <2>3. CASE LedgerSwap(r, 0)
    <3>1. LedgerInv' /\ NothingIsUndone /\ noteState'[r.uses] = "SPENT"
      BY <1>4, <2>2, <2>3, SwapKeepsLedger
    <3>2. \A b \in Range(r.outs) : signedBy'[b] # Nobody
      BY <1>3, <1>4, <2>3, OutsAreSigned DEF LedgerSwap
    <3>3. Told(r, Response(r.outs, ""))'
      BY <1>3, <2>2, <3>1, <3>2, ResponseIsTold
    <3>4. QED
      BY <1>6, <1>7, <2>1, <2>2, <3>1, <3>3
  <2>4. QED
    BY <1>7, <2>1, <2>3
<1>10. CASE SplitDeprecated(w)
  <2>1. PICK second : /\ second = r.outs \/ second = SecondList(r.outs, r.amount)
                      /\ \/ /\ LedgerSwap(r, sigKeyset)
                            /\ Answer(w, TwoLists(FirstList(r.outs, second), second))
                         \/ UNCHANGED ledgerVars /\ Refuses(w)
    BY <1>1, <1>10 DEF SplitDeprecated, LedgerSwapRaises
  <2>2. r.path = "/split" /\ r.uses \in ApiNotes /\ r.outs \in Seq(Outputs)
    BY <1>1, <1>3, <1>10 DEF SplitDeprecated, Performing, Carries
  <2>3. CASE LedgerSwap(r, sigKeyset)
    <3>1. LedgerInv' /\ NothingIsUndone /\ noteState'[r.uses] = "SPENT"
      BY <1>4, <2>2, <2>3, SwapKeepsLedger
    <3>2. \A b \in Range(r.outs) : signedBy'[b] # Nobody
      BY <1>3, <1>4, <2>3, OutsAreSigned DEF LedgerSwap
    <3>3. Range(second) \cup Range(FirstList(r.outs, second)) \subseteq Range(r.outs)
      <4>1. CASE second = r.outs
        <5>1. Len(r.outs) \in Nat
          BY <2>2
        <5>2. FirstList(r.outs, second) = <<>>
          BY <4>1, <5>1, SubSeqEmpty DEF FirstList
        <5>3. QED
          BY <4>1, <5>2, NoRange
      <4>2. CASE second = SecondList(r.outs, r.amount)
        BY <2>2, <4>2, SplitInTwo
      <4>3. QED
        BY <2>1, <4>1, <4>2
    <3>4. Told(r, TwoLists(FirstList(r.outs, second), second))'
      BY <1>3, <2>2, <3>1, <3>2, <3>3, NewIsTold DEF TwoLists
    <3>5. QED
      BY <1>6, <1>7, <2>1, <2>2, <3>1, <3>4
  <2>4. QED
    BY <1>7, <2>1, <2>3
<1>11. CASE MeltRoute(w) \/ MeltDeprecated(w)
  <2>1. r.uses \in ApiNotes /\ r.path \in {"/v1/melt/bolt11", "/melt"} /\ r.quote \in MeltQuotes
    BY <1>1, <1>3, <1>11 DEF MeltRoute, MeltDeprecated, Performing, Carries
  <2>2. ASSUME NEW ks \in Keysets2, NEW given \in {<<>>, r.outs}, LedgerMeltPays(r, ks, given),
               \/ Returns(w, Response(given, "PAID")) /\ r.path # "/melt"
               \/ Answer(w, Response(given, "PAID"))
        PROVE  ApiIInv'
    <3>1. LedgerInv' /\ NothingIsUndone /\ meltQuote'[r.quote] = "PAID"
      BY <1>4, <2>1, <2>2, PayKeepsLedger
    <3>2. Range(given) \subseteq Range(r.outs) /\ \A b \in Range(given) : signedBy'[b] # Nobody
      <4>1. CASE given = <<>>
        BY <4>1, NoRange
      <4>2. CASE given = r.outs
        BY <1>3, <1>4, <2>2, <4>2, OutsAreSigned DEF LedgerMeltPays
      <4>3. QED
        BY <4>1, <4>2
    <3>3. Told(r, Response(given, "PAID"))'
      BY <1>3, <2>1, <3>1, <3>2, ResponseIsTold
    <3>4. QED
      BY <1>6, <2>2, <3>1, <3>3
  <2>3. ASSUME NEW ks \in Keysets2, LedgerMeltPending(r, ks),
               \/ Returns(w, Response(<<>>, "PENDING")) /\ r.path # "/melt"
               \/ Answer(w, Response(<<>>, "PAID")) /\ r.path = "/melt"
        PROVE  ApiIInv'
    <3>1. LedgerInv' /\ NothingIsUndone
      BY <1>4, <2>1, <2>3, PendingKeepsLedger
    <3>2. r.path # "/melt" => Told(r, Response(<<>>, "PENDING"))'
      BY <1>3, <2>1, NoRange, ResponseIsTold
    <3>3. CASE Returns(w, Response(<<>>, "PENDING")) /\ r.path # "/melt"
      BY <1>6, <3>1, <3>2, <3>3
    <3>4. CASE Answer(w, Response(<<>>, "PAID")) /\ r.path = "/melt"
      BY <1>6, <3>1, <3>4
    <3>5. QED
      BY <2>3, <3>3, <3>4
  <2>4. ASSUME NEW ks \in Keysets2, LedgerMeltRaises(r, ks), Refuses(w)
        PROVE  ApiIInv'
    BY <1>4, <1>5, <2>1, <2>4, PendingKeepsLedger
  <2>5. CASE MeltRoute(w)
    BY <1>1, <1>4, <2>2, <2>3, <2>4, <2>5 DEF MeltRoute, Performing
  <2>6. CASE MeltDeprecated(w)
    BY <1>1, <1>4, <2>2, <2>3, <2>4, <2>6 DEF MeltDeprecated, Performing
  <2>7. QED
    BY <1>11, <2>5, <2>6
<1>12. QED
  BY <1>8, <1>9, <1>10, <1>11

LEMMA OldMeltQuoteKeeps ==
  ASSUME ApiIInv, NEW w \in Connections, QuoteOfMeltDeprecated(w)
  PROVE  ApiIInv'
<1>1. PICK r : r = serving[w].request
  OBVIOUS
<1>2. /\ UNCHANGED <<activeKeyset, sigKeyset, wanted, redis>>
      /\ serving[w].step = "performing" /\ r.path = "/melt"
  BY <1>1 DEF QuoteOfMeltDeprecated, Performing
<1>3. Carries(r) /\ LedgerInv
  BY <1>1, <1>2 DEF ApiIInv, ServingInv, ServingTyped
<1>4. CASE \E q \in OwnQuotes : StoreMeltQuote(q) /\ Serves(w, "performing", [r EXCEPT !.quote = q], Nobody)
  <2>1. PICK q, new : /\ q \in OwnQuotes /\ StoreMeltQuote(q) /\ new = [r EXCEPT !.quote = q]
                      /\ Serves(w, "performing", new, Nobody)
    BY <1>4
  <2>2. q \in MeltQuotes
    BY <2>1 DEF OwnQuotes
  <2>3. new = [path |-> r.path, uses |-> r.uses, quote |-> q, outs |-> r.outs, amount |-> r.amount]
    <3>1. PICK p, u, z, os, am : r = [path |-> p, uses |-> u, quote |-> z, outs |-> os, amount |-> am]
      BY <1>3 DEF Carries
    <3>2. [r EXCEPT !.quote = q] = [path |-> p, uses |-> u, quote |-> q, outs |-> os, amount |-> am]
      BY <3>1
    <3>3. QED
      BY <2>1, <3>1, <3>2
  <2>4. Carries(new)
    BY <1>2, <1>3, <2>2, <2>3 DEF Carries
  <2>5. LedgerInv' /\ NothingIsUndone
    BY <1>3, <2>1, <2>2, StoreQuoteKeepsLedger
  <2>6. QED
    BY <1>2, <2>1, <2>4, <2>5, ConnectionGoes DEF Serves
<1>5. CASE MeltQuoteRaises /\ Refuses(w)
  <2>1. LedgerInv' /\ NothingIsUndone
    BY <1>3, <1>5, NothingKeepsLedger DEF MeltQuoteRaises
  <2>2. serving' = [serving EXCEPT ![w] = [step |-> "answered", request |-> r, response |-> Error]]
    BY <1>1, <1>5 DEF Refuses, Answer, Serves
  <2>3. QED
    BY <1>2, <1>3, <2>1, <2>2, ErrorIsTold, ConnectionGoes
<1>6. QED
  BY <1>1, <1>4, <1>5 DEF QuoteOfMeltDeprecated

\* What no connection does: quotes, the cache's expiry, rotations.
LEMMA ElsewhereKeeps ==
  ASSUME ApiIInv, LedgerInv', NothingIsUndone, UNCHANGED <<serving, wanted>>,
         redis' \subseteq redis, activeKeyset' \in Keysets2, sigKeyset' \in Keysets2
  PROVE  ApiIInv'
BY ServingStays, RedisStays DEF ApiIInv

LEMMA ApiDiesKeeps ==
  ASSUME ApiIInv, ApiDies
  PROVE  ApiIInv'
<1>1. /\ UNCHANGED <<ledgerVars, activeKeyset, wanted, redis>> /\ sigKeyset' = activeKeyset
      /\ serving' = [w \in Connections |-> [step |-> "idle", request |-> Nobody, response |-> Nobody]]
  BY DEF ApiDies, Free
<1>2. LedgerInv' /\ NothingIsUndone
  BY <1>1, NothingKeepsLedger DEF ApiIInv
<1>3. ServingInv'
  BY <1>1 DEF ServingInv, ServingTyped, Says
<1>4. RedisInv'
  BY <1>1, <1>2, RedisStays DEF ApiIInv
<1>5. QED
  BY <1>1, <1>2, <1>3, <1>4 DEF ApiIInv

\* The ledger, what is stored in Redis and what is on its way to a client.
THEOREM ApiInvariant == ApiSpec => []ApiIInv
<1>1. ApiInit => ApiIInv
  <2> SUFFICES ASSUME ApiInit PROVE ApiIInv
    OBVIOUS
  <2>1. LedgerInv
    BY ApiAssumption DEF ApiInit, LedgerInv, LedgerTyped, HeldIsPending, OneQuotePays, Paying, Outputs
  <2>2. serving = [w \in Connections |-> [step |-> "idle", request |-> Nobody, response |-> Nobody]]
    BY DEF ApiInit, Free
  <2>3. ServingInv
    BY <2>2 DEF ServingInv, ServingTyped, Says
  <2>4. QED
    BY <2>1, <2>3 DEF ApiInit, ApiIInv, RedisInv, Keysets2
<1>2. ApiIInv /\ [ApiNext]_apiVars => ApiIInv'
  <2> SUFFICES ASSUME ApiIInv, [ApiNext]_apiVars PROVE ApiIInv'
    OBVIOUS
  <2>1. LedgerInv /\ activeKeyset \in Keysets2 /\ sigKeyset \in Keysets2
    BY DEF ApiIInv
  <2>2. ASSUME NEW q \in MeltQuotes, CreateMeltQuote(q) \/ GetMeltQuote(q) PROVE ApiIInv'
    <3>1. LedgerInv' /\ NothingIsUndone
      BY <2>1, <2>2, StoreQuoteKeepsLedger, NothingKeepsLedger, PollKeepsLedger
      DEF CreateMeltQuote, GetMeltQuote, MeltQuoteRaises
    <3>2. QED
      BY <2>1, <2>2, <3>1, ElsewhereKeeps DEF CreateMeltQuote, GetMeltQuote, AboutQuotes
  <2>3. ASSUME NEW q \in MintQuotes, CreateMintQuote(q) \/ GetMintQuote(q) PROVE ApiIInv'
    <3>1. LedgerInv' /\ NothingIsUndone
      BY <2>1, <2>3, QuoteRequestsKeepLedger
    <3>2. QED
      BY <2>1, <2>3, <3>1, ElsewhereKeeps DEF CreateMintQuote, GetMintQuote, AboutQuotes
  <2>4. CASE RotateActiveKeyset \/ (\E entry \in redis : CacheExpires(entry)) \/ UNCHANGED apiVars
    <3>1. /\ UNCHANGED <<ledgerVars, serving, wanted, sigKeyset>> /\ redis' \subseteq redis
          /\ activeKeyset' \in {activeKeyset, 1}
      BY <2>4 DEF RotateActiveKeyset, CacheExpires, apiVars
    <3>2. LedgerInv' /\ NothingIsUndone
      BY <2>1, <3>1, NothingKeepsLedger
    <3>3. activeKeyset' \in Keysets2
      BY <2>1, <3>1 DEF Keysets2
    <3>4. QED
      BY <2>1, <3>1, <3>2, <3>3, ElsewhereKeeps
  <2>5. CASE ApiDies
    BY <2>5, ApiDiesKeeps
  <2>6. CASE CheckFees
    BY <2>2, <2>6 DEF CheckFees, OwnQuotes
  <2>7. CASE \E w \in Connections : V1(w) \/ Deprecated(w) \/ Receive(w)
    BY <2>7, CacheKeeps, RouteKeeps, OldMeltQuoteKeeps DEF V1, Deprecated
  <2>8. QED
    BY <2>2, <2>3, <2>4, <2>5, <2>6, <2>7 DEF ApiNext, RequestMintDeprecated
<1>3. QED
  BY <1>1, <1>2, PTL DEF ApiSpec

\* What a client is told, by an endpoint or from the cache, however often it
\* asks and the mint dies, is true of its request; the deprecated POST /melt,
\* which tells of payments that are pending as paid, is left out.
THEOREM ClientsAreToldTheTruth == ApiSpec => []AnswersAreTrue
<1>1. ApiIInv => AnswersAreTrue
  <2> SUFFICES ASSUME ApiIInv, NEW w \in Connections, serving[w].request.path # "/melt",
                      serving[w].step = "answered"
               PROVE  TrueOf(serving[w].request, serving[w].response)
    BY DEF AnswersAreTrue, TrueAnswer
  <2>1. Says(w, serving[w].request, serving[w].response)
    BY DEF Says
  <2>2. QED
    BY <2>1 DEF ApiIInv, ServingInv, Told
<1>2. QED
  BY <1>1, ApiInvariant, PTL

\* One invoice is paid for one quote, however many it has, of both interfaces, with
\* the backends whose checking_id is the invoice's.
THEOREM InvoicesArePaidOnce == ApiSpec => []InvoicePaidOnce
<1>1. ApiIInv => InvoicePaidOnce
  <2> SUFFICES ASSUME ApiIInv, ~IdPerQuote PROVE PaidForOneQuote
    BY DEF InvoicePaidOnce
  <2> DEFINE P == {q \in MeltQuotes : meltQuote[q] \in {"PENDING", "PAID"}}
  <2>1. \A q, p \in P : q = p
    BY DEF ApiIInv, LedgerInv, OneQuotePays, Paying
  <2>2. CASE P = {}
    BY <2>2, FS_EmptySet DEF PaidForOneQuote
  <2>3. CASE P # {}
    <3>1. PICK q \in P : P = {q}
      BY <2>1, <2>3
    <3>2. QED
      BY <3>1, FS_Singleton DEF PaidForOneQuote
  <2>4. QED
    BY <2>2, <2>3
<1>2. QED
  BY <1>1, ApiInvariant, PTL
=============================================================================
