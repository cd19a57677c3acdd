----------------------------- MODULE EcashProofs -----------------------------
(***************************************************************************)
(* Proofs about what notes and tokens are made of: blind signatures, the    *)
(* locks on notes, their amounts, and the tokens they travel in.            *)
(***************************************************************************)
EXTENDS BlindSignature, SpendingConditions, Amounts, Tokens, SumProofs, FiniteSetTheorems,
        SequenceTheorems, TLAPS

-----------------------------------------------------------------------------
(***************************************************************************)
(* Blind signatures over any group: what is unblinded verifies, an honest  *)
(* DLEQ proof convinces, and two answers to one commitment give a          *)
(* signature under the published key.                                      *)
(***************************************************************************)

(* What each stage of a token has computed.                                 *)
BlindedRight(x) ==
  tokenStage[x] # "secret" =>
    blinded[x] = PAdd(Hash(x, usesOld[x]), Times(blinding[x], G))

SignedRight(x) ==
  tokenStage[x] \in {"signed", "unblinded"} =>
    /\ blindSig[x] = Times(MintKey, blinded[x])
    /\ \E p \in PrivateKeys :
         /\ dleqE[x] = HashE(Times(p, G), Times(p, blinded[x]), MintPub, blindSig[x])
         /\ dleqS[x] = SAdd(p, SMul(MintKey, dleqE[x]))

UnblindedRight(x) ==
  tokenStage[x] = "unblinded" =>
    unblinded[x] = PSub(blindSig[x], Times(blinding[x], MintPub))

BlindInv ==
  /\ BlindTypeOK
  /\ \A x \in Secrets : BlindedRight(x) /\ SignedRight(x) /\ UnblindedRight(x)

-----------------------------------------------------------------------------
(* Adding a point and taking it away gives the point back.                  *)
LEMMA AddSub ==
  ASSUME NEW P \in Points, NEW Q \in Points
  PROVE  PSub(PAdd(P, Q), Q) = P
BY GroupLaws DEF GroupAssumption, PSub

(* Taking a point away and adding it gives the point back.                  *)
LEMMA SubAdd ==
  ASSUME NEW P \in Points, NEW Q \in Points
  PROVE  PAdd(PSub(P, Q), Q) = P
<1>1. PSub(P, Q) = PAdd(P, Neg(Q)) /\ Neg(Q) \in Points
  BY GroupLaws DEF GroupAssumption, PSub
<1>2. PAdd(PAdd(P, Neg(Q)), Q) = PAdd(P, PAdd(Neg(Q), Q))
  BY <1>1, GroupLaws DEF GroupAssumption
<1>3. PAdd(Neg(Q), Q) = Infinity
  BY <1>1, GroupLaws DEF GroupAssumption
<1> QED
  BY <1>1, <1>2, <1>3, GroupLaws DEF GroupAssumption

(* Scalars commute on a point: k * (l * P) = l * (k * P).                   *)
LEMMA TimesCommute ==
  ASSUME NEW k \in Scalars, NEW l \in Scalars, NEW P \in Points
  PROVE  Times(k, Times(l, P)) = Times(l, Times(k, P))
<1>1. SMul(k, l) = SMul(l, k)
  BY GroupLaws DEF GroupAssumption
<1>2. Times(SMul(k, l), P) = Times(k, Times(l, P))
  BY GroupLaws DEF GroupAssumption
<1>3. Times(SMul(l, k), P) = Times(l, Times(k, P))
  BY GroupLaws DEF GroupAssumption
<1> QED
  BY <1>1, <1>2, <1>3

(* Unblinding takes exactly the blinding off: the result is a * Y.          *)
LEMMA UnblindIsSignature ==
  ASSUME NEW Y \in Points, NEW k \in Scalars
  PROVE  PSub(Times(MintKey, PAdd(Y, Times(k, G))), Times(k, MintPub))
           = Times(MintKey, Y)
<1>1. MintKey \in Scalars /\ G \in Points
  BY GroupLaws, HashTypes DEF GroupAssumption, HashAssumption, PrivateKeys
<1>2. Times(k, G) \in Points /\ Times(MintKey, Y) \in Points
  BY <1>1, GroupLaws DEF GroupAssumption
<1>3. Times(MintKey, PAdd(Y, Times(k, G)))
        = PAdd(Times(MintKey, Y), Times(MintKey, Times(k, G)))
  BY <1>1, <1>2, GroupLaws DEF GroupAssumption
<1>4. Times(MintKey, Times(k, G)) = Times(k, MintPub)
  BY <1>1, TimesCommute DEF MintPub
<1>5. Times(MintKey, Times(k, G)) \in Points
  BY <1>1, <1>2, GroupLaws DEF GroupAssumption
<1> QED
  BY <1>2, <1>3, <1>4, <1>5, AddSub

(* An honest response opens its commitment on every point: s * P - e * aP   *)
(* is p * P.                                                                *)
LEMMA ResponseOpens ==
  ASSUME NEW p \in Scalars, NEW h \in Scalars, NEW P \in Points
  PROVE  PSub(Times(SAdd(p, SMul(MintKey, h)), P), Times(h, Times(MintKey, P)))
           = Times(p, P)
<1>1. MintKey \in Scalars
  BY HashTypes DEF HashAssumption, PrivateKeys
<1>2. SMul(MintKey, h) \in Scalars
  BY <1>1, GroupLaws DEF GroupAssumption
<1>3. Times(SAdd(p, SMul(MintKey, h)), P)
        = PAdd(Times(p, P), Times(SMul(MintKey, h), P))
  BY <1>2, GroupLaws DEF GroupAssumption
<1>4. Times(SMul(MintKey, h), P) = Times(MintKey, Times(h, P))
  BY <1>1, GroupLaws DEF GroupAssumption
<1>5. Times(MintKey, Times(h, P)) = Times(h, Times(MintKey, P))
  BY <1>1, TimesCommute
<1>6. Times(p, P) \in Points /\ Times(h, Times(MintKey, P)) \in Points
  BY <1>1, GroupLaws DEF GroupAssumption
<1> QED
  BY <1>3, <1>4, <1>5, <1>6, AddSub

-----------------------------------------------------------------------------
\* It holds when nothing has been blinded.
LEMMA BlindInitInv == BlindInit => BlindInv
BY GroupLaws DEF GroupAssumption, BlindInit, BlindInv, BlindTypeOK, Stages,
   BlindedRight, SignedRight, UnblindedRight

\* And every step of Alice and of Bob keeps it.
LEMMA BlindStepInv == BlindInv /\ [BlindNext]_blindVars => BlindInv'
<1> SUFFICES ASSUME BlindInv, [BlindNext]_blindVars PROVE BlindInv'
  OBVIOUS
<1> USE DEF BlindInv, BlindTypeOK, Stages
<1>1. ASSUME NEW x \in Secrets, NEW d \in BOOLEAN, NEW k \in PrivateKeys,
             Step1Alice(x, d, k)
      PROVE  BlindInv'
  <2>1. k \in Scalars /\ Hash(x, d) \in Points
    BY HashTypes DEF HashAssumption, PrivateKeys, Hash
  <2>2. PAdd(Hash(x, d), Times(k, G)) \in Points
    BY <2>1, GroupLaws DEF GroupAssumption
  <2>3. BlindTypeOK'
    BY <1>1, <2>1, <2>2 DEF Step1Alice
  <2>4. ASSUME NEW y \in Secrets
        PROVE  (BlindedRight(y) /\ SignedRight(y) /\ UnblindedRight(y))'
    BY <1>1 DEF Step1Alice, BlindedRight, SignedRight, UnblindedRight, Hash
  <2> QED
    BY <2>3, <2>4
<1>2. ASSUME NEW x \in Secrets, NEW p \in PrivateKeys, Step2Bob(x, p)
      PROVE  BlindInv'
  <2>1. MintKey \in Scalars /\ p \in Scalars
    BY HashTypes DEF HashAssumption, PrivateKeys
  <2>2. Times(MintKey, blinded[x]) \in Points
    BY <2>1, GroupLaws DEF GroupAssumption
  <2>3. BlindTypeOK'
    BY <1>2, <2>2 DEF Step2Bob, PrivateKeys
  <2>4. ASSUME NEW y \in Secrets
        PROVE  (BlindedRight(y) /\ UnblindedRight(y))'
    BY <1>2 DEF Step2Bob, BlindedRight, UnblindedRight, Hash
  <2>5. ASSUME NEW y \in Secrets PROVE SignedRight(y)'
    <3>1. CASE y = x
      BY <1>2, <3>1 DEF Step2Bob, SignedRight
    <3>2. CASE y # x
      BY <1>2, <3>2 DEF Step2Bob, SignedRight
    <3> QED
      BY <3>1, <3>2
  <2> QED
    BY <2>3, <2>4, <2>5
<1>3. ASSUME NEW x \in Secrets, Step3Alice(x)
      PROVE  BlindInv'
  <2>1. MintPub \in Points
    BY GroupLaws, HashTypes
    DEF GroupAssumption, HashAssumption, MintPub, PrivateKeys
  <2>2. PSub(blindSig[x], Times(blinding[x], MintPub)) \in Points
    BY <2>1, GroupLaws DEF GroupAssumption, PSub
  <2>3. BlindTypeOK'
    BY <1>3, <2>2 DEF Step3Alice
  <2>4. ASSUME NEW y \in Secrets
        PROVE  (BlindedRight(y) /\ SignedRight(y) /\ UnblindedRight(y))'
    BY <1>3 DEF Step3Alice, BlindedRight, SignedRight, UnblindedRight, Hash
  <2> QED
    BY <2>3, <2>4
<1>4. ASSUME UNCHANGED blindVars PROVE BlindInv'
  BY <1>4 DEF blindVars, BlindedRight, SignedRight, UnblindedRight, Hash
<1> QED
  BY <1>1, <1>2, <1>3, <1>4 DEF BlindNext

(* The inductive invariant of the scheme.                                   *)
THEOREM BlindInvariant == BlindSpec => []BlindInv
BY BlindInitInv, BlindStepInv, PTL DEF BlindSpec

(* In every group, ecash that was blinded, signed and unblinded verifies    *)
(* (b_dhke.py:109-116).                                                     *)
THEOREM UnblindedAlwaysVerifies == BlindSpec => []UnblindedVerifies
<1>1. BlindInv => UnblindedVerifies
  <2> SUFFICES ASSUME BlindInv, NEW x \in Secrets, tokenStage[x] = "unblinded"
               PROVE  Verify(unblinded[x], x)
    BY DEF UnblindedVerifies
  <2> DEFINE Y == Hash(x, usesOld[x])
  <2>1. Y \in Points /\ blinding[x] \in Scalars
    BY HashTypes DEF HashAssumption, Hash, BlindInv, BlindTypeOK
  <2>2. unblinded[x]
          = PSub(Times(MintKey, PAdd(Y, Times(blinding[x], G))),
                 Times(blinding[x], MintPub))
    BY DEF BlindInv, BlindedRight, SignedRight, UnblindedRight
  <2>3. unblinded[x] = Times(MintKey, Y)
    BY <2>1, <2>2, UnblindIsSignature
  <2> QED
    BY <2>3 DEF Verify, Hash
<1> QED
  BY <1>1, BlindInvariant, PTL

(* In every group and for every hash, the DLEQ proof of an honest mint      *)
(* convinces the wallet that asked and whoever receives the token           *)
(* (b_dhke.py:151-176).                                                     *)
THEOREM DleqAlwaysConvinces == BlindSpec => []DleqConvinces
<1>1. BlindInv => DleqConvinces
  <2> SUFFICES ASSUME BlindInv, NEW x \in Secrets, tokenStage[x] = "unblinded"
               PROVE  /\ AliceVerifyDleq(blinded[x], blindSig[x], dleqE[x], dleqS[x])
                      /\ CarolVerifyDleq(x, blinding[x], unblinded[x],
                                         dleqE[x], dleqS[x])
    BY DEF DleqConvinces
  <2>1. PICK p \in PrivateKeys :
          /\ dleqE[x] = HashE(Times(p, G), Times(p, blinded[x]), MintPub, blindSig[x])
          /\ dleqS[x] = SAdd(p, SMul(MintKey, dleqE[x]))
    BY DEF BlindInv, SignedRight
  <2>2. /\ p \in Scalars /\ dleqE[x] \in Scalars /\ MintKey \in Scalars
        /\ blinding[x] \in Scalars
        /\ blinded[x] \in Points /\ blindSig[x] \in Points /\ G \in Points
    BY GroupLaws, HashTypes
    DEF GroupAssumption, HashAssumption, PrivateKeys, BlindInv, BlindTypeOK
  <2>3. DleqR1(dleqE[x], dleqS[x]) = Times(p, G)
    BY <2>1, <2>2, ResponseOpens DEF DleqR1, MintPub
  <2>4. blindSig[x] = Times(MintKey, blinded[x])
    BY DEF BlindInv, SignedRight
  <2>5. DleqR2(blinded[x], blindSig[x], dleqE[x], dleqS[x]) = Times(p, blinded[x])
    BY <2>1, <2>2, <2>4, ResponseOpens DEF DleqR2
  <2>6. AliceVerifyDleq(blinded[x], blindSig[x], dleqE[x], dleqS[x])
    BY <2>1, <2>3, <2>5 DEF AliceVerifyDleq
  <2>7. blinded[x] = PAdd(Hash(x, usesOld[x]), Times(blinding[x], G))
    BY DEF BlindInv, BlindedRight
  <2>8. MintPub \in Points /\ Times(blinding[x], MintPub) \in Points
    BY <2>2, GroupLaws DEF GroupAssumption, MintPub
  <2>9. blindSig[x] = PAdd(unblinded[x], Times(blinding[x], MintPub))
    BY <2>2, <2>8, SubAdd DEF BlindInv, UnblindedRight
  <2>10. usesOld[x] \in BOOLEAN
    BY DEF BlindInv, BlindTypeOK
  <2>11. AliceVerifyDleq(PAdd(Hash(x, usesOld[x]), Times(blinding[x], G)),
                         PAdd(unblinded[x], Times(blinding[x], MintPub)),
                         dleqE[x], dleqS[x])
    BY <2>6, <2>7, <2>9
  <2>12. CarolVerifyDleq(x, blinding[x], unblinded[x], dleqE[x], dleqS[x])
    BY <2>10, <2>11 DEF CarolVerifyDleq
  <2> QED
    BY <2>6, <2>12
<1> QED
  BY <1>1, BlindInvariant, PTL

-----------------------------------------------------------------------------
(* Equal differences, crosswise: P - Q = R - S gives P + S = R + Q.         *)
LEMMA CrossSub ==
  ASSUME NEW P \in Points, NEW Q \in Points, NEW R \in Points,
         NEW S \in Points, PSub(P, Q) = PSub(R, S)
  PROVE  PAdd(P, S) = PAdd(R, Q)
<1> DEFINE T == PSub(P, Q)
<1>1. T \in Points
  BY GroupLaws DEF GroupAssumption, PSub
<1>2. P = PAdd(T, Q) /\ R = PAdd(T, S)
  BY SubAdd
<1> HIDE DEF T
<1>3. PAdd(PAdd(T, Q), S) = PAdd(T, PAdd(Q, S))
  BY <1>1, GroupLaws DEF GroupAssumption
<1>4. PAdd(PAdd(T, S), Q) = PAdd(T, PAdd(S, Q))
  BY <1>1, GroupLaws DEF GroupAssumption
<1>5. PAdd(Q, S) = PAdd(S, Q)
  BY GroupLaws DEF GroupAssumption
<1> QED
  BY <1>2, <1>3, <1>4, <1>5

(* The last two of three points change places.                              *)
LEMMA SwapLast ==
  ASSUME NEW P \in Points, NEW Q \in Points, NEW R \in Points
  PROVE  PAdd(P, PAdd(Q, R)) = PAdd(PAdd(P, R), Q)
<1>1. PAdd(Q, R) = PAdd(R, Q)
  BY GroupLaws DEF GroupAssumption
<1> QED
  BY <1>1, GroupLaws DEF GroupAssumption

(* A point added on both sides cancels.                                     *)
LEMMA AddCancels ==
  ASSUME NEW P \in Points, NEW Q \in Points, NEW R \in Points,
         PAdd(R, P) = PAdd(R, Q)
  PROVE  P = Q
<1>1. PAdd(P, R) = PAdd(Q, R)
  BY GroupLaws DEF GroupAssumption
<1> QED
  BY <1>1, AddSub

(* The DLEQ proof is sound (b_dhke.py:151-157): whoever can answer two      *)
(* different challenges on one commitment has signed with the published     *)
(* key, so a mint cannot tag a wallet with a key of its own and convince    *)
(* it, unless it guesses the challenge.                                     *)
THEOREM DleqSoundness ==
  ASSUME NEW B \in Points, NEW c_ \in Points,
         NEW h1 \in Scalars, NEW h2 \in Scalars, h1 # h2,
         NEW s1 \in Scalars, NEW s2 \in Scalars,
         DleqR1(h1, s1) = DleqR1(h2, s2),
         DleqR2(B, c_, h1, s1) = DleqR2(B, c_, h2, s2)
  PROVE  c_ = Times(MintKey, B)
<1> DEFINE aB == Times(MintKey, B)
           D == PSub(c_, aB)
<1>1. MintKey \in Scalars /\ G \in Points
  BY GroupLaws, HashTypes DEF GroupAssumption, HashAssumption, PrivateKeys
<1>2. MintPub \in Points /\ aB \in Points
  BY <1>1, GroupLaws DEF GroupAssumption, MintPub
<1>3. D \in Points /\ c_ = PAdd(D, aB)
  BY <1>2, SubAdd, GroupLaws DEF GroupAssumption, PSub
<1>4. \A k \in Scalars, P \in Points : Times(k, P) \in Points
  BY GroupLaws DEF GroupAssumption
<1>5. PAdd(Times(s1, G), Times(h2, MintPub)) = PAdd(Times(s2, G), Times(h1, MintPub))
  BY <1>1, <1>2, <1>4, CrossSub DEF DleqR1
<1>6. ASSUME NEW k \in Scalars, NEW l \in Scalars, NEW P \in Points
      PROVE  /\ SAdd(k, SMul(l, MintKey)) \in Scalars
             /\ PAdd(Times(k, P), Times(l, Times(MintKey, P)))
                  = Times(SAdd(k, SMul(l, MintKey)), P)
  <2>1. SMul(l, MintKey) \in Scalars
    BY <1>1, GroupLaws DEF GroupAssumption
  <2>2. Times(SMul(l, MintKey), P) = Times(l, Times(MintKey, P))
    BY <1>1, GroupLaws DEF GroupAssumption
  <2> QED
    BY <2>1, <2>2, GroupLaws DEF GroupAssumption
<1>7. SAdd(s1, SMul(h2, MintKey)) = SAdd(s2, SMul(h1, MintKey))
  <2>1. Times(SAdd(s1, SMul(h2, MintKey)), G) = Times(SAdd(s2, SMul(h1, MintKey)), G)
    BY <1>1, <1>5, <1>6 DEF MintPub
  <2> QED
    BY <1>1, <1>6, <2>1, PrimeOrder DEF PrimeOrderAssumption
<1> DEFINE W == PAdd(Times(s1, B), Times(h2, aB))
<1>8. W = PAdd(Times(s2, B), Times(h1, aB))
  BY <1>6, <1>7
<1>9. PAdd(Times(s1, B), Times(h2, c_)) = PAdd(Times(s2, B), Times(h1, c_))
  BY <1>4, CrossSub DEF DleqR2
<1> HIDE DEF D, aB
<1>10. /\ Times(h1, c_) = PAdd(Times(h1, D), Times(h1, aB))
       /\ Times(h2, c_) = PAdd(Times(h2, D), Times(h2, aB))
  BY <1>2, <1>3, GroupLaws DEF GroupAssumption
<1>11. PAdd(Times(s1, B), Times(h2, c_)) = PAdd(W, Times(h2, D))
  BY <1>2, <1>3, <1>4, <1>10, SwapLast
<1>12. PAdd(Times(s2, B), Times(h1, c_)) = PAdd(W, Times(h1, D))
  BY <1>2, <1>3, <1>4, <1>8, <1>10, SwapLast
<1>13. W \in Points
  BY <1>2, <1>4, GroupLaws DEF GroupAssumption
<1>14. Times(h2, D) = Times(h1, D)
  <2>1. PAdd(W, Times(h2, D)) = PAdd(W, Times(h1, D))
    BY <1>9, <1>11, <1>12
  <2>2. Times(h1, D) \in Points /\ Times(h2, D) \in Points
    BY <1>3, <1>4
  <2> HIDE DEF W
  <2> QED
    BY <1>13, <2>1, <2>2, AddCancels
<1>15. D = Infinity
  BY <1>3, <1>14, PrimeOrder DEF PrimeOrderAssumption
<1>16. PAdd(D, aB) = aB
  <2>1. PAdd(D, aB) = PAdd(aB, Infinity)
    BY <1>2, <1>3, <1>15, GroupLaws DEF GroupAssumption
  <2> QED
    BY <2>1, <1>2, GroupLaws DEF GroupAssumption
<1> QED
  BY <1>3, <1>16 DEF aB

-----------------------------------------------------------------------------
(***************************************************************************)
(* Spending conditions: a note moves when enough of those its lock names   *)
(* have signed, and only then, for any locks, owners and requests.         *)
(***************************************************************************)

SigsOf(w) == IF w # NoWitness THEN w.sigs ELSE <<>>

ConditionsTyped ==
  /\ lock \in [Proofs -> Locks \cup {NoLock}]
  /\ wit \in [Proofs -> Witnesses \cup {NoWitness}]
  /\ now \in Nat
  /\ approvals \in [Proofs -> SUBSET (Owners \X Requests \X Targets)]
  /\ accepted \in [inputs : Requests, target : Targets, at : Nat] \cup {NoRequest}

\* Nobody signs, and the mint accepts nothing, before all secrets are written.
LockedFirst ==
  ~Locked => /\ accepted = NoRequest
             /\ \A p \in Proofs : wit[p] = NoWitness /\ approvals[p] = {}

\* A signature on a proof was approved: of the proof, or of the request it is on.
SigsAreApproved ==
  \A p \in Proofs : \A s \in Range(Sigs(p)) :
    \E a \in approvals[p] : s[1] = a[1] /\ s[2] \in {p, <<a[2], a[3]>>}

\* An owner who approved has signed whatever its wallet signs for it.
ApprovalsAreSigned ==
  \A p \in Proofs : \A a \in approvals[p] :
    /\ SignsInput(a[1], p) => <<a[1], p>> \in Range(Sigs(p))
    /\ SigAll(lock[p]) /\ p = a[2][1] /\ SignsAll(a[1], a[2])
         => <<a[1], <<a[2], a[3]>>>> \in Range(Sigs(p))

SigsAreDistinct == \A p \in Proofs : IsInjective(Sigs(p))

ConditionsIInv ==
  /\ ConditionsTyped /\ LockedFirst /\ SigsAreApproved /\ ApprovalsAreSigned /\ SigsAreDistinct
  /\ OwnersConsented

-----------------------------------------------------------------------------
(* Quorums *)

\* What a sequence holds is finite, no more than it is long.
LEMMA RangeIsFinite ==
  ASSUME NEW S, NEW seq \in Seq(S)
  PROVE  /\ Range(seq) \in SUBSET S /\ IsFiniteSet(Range(seq))
         /\ Cardinality(Range(seq)) \in Nat /\ Cardinality(Range(seq)) <= Len(seq)
<1>1. seq \in [1 .. Len(seq) -> S] /\ Len(seq) \in Nat /\ DOMAIN seq = 1 .. Len(seq)
  OBVIOUS
<1>2. seq \in Surjection(1 .. Len(seq), Range(seq))
  BY <1>1 DEF Surjection, Range
<1> DEFINE n == Len(seq)
<1>n. n \in Nat
  BY <1>1
<1> HIDE DEF n
<1>3a. n \in Int /\ 1 \in Int
  BY <1>n
<1>3b. IsFiniteSet(1 .. n) /\ Cardinality(1 .. n) = IF 1 > n THEN 0 ELSE n - 1 + 1
  BY <1>3a, FS_Interval
<1>3c. Cardinality(1 .. n) = n
  BY <1>n, <1>3b
<1>3. IsFiniteSet(1 .. Len(seq)) /\ Cardinality(1 .. Len(seq)) = Len(seq)
  BY <1>3b, <1>3c DEF n
<1>4. QED
  BY <1>1, <1>2, <1>3, FS_Surjection, FS_CardinalityType DEF Range

\* What a sequence holds once a new element is appended.
LEMMA AppendedSignature ==
  ASSUME NEW S, NEW seq \in Seq(S), NEW e \in S, e \notin Range(seq)
  PROVE  /\ Range(Append(seq, e)) = Range(seq) \cup {e}
         /\ IsInjective(seq) => IsInjective(Append(seq, e))
<1> DEFINE n == Len(seq)
           new == Append(seq, e)
<1>1. n \in Nat /\ DOMAIN seq = 1 .. n /\ DOMAIN new = 1 .. (n + 1)
  OBVIOUS
<1>2. (\A i \in 1 .. n : new[i] = seq[i]) /\ new[n + 1] = e
  OBVIOUS
<1> HIDE DEF n, new
<1>3. \A i \in 1 .. (n + 1) : i \in 1 .. n \/ i = n + 1
  BY <1>1
<1>4. n + 1 \in 1 .. (n + 1) /\ \A i \in 1 .. n : i \in 1 .. (n + 1)
  BY <1>1
<1>5. Range(new) = Range(seq) \cup {e}
  <2>1. ASSUME NEW i \in DOMAIN new PROVE new[i] \in Range(seq) \cup {e}
    BY <1>1, <1>2, <1>3 DEF Range
  <2>2. ASSUME NEW i \in DOMAIN seq PROVE seq[i] \in Range(new)
    BY <1>1, <1>2, <1>4 DEF Range
  <2>3. e \in Range(new)
    BY <1>1, <1>2, <1>4 DEF Range
  <2>4. Range(new) \in SUBSET (Range(seq) \cup {e})
    BY <2>1 DEF Range
  <2>5. Range(seq) \in SUBSET Range(new)
    BY <2>2 DEF Range
  <2>6. QED
    BY <2>3, <2>4, <2>5
<1>6. ASSUME IsInjective(seq), NEW i \in DOMAIN new, NEW j \in DOMAIN new, new[i] = new[j]
      PROVE  i = j
  <2>1. \A k \in 1 .. n : seq[k] # e
    BY <1>1 DEF Range
  <2>2. QED
    BY <1>1, <1>2, <1>3, <1>6, <2>1 DEF IsInjective
<1>7. QED
  BY <1>5, <1>6 DEF IsInjective, new

\* A signature that is added to a witness.
LEMMA SignatureIsAdded ==
  ASSUME NEW w \in Witnesses \cup {NoWitness}, NEW sig \in Owners \X Messages, NEW kind,
         IsInjective(SigsOf(w))
  PROVE  /\ WithSignature(w, sig, kind) \in Witnesses
         /\ IsInjective(SigsOf(WithSignature(w, sig, kind)))
         /\ Range(SigsOf(WithSignature(w, sig, kind))) = Range(SigsOf(w)) \cup {sig}
<1> DEFINE v == WithSignature(w, sig, kind)
<1>0. NoWitness \notin Witnesses
  BY ConditionsAssumption
<1>1. CASE w = NoWitness
  <2>1. v = [preimage |-> "none", sigs |-> <<sig>>]
    BY <1>1 DEF WithSignature
  <2>2. <<sig>> \in Seq(Owners \X Messages) /\ Range(<<sig>>) = {sig} /\ IsInjective(<<sig>>)
    BY DEF Range, IsInjective
  <2>3. v \in Witnesses /\ v.sigs = <<sig>>
    BY <2>1, <2>2 DEF Witnesses
  <2>4. SigsOf(w) = <<>> /\ Range(<<>>) = {}
    BY <1>1 DEF SigsOf, Range
  <2>5. SigsOf(v) = <<sig>>
    BY <1>0, <2>3 DEF SigsOf
  <2>6. QED
    BY <2>2, <2>3, <2>4, <2>5
<1>2. CASE w # NoWitness /\ sig \in Range(w.sigs)
  BY <1>0, <1>2 DEF WithSignature, SigsOf
<1>3. CASE w # NoWitness /\ sig \notin Range(w.sigs)
  <2>1. w \in Witnesses /\ w.sigs \in Seq(Owners \X Messages) /\ w.preimage \in {"none", "right", "wrong"}
    BY <1>3 DEF Witnesses
  <2>2. v = [preimage |-> IF kind = "HTLC" THEN w.preimage ELSE "none", sigs |-> Append(w.sigs, sig)]
    BY <1>3 DEF WithSignature
  <2>3. Append(w.sigs, sig) \in Seq(Owners \X Messages)
    BY <2>1
  <2>4. v \in Witnesses /\ v.sigs = Append(w.sigs, sig)
    BY <2>1, <2>2, <2>3 DEF Witnesses
  <2>5. /\ Range(Append(w.sigs, sig)) = Range(w.sigs) \cup {sig}
        /\ IsInjective(w.sigs) => IsInjective(Append(w.sigs, sig))
    BY <1>3, <2>1, AppendedSignature
  <2>6. SigsOf(v) = v.sigs /\ SigsOf(w) = w.sigs
    BY <1>0, <1>3, <2>4 DEF SigsOf
  <2>7. QED
    BY <2>4, <2>5, <2>6
<1>4. QED
  BY <1>1, <1>2, <1>3

\* Enough signatures were enough owners'.
LEMMA QuorumIsOfSigners ==
  ASSUME NEW keys \in Seq(Owners), NEW sigs, NEW n \in Int, NEW msg, QuorumSigned(keys, sigs, n, msg),
         NEW T \in SUBSET Range(keys), \A k \in Range(keys) : <<k, msg>> \in Range(sigs) => k \in T
  PROVE  Cardinality(T) >= Required(n)
<1>0. Required(n) \in Int
  BY DEF Required
<1> DEFINE S == {k \in Range(keys) : <<k, msg>> \in Range(sigs)}
<1>1. Cardinality(S) >= Required(n)
  BY DEF QuorumSigned
<1>2. IsFiniteSet(Range(keys))
  BY RangeIsFinite
<1>3. IsFiniteSet(T) /\ Cardinality(T) \in Nat
  BY <1>2, FS_Subset, FS_CardinalityType
<1>4. S \in SUBSET T
  OBVIOUS
<1>5. Cardinality(S) <= Cardinality(T) /\ Cardinality(S) \in Nat
  BY <1>3, <1>4, FS_Subset, FS_CardinalityType
<1>6. QED
  BY <1>0, <1>1, <1>3, <1>5

\* Enough owners are a quorum.
LEMMA SignersAreQuorum ==
  ASSUME NEW keys \in Seq(Owners), NEW sigs \in Seq(Owners \X Messages), NEW nsigs, Required(nsigs) \in 1 .. Len(keys), NEW msg,
         IsInjective(keys), IsInjective(sigs),
         NEW T \in SUBSET Range(keys), \A k \in T : <<k, msg>> \in Range(sigs), Cardinality(T) >= Required(nsigs)
  PROVE  QuorumSigned(keys, sigs, nsigs, msg)
<1> DEFINE n == Required(nsigs)
<1>n. n \in 1 .. Len(keys) /\ Cardinality(T) >= n
  OBVIOUS
<1> HIDE DEF n
<1> DEFINE S == {k \in Range(keys) : <<k, msg>> \in Range(sigs)}
           f == [k \in T |-> <<k, msg>>]
<1>1. IsFiniteSet(Range(keys)) /\ IsFiniteSet(Range(sigs))
      /\ Cardinality(Range(sigs)) \in Nat /\ Cardinality(Range(sigs)) <= Len(sigs)
  BY RangeIsFinite
<1>2. IsFiniteSet(S) /\ IsFiniteSet(T) /\ T \in SUBSET S
  BY <1>1, FS_Subset
<1>3. Cardinality(T) <= Cardinality(S) /\ Cardinality(S) \in Nat /\ Cardinality(T) \in Nat
  BY <1>2, FS_Subset, FS_CardinalityType
<1>4. f \in Injection(T, Range(sigs))
  BY DEF Injection, IsInjective
<1>5. Cardinality(T) <= Cardinality(Range(sigs))
  BY <1>1, <1>4, FS_Injection
<1>6. Len(sigs) \in Nat /\ Len(keys) \in Nat /\ n \in Nat /\ n > 0 /\ n <= Len(keys)
  BY <1>n
<1> HIDE DEF f, S
<1>7. Cardinality(S) >= n /\ Len(sigs) >= n /\ Len(keys) >= n
  BY <1>n, <1>1, <1>3, <1>5, <1>6
<1>8. QED
  BY <1>6, <1>7 DEF QuorumSigned, S, n

\* The keys of a lock.
LEMMA KeysOfLock ==
  ASSUME ConditionsTyped, Locked, NEW p \in Proofs
  PROVE  /\ lock[p] \in Locks /\ IsLock(lock[p])
         /\ lock[p].kind # "plain" => MainKeys(lock[p]) \in Seq(Owners)
         /\ lock[p].refund \in Seq(Owners)
<1>1. lock[p] \in Locks /\ IsLock(lock[p])
  BY ConditionsAssumption DEF ConditionsTyped, Locked
<1>2. CASE lock[p].kind = "P2PK"
  <2>1. <<lock[p].data>> \in Seq(Owners) /\ lock[p].pubkeys \in Seq(Owners)
    BY <1>1, <1>2 DEF IsLock
  <2>2. QED
    BY <1>1, <1>2, <2>1 DEF IsLock, MainKeys
<1>3. CASE lock[p].kind # "P2PK"
  BY <1>1, <1>3 DEF IsLock, MainKeys
<1>4. QED
  BY <1>2, <1>3

\* A request is of some proofs.
LEMMA RequestIsOfProofs ==
  ASSUME NEW req \in Requests
  PROVE  Range(req) \in SUBSET Proofs /\ req[1] \in Range(req)
<1>1. req \in Seq(Proofs) /\ Len(req) \in Nat /\ Len(req) > 0
  BY ConditionsAssumption
<1>2. Range(req) \in SUBSET Proofs
  BY <1>1, RangeIsFinite
<1>3. 1 \in DOMAIN req
  BY <1>1
<1>4. QED
  BY <1>2, <1>3 DEF Range

\* Secrets that are the same have the same lock.
LEMMA SameLocks ==
  ASSUME ConditionsTyped, NEW req \in Requests, SameSecrets(req)
  PROVE  /\ req[1] \in Proofs /\ req[1] \in Range(req) /\ Range(req) \in SUBSET Proofs
         /\ \A p \in Range(req) : lock[p] = lock[req[1]]
<1>1. req \in Seq(Proofs)
  BY ConditionsAssumption
<1>2. req[1] \in Proofs /\ req[1] \in Range(req) /\ Range(req) \in SUBSET Proofs /\ IsFiniteSet(Range(req))
  BY <1>1, RangeIsFinite, RequestIsOfProofs
<1> DEFINE L == {lock[p] : p \in Range(req)}
           f == [p \in Range(req) |-> lock[p]]
<1>3. f \in Surjection(Range(req), L)
  BY DEF Surjection
<1>4. IsFiniteSet(L)
  BY <1>2, <1>3, FS_Surjection
<1>5. Cardinality(L) = 1
  BY DEF SameSecrets
<1>6. PICK x : L = {x}
  BY <1>4, <1>5, FS_Singleton
<1>7. \A p \in Range(req) : lock[p] = x
  BY <1>6
<1>8. QED
  BY <1>2, <1>7

\* What a proof carries.
LEMMA SigsTyped ==
  ASSUME ConditionsTyped, NEW p \in Proofs
  PROVE  /\ Sigs(p) = SigsOf(wit[p]) /\ Sigs(p) \in Seq(Owners \X Messages)
         /\ wit[p] \in Witnesses \cup {NoWitness}
<1>1. wit[p] \in Witnesses \cup {NoWitness}
  BY DEF ConditionsTyped
<1>2. Sigs(p) = SigsOf(wit[p])
  BY DEF Sigs, SigsOf, Witnessed
<1>3. CASE wit[p] = NoWitness
  BY <1>1, <1>2, <1>3 DEF SigsOf
<1>4. CASE wit[p] \in Witnesses
  BY <1>1, <1>2, <1>4 DEF SigsOf, Witnesses
<1>5. QED
  BY <1>1, <1>2, <1>3, <1>4

-----------------------------------------------------------------------------
(* The mint opens a lock only for its owners *)

\* A signature over one input was approved by its owner.
LEMMA InputQuorumConsents ==
  ASSUME ConditionsTyped, Locked, SigsAreApproved, NEW req, NEW t, NEW p \in Proofs, NEW keys \in Seq(Owners),
         NEW n \in Int, ~SigAll(lock[p]), QuorumSigned(keys, Sigs(p), n, p)
  PROVE  Cardinality(SignedFor(p, req, t, keys)) >= Required(n)
<1> DEFINE T == SignedFor(p, req, t, keys)
<1>1. T = {k \in Range(keys) : \E a \in approvals[p] : a[1] = k}
  BY DEF SignedFor
<1>2. ASSUME NEW k \in Range(keys), <<k, p>> \in Range(Sigs(p)) PROVE k \in T
  <2>1. PICK a \in approvals[p] : <<k, p>>[1] = a[1]
    BY <1>2 DEF SigsAreApproved
  <2>2. QED
    BY <1>1, <1>2, <2>1
<1>3. T \in SUBSET Range(keys)
  BY <1>1
<1> HIDE DEF T
<1>4. Cardinality(T) >= Required(n)
  BY <1>2, <1>3, QuorumIsOfSigners
<1>5. QED
  BY <1>4 DEF T

\* A signature over a whole request was approved for that request.
LEMMA RequestQuorumConsents ==
  ASSUME ConditionsTyped, Locked, SigsAreApproved, NEW req \in Requests, NEW t \in Targets, NEW p, NEW keys \in Seq(Owners),
         NEW n \in Int, SigAll(lock[p]), QuorumSigned(keys, Sigs(req[1]), n, <<req, t>>)
  PROVE  Cardinality(SignedFor(p, req, t, keys)) >= Required(n)
<1> DEFINE T == SignedFor(p, req, t, keys)
<1>0. req[1] \in Proofs /\ req[1] # <<req, t>>
  BY RequestIsOfProofs, ConditionsAssumption
<1>1. T = {k \in Range(keys) : <<k, req, t>> \in approvals[req[1]]}
  BY DEF SignedFor
<1>2. ASSUME NEW k \in Range(keys), <<k, <<req, t>>>> \in Range(Sigs(req[1])) PROVE k \in T
  <2>1. PICK a \in approvals[req[1]] : k = a[1] /\ <<req, t>> \in {req[1], <<a[2], a[3]>>}
    BY <1>0, <1>2 DEF SigsAreApproved
  <2>2. a \in Owners \X Requests \X Targets
    BY <1>0, <2>1 DEF ConditionsTyped
  <2>3. a = <<k, req, t>>
    BY <1>0, <2>1, <2>2
  <2>4. QED
    BY <1>1, <2>1, <2>3
<1>3. T \in SUBSET Range(keys)
  BY <1>1
<1> HIDE DEF T
<1>4. Cardinality(T) >= Required(n)
  BY <1>2, <1>3, QuorumIsOfSigners
<1>5. QED
  BY <1>4 DEF T

\* What the mint accepts, the owners of every lock in it consented to.
LEMMA AcceptanceIsConsent ==
  ASSUME ConditionsTyped, Locked, SigsAreApproved, NEW req \in Requests, NEW t \in Targets, MintAccepts(req, t),
         t \in SwapTargets \/ SameSecrets(req), NEW p \in Range(req), lock[p].kind # "plain"
  PROVE  /\ \/ MainKeys(lock[p]) = <<>>
            \/ lock[p].flag = "other"
            \/ Cardinality(SignedFor(p, req, t, MainKeys(lock[p]))) >= Required(lock[p].nsigs)
            \/ LockPassed(lock[p]) /\ (lock[p].refund = <<>>
                 \/ Cardinality(SignedFor(p, req, t, lock[p].refund)) >= Required(lock[p].nrefund))
         /\ lock[p].kind = "HTLC" => wit[p].preimage = "right" \/ NutLockPassed(lock[p])
<1>1. p \in Proofs /\ req[1] \in Proofs
  BY RequestIsOfProofs
<1>2. /\ IsLock(lock[p]) /\ MainKeys(lock[p]) \in Seq(Owners) /\ lock[p].refund \in Seq(Owners)
      /\ lock[p].nsigs \in Int /\ lock[p].nrefund \in Int
  BY <1>1, KeysOfLock DEF IsLock
<1>3. InputOpens(p)
  BY DEF MintAccepts
<1>4. lock[p].kind \in {"P2PK", "HTLC"}
  BY <1>2 DEF IsLock
<1>5. KeysOpen(p) /\ (lock[p].kind = "HTLC" => HashLockOpens(p))
  BY <1>3, <1>4 DEF InputOpens
<1>6. lock[p].kind = "HTLC" => wit[p].preimage = "right" \/ NutLockPassed(lock[p])
  BY <1>5 DEF HashLockOpens
<1>7. CASE ~SigAll(lock[p])
  <2>0. lock[p].flag \in {"SIG_INPUTS", "other"}
    BY <1>2, <1>4, <1>7 DEF IsLock, SigAll
  <2>1. CASE QuorumSigned(MainKeys(lock[p]), Sigs(p), lock[p].nsigs, p)
    BY <1>1, <1>2, <1>6, <1>7, <2>1, InputQuorumConsents
  <2>2. CASE LockPassed(lock[p]) /\ QuorumSigned(lock[p].refund, Sigs(p), lock[p].nrefund, p)
    BY <1>1, <1>2, <1>6, <1>7, <2>2, InputQuorumConsents
  <2>3. CASE LockPassed(lock[p]) /\ lock[p].refund = <<>>
    BY <1>6, <2>3
  <2>4. CASE MainKeys(lock[p]) = <<>>
    BY <1>6, <2>4
  <2>5. QED
    BY <1>5, <1>6, <2>0, <2>1, <2>2, <2>3, <2>4 DEF KeysOpen
<1>8. CASE SigAll(lock[p])
  <2>1. SameSecrets(req) /\ SigAllOpens(req, t)
    BY <1>8, ConditionsAssumption DEF MintAccepts, OutputsOpen
  <2>2. lock[req[1]] = lock[p]
    BY <2>1, SameLocks
  <2>3. CASE LockPassed(lock[p])
    <3>1. lock[p].refund = <<>> \/ QuorumSigned(lock[p].refund, Sigs(req[1]), lock[p].nrefund, <<req, t>>)
      BY <2>1, <2>2, <2>3 DEF SigAllOpens
    <3>2. QED
      BY <1>2, <1>6, <1>8, <2>3, <3>1, RequestQuorumConsents
  <2>4. CASE ~LockPassed(lock[p])
    <3>1. MainKeys(lock[p]) = <<>> \/ QuorumSigned(MainKeys(lock[p]), Sigs(req[1]), lock[p].nsigs, <<req, t>>)
      BY <2>1, <2>2, <2>4 DEF SigAllOpens
    <3>2. QED
      BY <1>2, <1>6, <1>8, <3>1, RequestQuorumConsents
  <2>5. QED
    BY <2>3, <2>4
<1>9. QED
  BY <1>7, <1>8

-----------------------------------------------------------------------------
(* The mint opens a lock for its owners *)

\* Owners of one path who approved are a quorum on the input.
LEMMA InputSignersSuffice ==
  ASSUME ConditionsTyped, Locked, SigsAreDistinct, ApprovalsAreSigned, NEW req, NEW t, NEW p \in Proofs,
         lock[p].kind # "plain", lock[p].flag = "SIG_INPUTS",
         NEW keys \in Seq(Owners), Range(keys) \in SUBSET (Range(MainKeys(lock[p])) \cup Range(lock[p].refund)),
         NEW n, Required(n) \in 1 .. Len(keys), IsInjective(keys),
         Cardinality(SignedFor(p, req, t, keys)) >= Required(n)
  PROVE  QuorumSigned(keys, Sigs(p), n, p)
<1> DEFINE T == SignedFor(p, req, t, keys)
<1>1. T = {k \in Range(keys) : \E a \in approvals[p] : a[1] = k}
  BY DEF SignedFor, SigAll
<1>2. ASSUME NEW k \in T PROVE <<k, p>> \in Range(Sigs(p))
  <2>1. k \in Range(keys) /\ \E a \in approvals[p] : a[1] = k
    BY <1>1, <1>2
  <2>2. PICK a \in approvals[p] : a[1] = k
    BY <2>1
  <2>3. SignsInput(k, p)
    BY <2>1 DEF SignsInput, LockedTo
  <2>4. QED
    BY <2>2, <2>3 DEF ApprovalsAreSigned
<1>3. Sigs(p) \in Seq(Owners \X Messages) /\ IsInjective(Sigs(p))
  BY SigsTyped DEF SigsAreDistinct
<1>4. T \in SUBSET Range(keys) /\ Cardinality(T) >= Required(n)
  BY <1>1
<1> HIDE DEF T
<1>5. QED
  BY <1>2, <1>3, <1>4, SignersAreQuorum

\* Owners of one path who approved a request of one lock are a quorum on it.
LEMMA RequestSignersSuffice ==
  ASSUME ConditionsTyped, Locked, SigsAreDistinct, ApprovalsAreSigned, NEW req \in Requests, NEW t \in Targets,
         SameSecrets(req), NEW p \in Range(req), SigAll(lock[p]),
         NEW keys \in Seq(Owners), Range(keys) \in SUBSET (Range(MainKeys(lock[p])) \cup Range(lock[p].refund)),
         NEW n, Required(n) \in 1 .. Len(keys), IsInjective(keys),
         Cardinality(SignedFor(p, req, t, keys)) >= Required(n)
  PROVE  QuorumSigned(keys, Sigs(req[1]), n, <<req, t>>)
<1> DEFINE T == SignedFor(p, req, t, keys)
<1>0. /\ req[1] \in Proofs /\ Range(req) \in SUBSET Proofs /\ req[1] \in Range(req)
      /\ \A q \in Range(req) : lock[q] = lock[p]
  BY SameLocks
<1>1. T = {k \in Range(keys) : <<k, req, t>> \in approvals[req[1]]}
  BY DEF SignedFor
<1>2. ASSUME NEW k \in T PROVE <<k, <<req, t>>>> \in Range(Sigs(req[1]))
  <2>1. k \in Range(keys) /\ <<k, req, t>> \in approvals[req[1]]
    BY <1>1, <1>2
  <2>2. lock[p].kind # "plain" /\ SigAll(lock[req[1]])
    BY <1>0 DEF SigAll
  <2>3. \A q \in Range(req) : lock[q].kind # "plain" /\ LockedTo(k, q)
    BY <1>0, <2>1, <2>2 DEF LockedTo
  <2>4. SignsAll(k, req)
    BY <2>3 DEF SignsAll
  <2>5. \A a \in approvals[req[1]] : SigAll(lock[req[1]]) /\ req[1] = a[2][1] /\ SignsAll(a[1], a[2])
           => <<a[1], <<a[2], a[3]>>>> \in Range(Sigs(req[1]))
    BY <1>0 DEF ApprovalsAreSigned
  <2>6. QED
    BY <2>1, <2>2, <2>4, <2>5
<1>3. Sigs(req[1]) \in Seq(Owners \X Messages) /\ IsInjective(Sigs(req[1]))
  BY <1>0, SigsTyped DEF SigsAreDistinct
<1>4. T \in SUBSET Range(keys) /\ Cardinality(T) >= Required(n)
  BY <1>1
<1> HIDE DEF T
<1>5. QED
  BY <1>2, <1>3, <1>4, SignersAreQuorum

\* Enough owners on either path open the lock.
LEMMA SignersSuffice ==
  ASSUME ConditionsTyped, SigsAreDistinct, ApprovalsAreSigned
  PROVE  CoSignersSuffice
<1> DEFINE By(p, req, t, keys, n) ==
             /\ IsInjective(keys) /\ Required(n) \in 1 .. Len(keys)
             /\ Cardinality(SignedFor(p, req, t, keys)) >= Required(n)
<1> SUFFICES ASSUME Open, NEW req \in Requests, NEW t \in Targets, SameSecrets(req), NEW p \in Range(req),
                    lock[p].kind # "plain",
                    lock[p].kind = "HTLC" => Witnessed(p) /\ wit[p].preimage = "right",
                    \/ By(p, req, t, MainKeys(lock[p]), lock[p].nsigs) /\ (SigAll(lock[p]) => ~LockPassed(lock[p]))
                    \/ LockPassed(lock[p]) /\ By(p, req, t, lock[p].refund, lock[p].nrefund)
             PROVE  IF SigAll(lock[p]) THEN OutputsOpen(req, t) ELSE InputOpens(p)
  BY DEF CoSignersSuffice
<1>1. Locked /\ p \in Proofs /\ lock[req[1]] = lock[p]
  BY RequestIsOfProofs, SameLocks DEF Open
<1>2. /\ IsLock(lock[p]) /\ MainKeys(lock[p]) \in Seq(Owners) /\ lock[p].refund \in Seq(Owners)
  BY <1>1, KeysOfLock
<1>3. \A keys \in Seq(Owners) : \A n : By(p, req, t, keys, n) => keys # <<>>
  OBVIOUS
<1>4. CASE SigAll(lock[p])
  <2>1. CASE ~LockPassed(lock[p]) /\ By(p, req, t, MainKeys(lock[p]), lock[p].nsigs)
    <3>1. QuorumSigned(MainKeys(lock[p]), Sigs(req[1]), lock[p].nsigs, <<req, t>>)
      BY <1>1, <1>2, <1>4, <2>1, RequestSignersSuffice
    <3>2. SigAllOpens(req, t)
      BY <1>1, <2>1, <3>1 DEF SigAllOpens
    <3>3. QED
      BY <1>4, <3>2 DEF OutputsOpen
  <2>2. CASE LockPassed(lock[p]) /\ By(p, req, t, lock[p].refund, lock[p].nrefund)
    <3>1. QuorumSigned(lock[p].refund, Sigs(req[1]), lock[p].nrefund, <<req, t>>)
      BY <1>1, <1>2, <1>4, <2>2, RequestSignersSuffice
    <3>2. SigAllOpens(req, t)
      BY <1>1, <2>2, <3>1 DEF SigAllOpens
    <3>3. QED
      BY <1>4, <3>2 DEF OutputsOpen
  <2>3. QED
    BY <1>4, <2>1, <2>2
<1>5. CASE ~SigAll(lock[p])
  <2>1. KeysOpen(p)
    <3>0. CASE lock[p].flag # "SIG_INPUTS"
      BY <3>0 DEF KeysOpen
    <3>1. CASE lock[p].flag = "SIG_INPUTS" /\ By(p, req, t, MainKeys(lock[p]), lock[p].nsigs)
      <4>1. QuorumSigned(MainKeys(lock[p]), Sigs(p), lock[p].nsigs, p)
        BY <1>1, <1>2, <1>5, <3>1, InputSignersSuffice
      <4>2. QED
        BY <1>2, <1>3, <3>1, <4>1 DEF KeysOpen
    <3>2. CASE lock[p].flag = "SIG_INPUTS" /\ LockPassed(lock[p]) /\ By(p, req, t, lock[p].refund, lock[p].nrefund)
      <4>1. QuorumSigned(lock[p].refund, Sigs(p), lock[p].nrefund, p)
        BY <1>1, <1>2, <1>5, <3>2, InputSignersSuffice
      <4>2. QED
        BY <1>2, <1>3, <3>2, <4>1 DEF KeysOpen
    <3>3. QED
      BY <3>0, <3>1, <3>2
  <2>2. lock[p].kind \in {"P2PK", "HTLC"}
    BY <1>2 DEF IsLock
  <2>3. lock[p].kind = "HTLC" => HashLockOpens(p)
    BY DEF HashLockOpens
  <2>4. QED
    BY <1>5, <2>1, <2>2, <2>3 DEF InputOpens
<1>6. QED
  BY <1>4, <1>5

-----------------------------------------------------------------------------
(* Every step *)

\* The invariant of the locks holds at the start.
LEMMA ConditionsStart == ConditionsInit => ConditionsIInv
<1> SUFFICES ASSUME ConditionsInit PROVE ConditionsIInv
  OBVIOUS
<1> USE DEF ConditionsInit
<1>1. ConditionsTyped
  BY DEF ConditionsTyped
<1>2. \A p \in Proofs : approvals[p] = {} /\ Sigs(p) = <<>>
  BY DEF Sigs, Witnessed
<1>3. Range(<<>>) = {} /\ IsInjective(<<>>)
  BY DEF Range, IsInjective
<1>4. LockedFirst /\ OwnersConsented
  BY DEF LockedFirst, OwnersConsented
<1>5. SigsAreApproved /\ ApprovalsAreSigned /\ SigsAreDistinct
  BY <1>2, <1>3 DEF SigsAreApproved, ApprovalsAreSigned, SigsAreDistinct
<1>6. QED
  BY <1>1, <1>4, <1>5 DEF ConditionsIInv

\* While secrets are still written, nothing is signed.
LEMMA WritingKeeps ==
  ASSUME ConditionsIInv, NEW p \in Proofs, NEW l \in Locks, WriteSecret(p, l)
  PROVE  ConditionsIInv'
<1>1. ~Locked
  BY DEF WriteSecret, Locked
<1>2. accepted = NoRequest /\ \A q \in Proofs : wit[q] = NoWitness /\ approvals[q] = {}
  BY <1>1 DEF ConditionsIInv, LockedFirst
<1>3. UNCHANGED <<wit, now, accepted, approvals>>
  BY DEF WriteSecret
<1>4. ConditionsTyped'
  BY <1>3 DEF ConditionsIInv, ConditionsTyped, WriteSecret
<1>5. LockedFirst' /\ OwnersConsented'
  BY <1>2, <1>3 DEF LockedFirst, OwnersConsented
<1>6. \A q \in Proofs : approvals'[q] = {} /\ Sigs(q)' = <<>>
  BY <1>2, <1>3 DEF Sigs, Witnessed
<1>7. Range(<<>>) = {} /\ IsInjective(<<>>)
  BY DEF Range, IsInjective
<1>8. SigsAreApproved' /\ ApprovalsAreSigned' /\ SigsAreDistinct'
  BY <1>6, <1>7 DEF SigsAreApproved, ApprovalsAreSigned, SigsAreDistinct
<1>9. QED
  BY <1>4, <1>5, <1>8 DEF ConditionsIInv

\* A new witness has a preimage and nobody's signature.
LEMMA PreimageKeeps ==
  ASSUME ConditionsIInv, NEW p \in Proofs, NEW x \in {"right", "wrong"}, AddPreimage(p, x)
  PROVE  ConditionsIInv'
<1> DEFINE w == [preimage |-> x, sigs |-> <<>>]
<1>1. Locked /\ accepted = NoRequest /\ UNCHANGED <<lock, now, accepted>>
  BY DEF AddPreimage, Open
<1>s. <<>> \in Seq(Owners \X Messages) /\ x \in {"none", "right", "wrong"}
  OBVIOUS
<1>w. w \in Witnesses /\ w.sigs = <<>>
  BY <1>s DEF Witnesses
<1>2. w \in Witnesses /\ w # NoWitness /\ w.sigs = <<>>
  BY <1>w, ConditionsAssumption
<1> HIDE DEF w
<1>3. wit' = [wit EXCEPT ![p] = w] /\ approvals' = [approvals EXCEPT ![p] = {}]
  BY DEF AddPreimage, w
<1>4. ConditionsTyped'
  BY <1>1, <1>2, <1>3 DEF ConditionsIInv, ConditionsTyped
<1>5. Locked'
  BY <1>1 DEF Locked
<1>6. LockedFirst' /\ OwnersConsented'
  BY <1>1, <1>5 DEF LockedFirst, OwnersConsented
<1>7. Sigs(p)' = <<>> /\ approvals'[p] = {}
  BY <1>2, <1>3 DEF Sigs, Witnessed, ConditionsIInv, ConditionsTyped
<1>8. \A q \in Proofs : q # p => Sigs(q)' = Sigs(q) /\ approvals'[q] = approvals[q]
  BY <1>3 DEF Sigs, Witnessed, ConditionsIInv, ConditionsTyped
<1>9. Range(<<>>) = {} /\ IsInjective(<<>>)
  BY DEF Range, IsInjective
<1>10. SigsAreApproved' /\ SigsAreDistinct'
  BY <1>7, <1>8, <1>9 DEF SigsAreApproved, SigsAreDistinct, ConditionsIInv
<1>11. ApprovalsAreSigned'
  <2> SUFFICES ASSUME NEW q \in Proofs, NEW a \in approvals'[q]
               PROVE  /\ SignsInput(a[1], q)' => <<a[1], q>> \in Range(Sigs(q)')
                      /\ (SigAll(lock[q]) /\ q = a[2][1] /\ SignsAll(a[1], a[2]))'
                           => <<a[1], <<a[2], a[3]>>>> \in Range(Sigs(q)')
    BY Zenon DEF ApprovalsAreSigned
  <2>1. q # p /\ a \in approvals[q] /\ Sigs(q)' = Sigs(q)
    BY <1>7, <1>8
  <2>2. /\ SignsInput(a[1], q)' = SignsInput(a[1], q)
        /\ (SigAll(lock[q]) /\ q = a[2][1] /\ SignsAll(a[1], a[2]))'
             = (SigAll(lock[q]) /\ q = a[2][1] /\ SignsAll(a[1], a[2]))
    BY <1>1 DEF SignsInput, SignsAll, LockedTo, SameSecrets
  <2>3. QED
    BY <2>1, <2>2 DEF ConditionsIInv, ApprovalsAreSigned
<1>12. QED
  BY <1>4, <1>6, <1>10, <1>11 DEF ConditionsIInv

\* A wallet adds the signatures its locks ask of it, and approves the request.
LEMMA SigningKeeps ==
  ASSUME ConditionsIInv, NEW w \in Owners, NEW req \in Requests, NEW t \in Targets, Sign(w, req, t)
  PROVE  ConditionsIInv'
<1> DEFINE Signed(p) ==
             IF SignsInput(w, p) THEN WithSignature(wit[p], <<w, p>>, lock[p].kind)
             ELSE IF p = req[1] /\ SignsAll(w, req)
             THEN WithSignature(wit[p], <<w, <<req, t>>>>, lock[p].kind)
             ELSE wit[p]
           new(p) == IF SignsInput(w, p) THEN {<<w, p>>}
                     ELSE IF p = req[1] /\ SignsAll(w, req) THEN {<<w, <<req, t>>>>}
                     ELSE {}
<1>1. Locked /\ accepted = NoRequest /\ UNCHANGED <<lock, now, accepted>>
  BY DEF Sign, Open
<1>2. wit' = [p \in Proofs |-> IF p \in Range(req) THEN Signed(p) ELSE wit[p]]
  BY DEF Sign
<1>3. approvals' = [p \in Proofs |-> IF p \in Range(req) THEN approvals[p] \cup {<<w, req, t>>} ELSE approvals[p]]
  BY DEF Sign
<1>4. ASSUME NEW p \in Proofs
      PROVE  /\ Signed(p) \in Witnesses \cup {NoWitness} /\ IsInjective(SigsOf(Signed(p)))
             /\ Range(SigsOf(Signed(p))) = Range(SigsOf(wit[p])) \cup new(p)
  <2>1. wit[p] \in Witnesses \cup {NoWitness} /\ IsInjective(SigsOf(wit[p]))
    BY SigsTyped DEF ConditionsIInv, SigsAreDistinct
  <2>2. <<w, p>> \in Owners \X Messages /\ <<w, <<req, t>>>> \in Owners \X Messages
    BY DEF Messages
  <2>3. CASE SignsInput(w, p)
    <3>1. Signed(p) = WithSignature(wit[p], <<w, p>>, lock[p].kind) /\ new(p) = {<<w, p>>}
      BY <2>3
    <3> HIDE DEF Signed, new
    <3>2. QED
      BY <2>1, <2>2, <3>1, SignatureIsAdded
  <2>4. CASE ~SignsInput(w, p) /\ p = req[1] /\ SignsAll(w, req)
    <3>1. Signed(p) = WithSignature(wit[p], <<w, <<req, t>>>>, lock[p].kind) /\ new(p) = {<<w, <<req, t>>>>}
      BY <2>4
    <3> HIDE DEF Signed, new
    <3>2. QED
      BY <2>1, <2>2, <3>1, SignatureIsAdded
  <2>5. CASE ~SignsInput(w, p) /\ ~(p = req[1] /\ SignsAll(w, req))
    <3>1. Signed(p) = wit[p] /\ new(p) = {}
      BY <2>5
    <3> HIDE DEF Signed, new
    <3>2. QED
      BY <2>1, <3>1
  <2>6. QED
    BY <2>3, <2>4, <2>5
<1>5. \A p \in Proofs : Sigs(p)' = SigsOf(wit'[p]) /\ Sigs(p) = SigsOf(wit[p])
  BY DEF Sigs, SigsOf, Witnessed
<1> HIDE DEF Signed, new
<1>6. ASSUME NEW p \in Proofs, p \in Range(req)
      PROVE  Range(Sigs(p)') = Range(Sigs(p)) \cup new(p) /\ IsInjective(Sigs(p)')
  BY <1>2, <1>4, <1>5, <1>6
<1>7. ASSUME NEW p \in Proofs, p \notin Range(req)
      PROVE  Sigs(p)' = Sigs(p) /\ approvals'[p] = approvals[p]
  BY <1>2, <1>3, <1>5, <1>7
<1>8. ConditionsTyped'
  <2>1. wit' \in [Proofs -> Witnesses \cup {NoWitness}]
    BY <1>2, <1>4, SigsTyped DEF ConditionsIInv
  <2>2. approvals' \in [Proofs -> SUBSET (Owners \X Requests \X Targets)]
    BY <1>3 DEF ConditionsIInv, ConditionsTyped
  <2>3. QED
    BY <1>1, <2>1, <2>2 DEF ConditionsIInv, ConditionsTyped
<1>9. LockedFirst' /\ OwnersConsented'
  <2>1. Locked'
    BY <1>1 DEF Locked
  <2>2. QED
    BY <1>1, <2>1 DEF LockedFirst, OwnersConsented
<1>10. SigsAreDistinct'
  BY <1>6, <1>7 DEF ConditionsIInv, SigsAreDistinct
<1>11. SigsAreApproved'
  <2> SUFFICES ASSUME NEW p \in Proofs, NEW s \in Range(Sigs(p)')
               PROVE  \E a \in approvals'[p] : s[1] = a[1] /\ s[2] \in {p, <<a[2], a[3]>>}
    BY DEF SigsAreApproved
  <2>1. CASE p \notin Range(req)
    BY <1>7, <2>1 DEF ConditionsIInv, SigsAreApproved
  <2>2. CASE p \in Range(req) /\ s \in Range(Sigs(p))
    BY <1>3, <2>2 DEF ConditionsIInv, SigsAreApproved
  <2>3. CASE p \in Range(req) /\ s \in new(p)
    <3>1. s \in {<<w, p>>, <<w, <<req, t>>>>}
      BY <2>3 DEF new
    <3>2. <<w, req, t>> \in approvals'[p]
      BY <1>3, <2>3
    <3>3. s[1] = <<w, req, t>>[1] /\ s[2] \in {p, <<<<w, req, t>>[2], <<w, req, t>>[3]>>}
      BY <3>1
    <3>4. QED
      BY <3>2, <3>3
  <2>4. QED
    BY <1>6, <2>1, <2>2, <2>3
<1>12. ApprovalsAreSigned'
  <2> SUFFICES ASSUME NEW p \in Proofs, NEW a \in approvals'[p]
               PROVE  /\ SignsInput(a[1], p)' => <<a[1], p>> \in Range(Sigs(p)')
                      /\ (SigAll(lock[p]) /\ p = a[2][1] /\ SignsAll(a[1], a[2]))'
                           => <<a[1], <<a[2], a[3]>>>> \in Range(Sigs(p)')
    BY DEF ApprovalsAreSigned
  <2>1. /\ SignsInput(a[1], p)' = SignsInput(a[1], p)
        /\ (SigAll(lock[p]) /\ p = a[2][1] /\ SignsAll(a[1], a[2]))'
             = (SigAll(lock[p]) /\ p = a[2][1] /\ SignsAll(a[1], a[2]))
    BY <1>1 DEF SignsInput, SignsAll, LockedTo, SameSecrets
  <2>2. Range(Sigs(p)) \in SUBSET Range(Sigs(p)')
    BY <1>6, <1>7
  <2>3. CASE a \in approvals[p]
    BY <2>1, <2>2, <2>3 DEF ConditionsIInv, ApprovalsAreSigned
  <2>4. CASE p \in Range(req) /\ a = <<w, req, t>>
    <3>1. a[1] = w /\ a[2] = req /\ a[3] = t
      BY <2>4
    <3>2. new(p) \in SUBSET Range(Sigs(p)')
      BY <1>6, <2>4
    <3>3. SignsInput(w, p) => <<w, p>> \in new(p)
      BY DEF new
    <3>4. SigAll(lock[p]) /\ p = req[1] /\ SignsAll(w, req) => <<w, <<req, t>>>> \in new(p)
      BY DEF new, SignsInput, SigAll
    <3>5. QED
      BY <2>1, <3>1, <3>2, <3>3, <3>4
  <2>5. QED
    BY <1>3, <1>7, <2>3, <2>4
<1>13. QED
  BY <1>8, <1>9, <1>10, <1>11, <1>12 DEF ConditionsIInv

\* Time and the mint's decision leave locks and witnesses alone.
LEMMA WitnessesStay ==
  ASSUME ConditionsIInv, UNCHANGED <<lock, wit, approvals>>
  PROVE  SigsAreApproved' /\ ApprovalsAreSigned' /\ SigsAreDistinct' /\ Locked' = Locked
<1>1. \A p \in Proofs : Sigs(p)' = Sigs(p)
  BY DEF Sigs, Witnessed
<1>2. SigsAreApproved' /\ SigsAreDistinct' /\ Locked' = Locked
  BY <1>1 DEF ConditionsIInv, SigsAreApproved, SigsAreDistinct, Locked
<1>3. \A p \in Proofs : \A a \in approvals[p] :
        /\ SignsInput(a[1], p)' = SignsInput(a[1], p)
        /\ (SigAll(lock[p]) /\ p = a[2][1] /\ SignsAll(a[1], a[2]))'
             = (SigAll(lock[p]) /\ p = a[2][1] /\ SignsAll(a[1], a[2]))
  BY DEF SignsInput, SignsAll, LockedTo, SameSecrets
<1>4. ApprovalsAreSigned'
  BY <1>1, <1>3 DEF ConditionsIInv, ApprovalsAreSigned
<1>5. QED
  BY <1>2, <1>4

\* Time passes.
LEMMA TickKeeps ==
  ASSUME ConditionsIInv, ConditionsTick
  PROVE  ConditionsIInv'
<1>1. Locked /\ accepted = NoRequest /\ UNCHANGED <<lock, wit, approvals, accepted>> /\ now' = now + 1
  BY DEF ConditionsTick, Open
<1>2. ConditionsTyped'
  BY <1>1 DEF ConditionsIInv, ConditionsTyped
<1>3. LockedFirst' /\ OwnersConsented'
  BY <1>1, WitnessesStay DEF LockedFirst, OwnersConsented
<1>4. QED
  BY <1>1, <1>2, <1>3, WitnessesStay DEF ConditionsIInv

\* A request that is submitted
LEMMA SubmitKeeps ==
  ASSUME ConditionsIInv, NEW req \in Requests, NEW t \in Targets, Submit(req, t)
  PROVE  ConditionsIInv'
<1> DEFINE r == [inputs |-> req, target |-> t, at |-> now]
<1>1. Locked /\ UNCHANGED <<lock, wit, now, approvals>> /\ accepted' = r /\ MintAccepts(req, t)
  BY DEF Submit, Open
<1>2. now \in Nat
  BY DEF ConditionsIInv, ConditionsTyped
<1>3. ConditionsTyped'
  BY <1>1, <1>2 DEF ConditionsIInv, ConditionsTyped
<1>4. LockedFirst'
  BY <1>1, WitnessesStay DEF LockedFirst
<1>5. OwnersConsented'
  <2>1. r.inputs = req /\ r.target = t /\ r.at = now
    OBVIOUS
  <2> HIDE DEF r
  <2> DEFINE Consented(p) ==
               /\ \/ MainKeys(lock[p]) = <<>>
                  \/ lock[p].flag = "other"
                  \/ Cardinality(SignedFor(p, req, t, MainKeys(lock[p]))) >= Required(lock[p].nsigs)
                  \/ /\ lock[p].locktime > 0 /\ now > lock[p].locktime
                     /\ \/ lock[p].refund = <<>>
                        \/ Cardinality(SignedFor(p, req, t, lock[p].refund)) >= Required(lock[p].nrefund)
               /\ lock[p].kind = "HTLC" =>
                    \/ wit[p].preimage = "right"
                    \/ lock[p].locktime # NoLocktime /\ now >= lock[p].locktime
  <2> SUFFICES ASSUME t \in SwapTargets \/ SameSecrets(req)', NEW p \in Range(req), lock'[p].kind # "plain"
               PROVE  Consented(p)'
    BY <1>1, <2>1 DEF OwnersConsented
  <2>2. SameSecrets(req)' = SameSecrets(req)
    BY <1>1 DEF SameSecrets
  <2>3. \A keys : SignedFor(p, req, t, keys)' = SignedFor(p, req, t, keys)
    BY <1>1 DEF SignedFor
  <2>4. /\ \/ MainKeys(lock[p]) = <<>>
           \/ lock[p].flag = "other"
           \/ Cardinality(SignedFor(p, req, t, MainKeys(lock[p]))) >= Required(lock[p].nsigs)
           \/ LockPassed(lock[p]) /\ (lock[p].refund = <<>>
                \/ Cardinality(SignedFor(p, req, t, lock[p].refund)) >= Required(lock[p].nrefund))
        /\ lock[p].kind = "HTLC" => wit[p].preimage = "right" \/ NutLockPassed(lock[p])
    BY <1>1, <2>2, AcceptanceIsConsent DEF ConditionsIInv
  <2>5. lock[p].locktime \in Nat \cup {-1}
    BY <1>1, RequestIsOfProofs, KeysOfLock DEF ConditionsIInv, IsLock, NoLocktime
  <2>6. LockPassed(lock[p]) => lock[p].locktime > 0 /\ now > lock[p].locktime
    BY <1>2, <2>5 DEF LockPassed
  <2>7. NutLockPassed(lock[p]) => lock[p].locktime # NoLocktime /\ now >= lock[p].locktime
    BY <1>2, <2>5 DEF NutLockPassed, NoLocktime
  <2>8. Consented(p)
    BY <2>4, <2>6, <2>7
  <2>9. QED
    BY <1>1, <2>3, <2>8
<1>6. QED
  BY <1>1, <1>3, <1>4, <1>5, WitnessesStay DEF ConditionsIInv

\* Every step keeps the invariant of the locks.
LEMMA ConditionsStep == ConditionsIInv /\ [ConditionsNext]_conditionVars => ConditionsIInv'
<1> SUFFICES ASSUME ConditionsIInv, [ConditionsNext]_conditionVars PROVE ConditionsIInv'
  OBVIOUS
<1>1. CASE UNCHANGED conditionVars
  <2>1. UNCHANGED <<lock, wit, now, accepted, approvals>>
    BY <1>1 DEF conditionVars
  <2>2. ConditionsTyped' /\ LockedFirst'
    BY <2>1, WitnessesStay DEF ConditionsIInv, ConditionsTyped, LockedFirst
  <2>3. OwnersConsented'
    BY <2>1 DEF ConditionsIInv, OwnersConsented, SignedFor, SameSecrets
  <2>4. QED
    BY <2>1, <2>2, <2>3, WitnessesStay DEF ConditionsIInv
<1>2. CASE \E p \in Proofs, l \in Locks : WriteSecret(p, l)
  BY <1>2, WritingKeeps
<1>3. CASE \E p \in Proofs, x \in {"right", "wrong"} : AddPreimage(p, x)
  BY <1>3, PreimageKeeps
<1>4. CASE \E w \in Owners, req \in Requests, t \in Targets : Sign(w, req, t)
  BY <1>4, SigningKeeps
<1>5. CASE ConditionsTick
  BY <1>5, TickKeeps
<1>6. CASE \E req \in Requests, t \in Targets : Submit(req, t)
  BY <1>6, SubmitKeeps
<1>7. QED
  BY <1>1, <1>2, <1>3, <1>4, <1>5, <1>6 DEF ConditionsNext

(* A locked note is spent only with the signatures its lock asks for, on    *)
(* these outputs under SIG_ALL, or after its time; and those owners are     *)
(* enough, whatever else was signed (conditions.py against p2pk.py).        *)
THEOREM OwnersDecideAlways == ConditionsSpec => []OwnersDecide
<1>1. ConditionsIInv => OwnersDecide
  BY SignersSuffice DEF ConditionsIInv, OwnersDecide
<1>2. QED
  BY <1>1, ConditionsStart, ConditionsStep, PTL DEF ConditionsSpec

-----------------------------------------------------------------------------
(***************************************************************************)
(* Amounts: a split sums up to what was split, so every swap that a wallet *)
(* posts balances, and the blank outputs for a reserve hold whatever is    *)
(* overpaid, for any purses, keysets and fees.  The recursions that the    *)
(* definitions are written as are shown to exist first.                    *)
(***************************************************************************)

(* Splitting amounts *)

LowestBit(n) == IF n % 2 = 1 THEN <<1>> ELSE <<>>

\* Twice the parts sum up to twice the amount.
LEMMA DoubledAmounts ==
  ASSUME NEW s \in Seq(Amount)
  PROVE  /\ Doubled(s) \in Seq(Amount) /\ Len(Doubled(s)) = Len(s)
         /\ SumFunction(Doubled(s)) = 2 * SumFunction(s)
<1>1. DOMAIN s = 1 .. Len(s) /\ Len(s) \in Nat /\ \A i \in 1 .. Len(s) : s[i] \in Amount
  OBVIOUS
<1>2. DOMAIN Doubled(s) = 1 .. Len(s) /\ \A i \in 1 .. Len(s) : Doubled(s)[i] = s[i] + s[i]
  BY <1>1 DEF Doubled, Amount
<1>3. \A i \in 1 .. Len(s) : s[i] + s[i] \in Amount
  BY <1>1 DEF Amount
<1>4. Doubled(s) = [i \in 1 .. Len(s) |-> Doubled(s)[i]]
  BY <1>1 DEF Doubled
<1>5. Doubled(s) \in [1 .. Len(s) -> Amount]
  BY <1>2, <1>3, <1>4
<1>6. Doubled(s) \in Seq(Amount) /\ Len(Doubled(s)) = Len(s)
  BY <1>1, <1>5
<1>7. SumFunctionOnSet(Doubled(s), 1 .. Len(s)) = SumFunctionOnSet(s, 1 .. Len(s)) + SumFunctionOnSet(s, 1 .. Len(s))
  <2>1. IsFiniteSet(1 .. Len(s))
    BY <1>1, FS_Interval
  <2>2. \A i \in 1 .. Len(s) : s[i] \in Int /\ Doubled(s)[i] = s[i] + s[i]
    BY <1>1, <1>2 DEF Amount
  <2>3. QED
    BY <2>1, <2>2, SumPlus
<1>8. SumFunction(Doubled(s)) = SumFunctionOnSet(Doubled(s), 1 .. Len(s)) /\ SumFunction(s) = SumFunctionOnSet(s, 1 .. Len(s))
  BY <1>1, <1>2, Zenon DEF SumFunction
<1>9. SumFunction(s) \in Nat
  <2>1. s \in Seq(Nat)
    BY <1>1 DEF Amount
  <2>2. QED
    BY <2>1, SumTerms
<1>10. QED
  BY <1>6, <1>7, <1>8, <1>9

\* The lowest bit is the remainder.
LEMMA LowestBitIs ==
  ASSUME NEW n \in Nat
  PROVE  /\ LowestBit(n) \in Seq(Amount) /\ SumFunction(LowestBit(n)) = n % 2
         /\ Len(LowestBit(n)) = n % 2
<1>1. n % 2 = 0 \/ n % 2 = 1
  OBVIOUS
<1>2. CASE n % 2 = 1
  <2>1. LowestBit(n) = <<1>> /\ <<1>> \in Seq(Amount) /\ Len(<<1>>) = 1 /\ <<1>> \in Seq(Nat)
    BY <1>2 DEF LowestBit, Amount
  <2>2. SumFunction(<<1>>) = 1
    <3> DEFINE s == <<1>>
    <3>1. DOMAIN s = {1} /\ s[1] = 1
      OBVIOUS
    <3> HIDE DEF s
    <3>2. IsFiniteSet({1}) /\ {1} \ {1} = {}
      BY FS_Singleton
    <3>3. SumFunctionOnSet(s, {1}) = s[1] + SumFunctionOnSet(s, {1} \ {1})
      BY <3>1, <3>2, SumTake
    <3>4. SumFunctionOnSet(s, {}) = 0
      BY SumPick, FS_EmptySet
    <3>5. SumFunctionOnSet(s, {1} \ {1}) = 0
      BY <3>2, <3>4, Zenon
    <3>6. SumFunction(s) = SumFunctionOnSet(s, {1})
      BY <3>1, Zenon DEF SumFunction
    <3>7. QED
      BY <3>1, <3>3, <3>5, <3>6 DEF s
  <2>3. QED
    BY <1>2, <2>1, <2>2
<1>3. CASE n % 2 = 0
  <2>1. LowestBit(n) = <<>> /\ <<>> \in Seq(Amount) /\ Len(<<>>) = 0 /\ <<>> \in Seq(Nat)
    BY <1>3 DEF LowestBit
  <2>2. SumFunction(<<>>) = 0
    BY <2>1, SumTerms
  <2>3. QED
    BY <1>3, <2>1, <2>2
<1>4. QED
  BY <1>1, <1>2, <1>3

\* amount_split is the recursion it is written as.
LEMMA SplitExists ==
  \A n \in Nat : AmountSplit[n] = IF n = 0 THEN <<>> ELSE LowestBit(n) \o Doubled(AmountSplit[n \div 2])
<1> DEFINE V == Seq(Amount)
           split(n, h) == IF n = 0 THEN <<>> ELSE LowestBit(n) \o Doubled(h[n \div 2])
           B == [n \in Nat |-> [h \in [Nat -> V] |-> split(n, h)]]
           rank == [n \in Nat |-> n]
<1>0. \A n \in Nat : n \div 2 \in Nat /\ (n # 0 => n \div 2 < n)
  OBVIOUS
<1>1. \A n \in Nat, h \in [Nat -> V] : split(n, h) \in V
  <2> SUFFICES ASSUME NEW n \in Nat, NEW h \in [Nat -> V] PROVE split(n, h) \in V
    OBVIOUS
  <2>1. h[n \div 2] \in Seq(Amount)
    BY <1>0
  <2>2. Doubled(h[n \div 2]) \in Seq(Amount) /\ LowestBit(n) \in Seq(Amount)
    BY <2>1, DoubledAmounts, LowestBitIs
  <2>3. QED
    BY <2>2
<1>2. \A n \in Nat : \A f, g \in [Nat -> V] :
        (\A m \in Nat : rank[m] < rank[n] => f[m] = g[m]) => B[n][f] = B[n][g]
  <2> SUFFICES ASSUME NEW n \in Nat, NEW f \in [Nat -> V], NEW g \in [Nat -> V],
                      \A m \in Nat : m < n => f[m] = g[m]
               PROVE  split(n, f) = split(n, g)
    OBVIOUS
  <2>1. n # 0 => f[n \div 2] = g[n \div 2]
    BY <1>0
  <2>2. QED
    BY <2>1
<1>3. B \in [Nat -> [[Nat -> V] -> V]] /\ rank \in [Nat -> Nat] /\ V # {}
  <2>1. <<>> \in V
    OBVIOUS
  <2> HIDE DEF split, V
  <2>2. QED
    BY <1>1, <2>1
<1>4. PICK h \in [Nat -> V] : \A n \in Nat : h[n] = B[n][h]
  <2>1. IsRecursion(Nat, V, rank, B)
    <3> HIDE DEF B, V, rank
    <3>1. QED
      BY <1>2, <1>3 DEF IsRecursion
  <2> HIDE DEF B, V, rank
  <2>2. QED
    BY <2>1, Recursion
<1>5. h = [n \in Nat |-> split(n, h)]
  BY <1>4
<1> DEFINE F == CHOOSE f : f = [n \in Nat |-> split(n, f)]
<1>6. AmountSplit = F
  BY DEF AmountSplit, LowestBit
<1>7. F = [n \in Nat |-> split(n, F)]
  BY <1>5
<1> HIDE DEF F
<1>8. QED
  BY <1>6, <1>7

\* The parts of an amount are amounts, and sum up to it.
LEMMA SplitSumsUp ==
  \A n \in Nat : AmountSplit[n] \in Seq(Amount) /\ SumFunction(AmountSplit[n]) = n
<1> DEFINE N == {n \in Nat : AmountSplit[n] \in Seq(Amount) /\ SumFunction(AmountSplit[n]) = n}
<1>1. ASSUME NEW n \in Nat, \A m \in Nat : m < n => m \in N PROVE n \in N
  <2>1. CASE n = 0
    <3>1. AmountSplit[n] = <<>>
      BY <2>1, SplitExists
    <3>2. <<>> \in Seq(Amount) /\ <<>> \in Seq(Nat)
      OBVIOUS
    <3>3. SumFunction(<<>>) = 0
      BY <3>2, SumTerms
    <3>4. QED
      BY <2>1, <3>1, <3>2, <3>3
  <2>2. CASE n # 0
    <3> DEFINE s == LowestBit(n)
               t == Doubled(AmountSplit[n \div 2])
    <3>1. n \div 2 \in Nat /\ n \div 2 < n /\ n % 2 = n - 2 * (n \div 2)
      BY <2>2
    <3>2. AmountSplit[n \div 2] \in Seq(Amount) /\ SumFunction(AmountSplit[n \div 2]) = n \div 2
      BY <1>1, <3>1
    <3>3. t \in Seq(Amount) /\ SumFunction(t) = 2 * (n \div 2)
      BY <3>2, DoubledAmounts
    <3>4. s \in Seq(Amount) /\ SumFunction(s) = n % 2
      BY LowestBitIs
    <3>5. AmountSplit[n] = s \o t
      BY <2>2, SplitExists
    <3> HIDE DEF s, t
    <3>6. s \o t \in Seq(Amount)
      BY <3>3, <3>4
    <3>7. s \in Seq(Int) /\ t \in Seq(Int)
      BY <3>3, <3>4 DEF Amount
    <3>8. SumFunction(s \o t) = SumFunction(s) + SumFunction(t)
      BY <3>7, SumConcat
    <3>9. SumFunction(s \o t) = n
      BY <3>1, <3>3, <3>4, <3>8
    <3>10. AmountSplit[n] \in Seq(Amount) /\ SumFunction(AmountSplit[n]) = n
      BY <3>5, <3>6, <3>9, Zenon
    <3>11. QED
      BY <3>10
  <2>3. QED
    BY <2>1, <2>2
<1>2. N = Nat
  <2> HIDE DEF N
  <2>1. N \in SUBSET Nat
    BY DEF N
  <2>2. QED
    BY <1>1, <2>1, StrongNumbers
<1>3. QED
  BY <1>2

\* Each part is no more than the amount, and an amount has parts.
LEMMA SplitParts ==
  ASSUME NEW n \in Nat
  PROVE  /\ \A i \in DOMAIN AmountSplit[n] : AmountSplit[n][i] \in Amount /\ AmountSplit[n][i] <= n
         /\ n # 0 => AmountSplit[n] # <<>>
<1>1. AmountSplit[n] \in Seq(Amount) /\ SumFunction(AmountSplit[n]) = n
  BY SplitSumsUp
<1> DEFINE s == AmountSplit[n]
<1> HIDE DEF s
<1>2. s \in Seq(Amount) /\ SumFunction(s) = n
  BY <1>1 DEF s
<1>3. s \in Seq(Nat) /\ DOMAIN s = 1 .. Len(s)
  BY <1>2 DEF Amount
<1>4. (\A i \in 1 .. Len(s) : s[i] <= SumFunction(s)) /\ (s = <<>> => SumFunction(s) = 0)
  BY <1>3, SumTerms
<1>5. \A i \in DOMAIN s : s[i] \in Amount /\ s[i] <= n
  BY <1>2, <1>3, <1>4
<1>6. n # 0 => s # <<>>
  BY <1>2, <1>4
<1>7. QED
  BY <1>5, <1>6 DEF s

\* The logarithm is the recursion it is written as.
LEMMA LogExists ==
  \A f \in Nat : LogUp[f] = IF f <= 1 THEN 0 ELSE 1 + LogUp[(f + 1) \div 2]
<1> DEFINE log(f, h) == IF f <= 1 THEN 0 ELSE 1 + h[(f + 1) \div 2]
           B == [f \in Nat |-> [h \in [Nat -> Nat] |-> log(f, h)]]
           rank == [f \in Nat |-> f]
<1>0. \A f \in Nat : ~(f <= 1) => (f + 1) \div 2 \in Nat /\ (f + 1) \div 2 < f
  OBVIOUS
<1>1. \A f \in Nat, h \in [Nat -> Nat] : log(f, h) \in Nat
  <2> SUFFICES ASSUME NEW f \in Nat, NEW h \in [Nat -> Nat] PROVE log(f, h) \in Nat
    OBVIOUS
  <2>1. ~(f <= 1) => h[(f + 1) \div 2] \in Nat
    BY <1>0
  <2>2. QED
    BY <2>1
<1>2. \A f \in Nat : \A h, k \in [Nat -> Nat] :
        (\A m \in Nat : rank[m] < rank[f] => h[m] = k[m]) => B[f][h] = B[f][k]
  <2> SUFFICES ASSUME NEW f \in Nat, NEW h \in [Nat -> Nat], NEW k \in [Nat -> Nat],
                      \A m \in Nat : m < f => h[m] = k[m]
               PROVE  log(f, h) = log(f, k)
    OBVIOUS
  <2>1. ~(f <= 1) => h[(f + 1) \div 2] = k[(f + 1) \div 2]
    BY <1>0
  <2>2. QED
    BY <2>1
<1>3. B \in [Nat -> [[Nat -> Nat] -> Nat]] /\ rank \in [Nat -> Nat] /\ Nat # {}
  <2> HIDE DEF log
  <2>1. QED
    BY <1>1
<1>4. PICK h \in [Nat -> Nat] : \A f \in Nat : h[f] = B[f][h]
  <2>1. IsRecursion(Nat, Nat, rank, B)
    <3> HIDE DEF B, rank
    <3>1. QED
      BY <1>2, <1>3 DEF IsRecursion
  <2> HIDE DEF B, rank
  <2>2. QED
    BY <2>1, Recursion
<1>5. h = [f \in Nat |-> log(f, h)]
  BY <1>4
<1> DEFINE F == CHOOSE g : g = [f \in Nat |-> log(f, g)]
<1>6. LogUp = F
  BY DEF LogUp
<1>7. F = [f \in Nat |-> log(f, F)]
  BY <1>5
<1> HIDE DEF F
<1>8. QED
  BY <1>6, <1>7

\* An amount has the parts of its half, and one more if it is odd.
LEMMA PartsByHalves ==
  ASSUME NEW m \in Nat
  PROVE  /\ Len(AmountSplit[m]) \in Nat
         /\ m = 0 => Len(AmountSplit[m]) = 0
         /\ m # 0 => Len(AmountSplit[m]) = (m % 2) + Len(AmountSplit[m \div 2])
<1>1. m = 0 => Len(AmountSplit[m]) = 0
  BY SplitExists
<1>2. m \div 2 \in Nat
  OBVIOUS
<1>3. AmountSplit[m \div 2] \in Seq(Amount) /\ AmountSplit[m] \in Seq(Amount)
  BY <1>2, SplitSumsUp
<1> DEFINE s == LowestBit(m)
           t == Doubled(AmountSplit[m \div 2])
<1>4. s \in Seq(Amount) /\ Len(s) = m % 2
  BY LowestBitIs
<1>5. t \in Seq(Amount) /\ Len(t) = Len(AmountSplit[m \div 2])
  BY <1>3, DoubledAmounts
<1>6. m # 0 => AmountSplit[m] = s \o t
  BY SplitExists
<1> HIDE DEF s, t
<1>7. s \in Seq(Amount) /\ t \in Seq(Amount)
  BY <1>4, <1>5
<1>8. Len(s \o t) = Len(s) + Len(t)
  BY <1>7
<1>9. m # 0 => Len(AmountSplit[m]) = Len(s) + Len(t)
  BY <1>6, <1>8, Zenon
<1>10. m # 0 => Len(AmountSplit[m]) = (m % 2) + Len(AmountSplit[m \div 2])
  BY <1>4, <1>5, <1>9, Zenon
<1>11. Len(AmountSplit[m]) \in Nat
  BY <1>3
<1>12. QED
  BY <1>1, <1>10, <1>11

(* What is overpaid is no more than the reserve, and has no more parts than *)
(* there are blank outputs for the reserve.                                 *)
LEMMA BlanksAreEnough ==
  \A f \in Nat : LogUp[f] \in Nat /\
    \A m \in Nat : m <= f => Len(AmountSplit[m]) <= BlankOutputs(f)
<1> DEFINE len(m) == Len(AmountSplit[m])
           N == {f \in Nat : LogUp[f] \in Nat /\
                   \A m \in Nat : m <= f => len(m) <= BlankOutputs(f)}
<1>0. \A m \in Nat : /\ len(m) \in Nat
                     /\ m = 0 => len(m) = 0
                     /\ m # 0 => len(m) = (m % 2) + len(m \div 2)
  BY PartsByHalves
<1> HIDE DEF len
<1>1. ASSUME NEW f \in Nat, \A g \in Nat : g < f => g \in N PROVE f \in N
  <2>1. CASE f <= 1
    <3>1. LogUp[f] = 0
      BY <2>1, LogExists
    <3>2. ASSUME NEW m \in Nat, m <= f PROVE len(m) <= BlankOutputs(f)
      <4>1. m = 0 \/ m = 1
        BY <2>1, <3>2
      <4>2. CASE m = 0
        BY <1>0, <3>1, <4>2 DEF BlankOutputs
      <4>3. CASE m = 1
        <5>1. m % 2 = 1 /\ m \div 2 = 0
          BY <4>3
        <5>2. len(m) = 1
          BY <1>0, <4>3, <5>1
        <5>3. f = 1
          BY <2>1, <3>2, <4>3
        <5>4. QED
          BY <3>1, <5>2, <5>3 DEF BlankOutputs
      <4>4. QED
        BY <4>1, <4>2, <4>3
    <3>3. QED
      BY <3>1, <3>2
  <2>2. CASE ~(f <= 1)
    <3> DEFINE g == (f + 1) \div 2
    <3>1. g \in Nat /\ g < f /\ g # 0 /\ (g <= 1 => f = 2)
      BY <2>2
    <3>2. g \in N
      BY <1>1, <3>1
    <3>3. LogUp[f] = 1 + LogUp[g] /\ LogUp[g] \in Nat
      BY <2>2, <3>2, LogExists
    <3>4. BlankOutputs(f) = 1 + LogUp[g]
      BY <2>2, <3>3 DEF BlankOutputs
    <3>5. BlankOutputs(g) = IF LogUp[g] < 1 THEN 1 ELSE LogUp[g]
      BY <3>1 DEF BlankOutputs
    <3>6. ASSUME NEW m \in Nat, m <= f PROVE len(m) <= BlankOutputs(f)
      <4>0. m \div 2 \in Nat /\ m \div 2 <= g /\ (m % 2 = 0 \/ m % 2 = 1)
        BY <3>6
      <4>h. len(m \div 2) <= BlankOutputs(g) /\ len(m \div 2) \in Nat
        BY <1>0, <3>2, <4>0
      <4>b. BlankOutputs(g) <= 1 + LogUp[g] /\ (LogUp[g] >= 1 => BlankOutputs(g) <= LogUp[g])
        BY <3>3, <3>5
      <4>i. m # 0 => len(m) = (m % 2) + len(m \div 2)
        BY <1>0
      <4>1. CASE m = 0
        BY <1>0, <3>3, <3>4, <4>1
      <4>2. CASE m # 0 /\ m % 2 = 0
        <5>1. len(m) = len(m \div 2)
          BY <4>2, <4>i, <4>h
        <5>2. BlankOutputs(g) \in Nat
          BY <3>3, <3>5
        <5>3. QED
          BY <3>3, <3>4, <4>b, <4>h, <5>1, <5>2
      <4>3. CASE m # 0 /\ m % 2 = 1
        <5>1. CASE LogUp[g] >= 1
          <6>1. len(m) = 1 + len(m \div 2)
            BY <4>3, <4>i, <4>h
          <6>2. BlankOutputs(g) = LogUp[g]
            BY <3>3, <3>5, <5>1
          <6>3. QED
            BY <3>3, <3>4, <4>h, <6>1, <6>2
        <5>2. CASE LogUp[g] = 0
          <6>1. g <= 1
            <7>1. ~(g <= 1) => LogUp[g] = 1 + LogUp[(g + 1) \div 2] /\ (g + 1) \div 2 \in Nat /\ (g + 1) \div 2 < f
              BY <3>1, LogExists
            <7>2. ~(g <= 1) => LogUp[(g + 1) \div 2] \in Nat
              BY <1>1, <7>1
            <7>3. QED
              BY <5>2, <7>1, <7>2
          <6>2. m = 1 /\ m \div 2 = 0
            BY <3>1, <3>6, <4>3, <6>1
          <6>3. len(m \div 2) = 0
            BY <1>0, <6>2
          <6>4. QED
            <7>1. len(m) = 1
              BY <4>3, <4>i, <6>3
            <7>2. QED
              BY <3>3, <3>4, <7>1
        <5>3. QED
          BY <3>3, <5>1, <5>2
      <4>4. QED
        BY <4>0, <4>1, <4>2, <4>3
    <3>7. QED
      BY <3>3, <3>6
  <2>3. QED
    BY <2>1, <2>2
<1>2. N = Nat
  <2> HIDE DEF N
  <2>1. N \in SUBSET Nat
    BY DEF N
  <2>2. QED
    BY <1>1, <2>1, StrongNumbers
<1>3. QED
  BY <1>2 DEF len

\* All that is overpaid comes back on the blank outputs.
LEMMA ChangeIsWhole ==
  ASSUME NEW reserve \in Nat, NEW fee \in Nat, fee <= reserve
  PROVE  ChangeOn(BlankOutputs(reserve), fee) = fee
<1> DEFINE s == AmountSplit[fee]
           b == BlankOutputs(reserve)
<1>1. s \in Seq(Amount) /\ SumFunction(s) = fee
  BY SplitSumsUp
<1>2. Len(s) <= b /\ LogUp[reserve] \in Nat
  BY BlanksAreEnough
<1>3. b \in Nat
  BY <1>2 DEF BlankOutputs
<1> HIDE DEF s, b
<1>s. s \in Seq(Amount)
  BY <1>1 DEF s
<1>l. DOMAIN s = 1 .. Len(s) /\ Len(s) \in Nat /\ Len(s) <= b
  BY <1>2, <1>s DEF s, b
<1>4. {i \in DOMAIN s : i > Len(s) - b} = DOMAIN s
  BY <1>3, <1>l
<1>5. SumFunctionOnSet(s, {i \in DOMAIN s : i > Len(s) - b}) = SumFunction(s)
  BY <1>4, Zenon DEF SumFunction
<1>6. QED
  BY <1>1, <1>5 DEF ChangeOn, s, b

-----------------------------------------------------------------------------
(* What a wallet keeps *)

\* Lists of amounts, one after the other, are a list of amounts.
LEMMA FlattenedAmounts ==
  ASSUME NEW ss \in Seq(Seq(Amount))
  PROVE  FlattenSeq(ss) \in Seq(Amount)
<1>0. Len(ss) \in Nat /\ DOMAIN ss = 1 .. Len(ss) /\ \A i \in 1 .. Len(ss) : ss[i] \in Seq(Amount)
  OBVIOUS
<1>1. CASE Len(ss) = 0
  <2>1. FlattenSeq(ss) = ss /\ ss = <<>>
    BY <1>1 DEF FlattenSeq
  <2>2. <<>> \in Seq(Amount)
    OBVIOUS
  <2>3. QED
    BY <2>1, <2>2
<1>2. CASE Len(ss) # 0
  <2> DEFINE D == 1 .. Len(ss)
             V == Seq(Amount)
             flat(i, h) == IF i = 1 THEN ss[i] ELSE h[i - 1] \o ss[i]
             B == [i \in D |-> [h \in [D -> V] |-> flat(i, h)]]
             rank == [i \in D |-> i]
             F == CHOOSE h : h = [i \in D |-> flat(i, h)]
  <2>0. \A i \in D : i \in Nat /\ (i # 1 => i - 1 \in D /\ i - 1 < i)
    BY <1>0
  <2>1. \A i \in D, h \in [D -> V] : flat(i, h) \in V
    <3> SUFFICES ASSUME NEW i \in D, NEW h \in [D -> V] PROVE flat(i, h) \in V
      OBVIOUS
    <3>1. ss[i] \in Seq(Amount) /\ (i # 1 => h[i - 1] \in Seq(Amount))
      BY <1>0, <2>0
    <3>2. QED
      BY <3>1
  <2>2. \A i \in D : \A f, g \in [D -> V] :
          (\A e \in D : rank[e] < rank[i] => f[e] = g[e]) => B[i][f] = B[i][g]
    <3> SUFFICES ASSUME NEW i \in D, NEW f \in [D -> V], NEW g \in [D -> V],
                        \A e \in D : e < i => f[e] = g[e]
                 PROVE  flat(i, f) = flat(i, g)
      OBVIOUS
    <3>1. i # 1 => f[i - 1] = g[i - 1]
      BY <2>0
    <3>2. QED
      BY <3>1
  <2>3. B \in [D -> [[D -> V] -> V]] /\ rank \in [D -> Nat] /\ V # {}
    <3>1. <<>> \in V
      OBVIOUS
    <3>2. rank \in [D -> Nat]
      BY <2>0
    <3> HIDE DEF flat, V, D
    <3>3. QED
      BY <2>1, <3>1, <3>2
  <2>4. PICK h \in [D -> V] : \A i \in D : h[i] = B[i][h]
    <3>1. IsRecursion(D, V, rank, B)
      <4> HIDE DEF B, rank, V, D
      <4>1. QED
        BY <2>2, <2>3 DEF IsRecursion
    <3> HIDE DEF B, rank, V, D
    <3>2. QED
      BY <3>1, Recursion
  <2>5. h = [i \in D |-> flat(i, h)]
    BY <2>4
  <2>6. F = [i \in D |-> flat(i, F)]
    BY <2>5
  <2>7. FlattenSeq(ss) = F[Len(ss)]
    BY <1>2 DEF FlattenSeq
  <2> HIDE DEF F
  <2> DEFINE N == {n \in Nat : n + 1 \in D => F[n + 1] \in V}
  <2>8. 0 \in N
    <3>1. 1 \in D
      BY <1>0, <1>2
    <3>2. F[1] = ss[1]
      BY <2>6, <3>1
    <3>3. QED
      BY <1>0, <3>1, <3>2
  <2>9. ASSUME NEW n \in N PROVE n + 1 \in N
    <3> SUFFICES ASSUME (n + 1) + 1 \in D PROVE F[(n + 1) + 1] \in V
      OBVIOUS
    <3>1. n + 1 \in D /\ (n + 1) + 1 # 1 /\ ((n + 1) + 1) - 1 = n + 1
      BY <1>0
    <3>2. F[n + 1] \in V
      BY <3>1
    <3>3. F[(n + 1) + 1] = F[n + 1] \o ss[(n + 1) + 1]
      BY <2>6, <3>1
    <3>4. ss[(n + 1) + 1] \in Seq(Amount)
      BY <1>0
    <3>5. QED
      BY <3>2, <3>3, <3>4
  <2>10. N = Nat
    <3> HIDE DEF N
    <3>1. N \in SUBSET Nat
      BY DEF N
    <3>2. QED
      BY <2>8, <2>9, <3>1, AllNumbers
  <2>11. Len(ss) - 1 \in N /\ (Len(ss) - 1) + 1 = Len(ss) /\ Len(ss) \in D
    <3>1. Len(ss) - 1 \in Nat /\ (Len(ss) - 1) + 1 = Len(ss) /\ Len(ss) \in D
      BY <1>0, <1>2
    <3> HIDE DEF N, D
    <3>2. QED
      BY <2>10, <3>1
  <2>12. QED
    BY <2>7, <2>11
<1>3. QED
  BY <1>1, <1>2

\* The coins that a wallet misses are amounts.
LEMMA WantedAmounts ==
  ASSUME NEW coins, IsFiniteSet(DOMAIN coins)
  PROVE  Wanted(coins) \in Seq(Amount)
<1>0. AllowedAmounts \in Seq(Amount) /\ TargetCount \in Nat
  BY AmountsAssumption
<1>1. ASSUME NEW a PROVE Missing(coins, a) \in Nat
  <2> DEFINE S == {i \in DOMAIN coins : coins[i].amt = a}
  <2>1. IsFiniteSet(S)
    BY FS_Subset
  <2>2. Cardinality(S) \in Nat
    BY <2>1, FS_CardinalityType
  <2> HIDE DEF S
  <2>3. Missing(coins, a) = IF Cardinality(S) < TargetCount THEN TargetCount - Cardinality(S) ELSE 0
    BY DEF Missing, S
  <2>4. QED
    BY <1>0, <2>2, <2>3
<1> DEFINE row(i) == [j \in 1 .. Missing(coins, AllowedAmounts[i]) |-> AllowedAmounts[i]]
           rows == [i \in DOMAIN AllowedAmounts |-> row(i)]
<1>2. ASSUME NEW i \in DOMAIN AllowedAmounts PROVE row(i) \in Seq(Amount)
  <2>1. AllowedAmounts[i] \in Amount
    BY <1>0
  <2>2. Missing(coins, AllowedAmounts[i]) \in Nat
    BY <1>1
  <2>3. QED
    BY <2>1, <2>2
<1> HIDE DEF row
<1>3. rows \in Seq(Seq(Amount))
  <2>1. DOMAIN AllowedAmounts = 1 .. Len(AllowedAmounts) /\ Len(AllowedAmounts) \in Nat
    BY <1>0
  <2>2. rows \in [1 .. Len(AllowedAmounts) -> Seq(Amount)]
    BY <1>2, <2>1
  <2> HIDE DEF rows
  <2>3. QED
    BY <2>1, <2>2
<1>4. Wanted(coins) = FlattenSeq(rows)
  BY DEF Wanted, row
<1> HIDE DEF rows
<1>5. QED
  BY <1>3, <1>4, FlattenedAmounts

(* The amounts a wallet splits what it keeps into sum up to it: of the coins *)
(* it misses it takes as many as fit.                                       *)
LEMMA WalletSplitSumsUp ==
  ASSUME NEW coins, IsFiniteSet(DOMAIN coins), NEW n \in Nat
  PROVE  WalletSplit(coins, n) \in Seq(Amount) /\ SumFunction(WalletSplit(coins, n)) = n
<1> DEFINE want == Wanted(coins)
           upTo(k) == SumFunctionOnSet(want, 1 .. k)
           fits(k) == upTo(k) <= n /\ (k < Len(want) => upTo(k + 1) > n)
           k == CHOOSE k \in 0 .. Len(want) : fits(k)
<1>0. want \in Seq(Amount)
  BY WantedAmounts
<1> HIDE DEF want
<1>1. Len(want) \in Nat /\ \A i \in 1 .. Len(want) : want[i] \in Nat
  BY <1>0 DEF Amount
<1>2. ASSUME NEW j \in 0 .. Len(want) PROVE upTo(j) \in Nat
  <2>1. IsFiniteSet(1 .. j) /\ \A i \in 1 .. j : want[i] \in Nat
    BY <1>1, FS_Interval
  <2>2. QED
    BY <2>1, SumNat
<1>z. upTo(0) = 0
  <2>1. 1 .. 0 = {}
    OBVIOUS
  <2>2. SumFunctionOnSet(want, {}) = 0
    BY SumPick, FS_EmptySet
  <2>3. QED
    BY <2>1, <2>2, Zenon
<1> HIDE DEF upTo
<1>3. \E j \in 0 .. Len(want) : fits(j)
  <2> SUFFICES ASSUME \A j \in 0 .. Len(want) : ~fits(j) PROVE FALSE
    OBVIOUS
  <2> DEFINE N == {j \in Nat : j <= Len(want) => upTo(j) <= n}
  <2>1. 0 \in N
    BY <1>z
  <2>2. ASSUME NEW j \in N PROVE j + 1 \in N
    <3> SUFFICES ASSUME j + 1 <= Len(want) PROVE upTo(j + 1) <= n
      OBVIOUS
    <3>1. j \in 0 .. Len(want) /\ j + 1 \in 0 .. Len(want) /\ j < Len(want)
      BY <1>1
    <3>2. upTo(j) <= n /\ ~fits(j)
      BY <3>1
    <3>3. upTo(j + 1) \in Nat
      BY <1>2, <3>1
    <3>4. QED
      BY <3>1, <3>2, <3>3
  <2>3. N = Nat
    <3> HIDE DEF N
    <3>1. N \in SUBSET Nat
      BY DEF N
    <3>2. QED
      BY <2>1, <2>2, <3>1, AllNumbers
  <2>4. Len(want) \in N /\ Len(want) \in 0 .. Len(want)
    BY <1>1, <2>3
  <2>5. fits(Len(want))
    BY <1>1, <2>4
  <2>6. QED
    BY <2>4, <2>5
<1>4. k \in 0 .. Len(want) /\ fits(k)
  BY <1>3
<1>5. WalletSplit(coins, n) = SubSeq(want, 1, k) \o AmountSplit[n - upTo(k)]
  BY DEF WalletSplit, want, upTo
<1> HIDE DEF k
<1>6. upTo(k) \in Nat /\ upTo(k) <= n /\ n - upTo(k) \in Nat
  BY <1>2, <1>4
<1> DEFINE s == SubSeq(want, 1, k)
           t == AmountSplit[n - upTo(k)]
<1>7. s \in Seq(Amount) /\ Len(s) = k /\ \A i \in 1 .. k : s[i] = want[i]
  BY <1>0, <1>4
<1>8. t \in Seq(Amount) /\ SumFunction(t) = n - upTo(k)
  BY <1>6, SplitSumsUp
<1> HIDE DEF s, t
<1>9. SumFunction(s) = upTo(k)
  <2>1. DOMAIN s = 1 .. k
    BY <1>7
  <2>2. \A i \in 1 .. k : s[i] \in Int /\ want[i] = s[i]
    BY <1>1, <1>4, <1>7
  <2>3. IsFiniteSet(1 .. k)
    BY <1>4, FS_Interval
  <2>4. SumFunctionOnSet(s, 1 .. k) = SumFunctionOnSet(want, 1 .. k)
    BY <2>2, <2>3, SumSame
  <2>5. SumFunction(s) = SumFunctionOnSet(s, 1 .. k)
    BY <2>1, Zenon DEF SumFunction
  <2>6. QED
    BY <2>4, <2>5 DEF upTo
<1>10. s \o t \in Seq(Amount) /\ SumFunction(s \o t) = SumFunction(s) + SumFunction(t)
  <2>1. s \in Seq(Int) /\ t \in Seq(Int)
    BY <1>7, <1>8 DEF Amount
  <2>2. s \o t \in Seq(Amount)
    BY <1>7, <1>8
  <2>3. QED
    BY <2>1, <2>2, SumConcat
<1>11. SumFunction(s \o t) = n
  BY <1>6, <1>8, <1>9, <1>10
<1>12. WalletSplit(coins, n) = s \o t
  BY <1>5 DEF s, t
<1>13. QED
  BY <1>10, <1>11, <1>12, Zenon

-----------------------------------------------------------------------------
(* Choosing coins *)

\* Of finitely many that compare, one is the greatest.
LEMMA Greatest ==
  ASSUME NEW S, IsFiniteSet(S), S # {}, NEW R,
         \A x, y \in S : <<x, y>> \in R \/ <<y, x>> \in R,
         \A x, y, z \in S : <<x, y>> \in R /\ <<y, z>> \in R => <<x, z>> \in R
  PROVE  \E x \in S : \A y \in S : <<y, x>> \in R
<1> DEFINE H == {s \in SUBSET S : s = {} \/ \E x \in s : \A y \in s : <<y, x>> \in R}
<1>1. ASSUME NEW s \in SUBSET S, \A t \in SUBSET s : t # s => t \in H
      PROVE  s \in H
  <2>1. CASE s = {}
    BY <2>1
  <2>2. CASE s # {}
    <3>1. PICK e \in s : TRUE
      BY <2>2
    <3>2. s \ {e} \in SUBSET s /\ s \ {e} # s
      BY <3>1
    <3>3. s \ {e} \in H
      BY <1>1, <3>2
    <3>4. CASE s \ {e} = {}
      <4>1. \A y \in s : y = e
        BY <3>4
      <4>2. <<e, e>> \in R
        BY <3>1
      <4>3. \A y \in s : <<y, e>> \in R
        BY <4>1, <4>2
      <4>4. QED
        BY <3>1, <4>3
    <3>5. CASE s \ {e} # {}
      <4>1. PICK x \in s \ {e} : \A y \in s \ {e} : <<y, x>> \in R
        BY <3>3, <3>5
      <4>2. CASE <<e, x>> \in R
        <5>1. x \in s /\ \A y \in s : <<y, x>> \in R
          BY <4>1, <4>2
        <5>2. QED
          BY <5>1
      <4>3. CASE <<x, e>> \in R
        <5>1. <<e, e>> \in R
          BY <3>1
        <5>2. \A y \in s \ {e} : <<y, e>> \in R
          BY <3>1, <4>1, <4>3
        <5>3. \A y \in s : <<y, e>> \in R
          BY <5>1, <5>2
        <5>4. QED
          BY <3>1, <5>3
      <4>4. x \in S /\ e \in S
        BY <3>1, <4>1
      <4>5. QED
        BY <4>2, <4>3, <4>4
    <3>6. QED
      BY <3>4, <3>5
  <2>3. QED
    BY <2>1, <2>2
<1>2. H = SUBSET S
  <2> HIDE DEF H
  <2>1. H \in SUBSET SUBSET S
    BY DEF H
  <2>2. QED
    BY <1>1, <2>1, AllSubsets
<1>3. S \in H
  BY <1>2
<1>4. QED
  BY <1>3

\* A list of coins
IsPurse(coins) ==
  /\ IsFiniteSet(DOMAIN coins) /\ DOMAIN coins \subseteq Nat \ {0}
  /\ \A i \in DOMAIN coins : /\ coins[i].amt \in Amount
                             /\ coins[i].ks \in DOMAIN KeysetPpk

\* The smallest and the largest of some coins are among them.
LEMMA OneOfThem ==
  ASSUME NEW coins, IsPurse(coins), NEW S \in SUBSET DOMAIN coins, S # {}
  PROVE  Smallest(coins, S) \in S /\ Largest(coins, S) \in S
<1>0. /\ IsFiniteSet(S)
      /\ \A i \in S : i \in Nat /\ coins[i].amt \in Nat
  BY FS_Subset DEF IsPurse, Amount
<1> DEFINE less(i, j) == coins[i].amt < coins[j].amt \/ (coins[i].amt = coins[j].amt /\ i <= j)
           more(i, j) == coins[i].amt > coins[j].amt \/ (coins[i].amt = coins[j].amt /\ i <= j)
           L == {p \in S \X S : less(p[2], p[1])}
           M == {p \in S \X S : more(p[2], p[1])}
<1>1. /\ \A x, y \in S : less(x, y) \/ less(y, x)
      /\ \A x, y, z \in S : less(x, y) /\ less(y, z) => less(x, z)
      /\ \A x, y \in S : more(x, y) \/ more(y, x)
      /\ \A x, y, z \in S : more(x, y) /\ more(y, z) => more(x, z)
  BY <1>0
<1>2. Smallest(coins, S) = CHOOSE i \in S : \A j \in S : less(i, j)
  BY DEF Smallest
<1>3. Largest(coins, S) = CHOOSE i \in S : \A j \in S : more(i, j)
  BY DEF Largest
<1> HIDE DEF less, more
<1>4. /\ \A x, y \in S : <<x, y>> \in L <=> less(y, x)
      /\ \A x, y \in S : <<x, y>> \in M <=> more(y, x)
  OBVIOUS
<1> HIDE DEF L, M
<1>5. \E i \in S : \A j \in S : <<j, i>> \in L
  <2>1. /\ \A x, y \in S : <<x, y>> \in L \/ <<y, x>> \in L
        /\ \A x, y, z \in S : <<x, y>> \in L /\ <<y, z>> \in L => <<x, z>> \in L
    BY <1>1, <1>4
  <2>2. QED
    BY <1>0, <2>1, Greatest
<1>6. \E i \in S : \A j \in S : <<j, i>> \in M
  <2>1. /\ \A x, y \in S : <<x, y>> \in M \/ <<y, x>> \in M
        /\ \A x, y, z \in S : <<x, y>> \in M /\ <<y, z>> \in M => <<x, z>> \in M
    BY <1>1, <1>4
  <2>2. QED
    BY <1>0, <2>1, Greatest
<1>7. (\E i \in S : \A j \in S : less(i, j)) /\ (\E i \in S : \A j \in S : more(i, j))
  BY <1>4, <1>5, <1>6
<1>8. QED
  BY <1>2, <1>3, <1>7

\* A call of coinselect chooses among its coins, if the calls it makes do.
LEMMA SelectsAmongThem ==
  ASSUME NEW coins, IsPurse(coins), NEW S \in SUBSET DOMAIN coins, NEW need \in Int,
         NEW withFees \in BOOLEAN,
         NEW others \in [SUBSET DOMAIN coins -> [Int -> SUBSET DOMAIN coins]]
  PROVE  SelectFrom(coins, S, need, withFees, others) \in SUBSET DOMAIN coins
<1> DEFINE small == {i \in S : 1000 * coins[i].amt <= need}
           big == S \ small
           first == Largest(coins, small)
           rest == need - 1000 * coins[first].amt
                     + IF withFees THEN KeysetPpk[coins[first].ks] ELSE 0
           taken == {first} \cup IF rest > 0 THEN others[small \ {first}][rest] ELSE {}
           none == 1000 * SumOf(coins, S) < need \/ S = {}
           short == 1000 * SumOf(coins, taken) < need
<1>1. SelectFrom(coins, S, need, withFees, others) =
        IF none THEN {}
        ELSE IF small = {} \/ (short /\ big # {}) THEN {Smallest(coins, big)}
        ELSE taken
  BY DEF SelectFrom
<1>2. small \in SUBSET DOMAIN coins /\ big \in SUBSET DOMAIN coins /\ small \cup big = S
  OBVIOUS
<1>3. small # {} => first \in small
  BY <1>2, OneOfThem
<1>4. big # {} => Smallest(coins, big) \in big
  BY <1>2, OneOfThem
<1>5. small # {} => rest \in Int
  <2> HIDE DEF small
  <2> SUFFICES ASSUME small # {} PROVE rest \in Int
    OBVIOUS
  <2>1. first \in DOMAIN coins
    BY <1>2, <1>3
  <2> HIDE DEF first
  <2>2. coins[first].amt \in Nat /\ KeysetPpk[coins[first].ks] \in Nat
    BY <2>1, AmountsAssumption DEF IsPurse, Amount
  <2>3. QED
    BY <2>2
<1> HIDE DEF small, big, first, rest, short
<1>6. none \/ S # {}
  OBVIOUS
<1> HIDE DEF none
<1>7. small # {} => taken \in SUBSET DOMAIN coins
  <2> SUFFICES ASSUME small # {} PROVE taken \in SUBSET DOMAIN coins
    OBVIOUS
  <2>1. small \ {first} \in SUBSET DOMAIN coins /\ rest \in Int /\ first \in DOMAIN coins
    BY <1>2, <1>3, <1>5
  <2>2. others[small \ {first}] \in [Int -> SUBSET DOMAIN coins]
    BY <2>1
  <2>3. others[small \ {first}][rest] \in SUBSET DOMAIN coins
    BY <2>1, <2>2
  <2>4. QED
    BY <2>1, <2>3
<1> HIDE DEF taken
<1>8. CASE none
  BY <1>1, <1>8
<1>9. CASE ~none /\ (small = {} \/ (short /\ big # {}))
  <2>1. big # {}
    BY <1>2, <1>6, <1>9
  <2>2. QED
    BY <1>1, <1>2, <1>4, <1>9, <2>1
<1>10. CASE ~none /\ ~(small = {} \/ (short /\ big # {}))
  BY <1>1, <1>7, <1>10
<1>11. QED
  BY <1>8, <1>9, <1>10

\* It asks the others only for fewer coins.
LEMMA SelectsFromFewer ==
  ASSUME NEW coins, IsPurse(coins), NEW S \in SUBSET DOMAIN coins, NEW need, NEW withFees,
         NEW f, NEW g,
         \A T \in SUBSET DOMAIN coins : Cardinality(T) < Cardinality(S) => f[T] = g[T]
  PROVE  SelectFrom(coins, S, need, withFees, f) = SelectFrom(coins, S, need, withFees, g)
<1> DEFINE small == {i \in S : 1000 * coins[i].amt <= need}
           big == S \ small
           first == Largest(coins, small)
           rest == need - 1000 * coins[first].amt
                     + IF withFees THEN KeysetPpk[coins[first].ks] ELSE 0
           taken(h) == {first} \cup IF rest > 0 THEN h[small \ {first}][rest] ELSE {}
           none == 1000 * SumOf(coins, S) < need \/ S = {}
           short(h) == 1000 * SumOf(coins, taken(h)) < need
           chosen(h) == IF none THEN {}
                        ELSE IF small = {} \/ (short(h) /\ big # {}) THEN {Smallest(coins, big)}
                        ELSE taken(h)
<1>1. /\ SelectFrom(coins, S, need, withFees, f) = chosen(f)
      /\ SelectFrom(coins, S, need, withFees, g) = chosen(g)
  BY DEF SelectFrom
<1>2. small \in SUBSET S
  OBVIOUS
<1>3. small # {} => first \in small
  BY <1>2, OneOfThem
<1> HIDE DEF small, big, first, rest, none
<1>4. small = {} => chosen(f) = chosen(g)
  OBVIOUS
<1>5. small # {} => taken(f) = taken(g)
  <2> SUFFICES ASSUME small # {} PROVE taken(f) = taken(g)
    OBVIOUS
  <2>1. small \ {first} \in SUBSET S /\ small \ {first} # S /\ small \ {first} \in SUBSET DOMAIN coins
    BY <1>2, <1>3
  <2>2. IsFiniteSet(S)
    BY FS_Subset DEF IsPurse
  <2>3. Cardinality(small \ {first}) < Cardinality(S)
    <3> DEFINE T == small \ {first}
    <3>1. T \in SUBSET S /\ T # S
      BY <2>1
    <3> HIDE DEF T
    <3>2. Cardinality(T) < Cardinality(S)
      <4>1. IsFiniteSet(T)
        BY <2>2, <3>1, FS_Subset
      <4>2. Cardinality(S) \in Nat /\ Cardinality(T) \in Nat
        BY <2>2, <4>1, FS_CardinalityType
      <4>3. QED
        BY <2>2, <3>1, <4>2, FS_Subset
    <3>3. QED
      BY <3>2 DEF T
  <2>4. f[small \ {first}] = g[small \ {first}]
    BY <2>1, <2>3
  <2>5. QED
    BY <2>4
<1>6. small # {} => chosen(f) = chosen(g)
  <2> SUFFICES ASSUME small # {} PROVE chosen(f) = chosen(g)
    OBVIOUS
  <2>1. taken(f) = taken(g)
    BY <1>5
  <2> HIDE DEF taken
  <2>2. short(f) = short(g)
    BY <2>1
  <2> HIDE DEF short
  <2>3. QED
    BY <2>1, <2>2
<1>7. QED
  BY <1>1, <1>4, <1>6

\* coinselect chooses among the coins of the purse.
LEMMA CoinsAreSelected ==
  ASSUME NEW coins, IsPurse(coins), NEW need \in Int, NEW withFees \in BOOLEAN
  PROVE  CoinSelect(coins, need, withFees) \in SUBSET DOMAIN coins
<1> DEFINE D == SUBSET DOMAIN coins
           V == [Int -> SUBSET DOMAIN coins]
           call(S, h) == [m \in Int |-> SelectFrom(coins, S, m, withFees, h)]
           B == [S \in D |-> [h \in [D -> V] |-> call(S, h)]]
           rank == [S \in D |-> Cardinality(S)]
           F == CHOOSE h : h = [S \in D |-> call(S, h)]
<1>0. \A S \in D : IsFiniteSet(S) /\ Cardinality(S) \in Nat
  BY FS_Subset, FS_CardinalityType DEF IsPurse
<1>1. ASSUME NEW S \in D, NEW h \in [D -> V] PROVE call(S, h) \in V
  <2>1. ASSUME NEW m \in Int PROVE SelectFrom(coins, S, m, withFees, h) \in SUBSET DOMAIN coins
    BY SelectsAmongThem
  <2>2. QED
    BY <2>1
<1>2. \A S \in D : \A f, g \in [D -> V] :
        (\A T \in D : rank[T] < rank[S] => f[T] = g[T]) => B[S][f] = B[S][g]
  <2> SUFFICES ASSUME NEW S \in D, NEW f \in [D -> V], NEW g \in [D -> V],
                      \A T \in D : Cardinality(T) < Cardinality(S) => f[T] = g[T]
               PROVE  call(S, f) = call(S, g)
    OBVIOUS
  <2>1. ASSUME NEW m \in Int
        PROVE  SelectFrom(coins, S, m, withFees, f) = SelectFrom(coins, S, m, withFees, g)
    BY SelectsFromFewer
  <2>2. QED
    BY <2>1
<1>3. B \in [D -> [[D -> V] -> V]] /\ rank \in [D -> Nat] /\ V # {}
  <2>1. [m \in Int |-> {}] \in V
    OBVIOUS
  <2>2. rank \in [D -> Nat]
    BY <1>0
  <2> HIDE DEF call, V, D
  <2>3. QED
    BY <1>1, <2>1, <2>2
<1>4. PICK h \in [D -> V] : \A S \in D : h[S] = B[S][h]
  <2>1. IsRecursion(D, V, rank, B)
    <3> HIDE DEF B, rank, V, D
    <3>1. QED
      BY <1>2, <1>3 DEF IsRecursion
  <2> HIDE DEF B, rank, V, D
  <2>2. QED
    BY <2>1, Recursion
<1>5. h = [S \in D |-> call(S, h)]
  BY <1>4
<1>6. F = [S \in D |-> call(S, F)]
  <2> HIDE DEF call
  <2>1. QED
    BY <1>5
<1>7. CoinSelect(coins, need, withFees) = F[DOMAIN coins][need]
  BY DEF CoinSelect
<1> HIDE DEF F
<1>8. \A S \in D, m \in Int : F[S][m] = SelectFrom(coins, S, m, withFees, F)
  BY <1>6
<1> DEFINE N == {n \in Nat : \A S \in D : Cardinality(S) = n => F[S] \in V}
<1>9. ASSUME NEW n \in Nat, \A m \in Nat : m < n => m \in N PROVE n \in N
  <2> SUFFICES ASSUME NEW S \in D, Cardinality(S) = n PROVE F[S] \in V
    OBVIOUS
  <2> DEFINE Low == [T \in D |-> IF Cardinality(T) < n THEN F[T] ELSE [m \in Int |-> {}]]
  <2>1. \A T \in D : Cardinality(T) < n => F[T] \in V
    BY <1>0, <1>9
  <2>2. Low \in [D -> V]
    <3>1. [m \in Int |-> {}] \in V
      OBVIOUS
    <3> HIDE DEF V, D
    <3>2. QED
      BY <2>1, <3>1
  <2>3. \A T \in D : Cardinality(T) < Cardinality(S) => F[T] = Low[T]
    OBVIOUS
  <2> HIDE DEF Low
  <2>4. ASSUME NEW m \in Int PROVE F[S][m] \in SUBSET DOMAIN coins
    <3>1. SelectFrom(coins, S, m, withFees, F) = SelectFrom(coins, S, m, withFees, Low)
      BY <2>3, SelectsFromFewer
    <3>2. SelectFrom(coins, S, m, withFees, Low) \in SUBSET DOMAIN coins
      BY <2>2, SelectsAmongThem
    <3>3. QED
      BY <1>8, <3>1, <3>2
  <2>5. F[S] = [m \in Int |-> F[S][m]]
    BY <1>6
  <2>6. QED
    BY <2>4, <2>5
<1>10. N = Nat
  <2> HIDE DEF N
  <2>1. N \in SUBSET Nat
    BY DEF N
  <2>2. QED
    BY <1>9, <2>1, StrongNumbers
<1>11. F[DOMAIN coins] \in V
  <2>1. DOMAIN coins \in D /\ Cardinality(DOMAIN coins) \in N
    BY <1>0, <1>10
  <2> HIDE DEF D, V
  <2>2. QED
    BY <2>1
<1>12. QED
  BY <1>7, <1>11

-----------------------------------------------------------------------------
(* The purse *)

\* What some of its coins are worth, and what they cost.
LEMMA PurseSums ==
  ASSUME NEW coins, IsPurse(coins), NEW S \in SUBSET DOMAIN coins
  PROVE  /\ SumOf(coins, S) \in Nat /\ SumOf(coins, DOMAIN coins \ S) \in Nat
         /\ SumOf(coins, DOMAIN coins) = SumOf(coins, S) + SumOf(coins, DOMAIN coins \ S)
         /\ FeesOf(coins, S) \in Nat
         /\ S = {} => SumOf(coins, S) = 0
<1> DEFINE g == [i \in DOMAIN coins |-> coins[i].amt]
           p == [i \in DOMAIN coins |-> KeysetPpk[coins[i].ks]]
<1>1. IsFiniteSet(DOMAIN coins) /\ IsFiniteSet(S)
  BY FS_Subset DEF IsPurse
<1>2. \A i \in DOMAIN coins : g[i] \in Nat
  BY DEF IsPurse, Amount
<1>3. \A i \in S : p[i] \in Nat
  BY AmountsAssumption DEF IsPurse
<1>4. /\ \A T : SumOf(coins, T) = SumFunctionOnSet(g, T)
      /\ PpkOf(coins, S) = SumFunctionOnSet(p, S)
  BY DEF SumOf, PpkOf
<1> HIDE DEF g, p
<1>5. /\ SumFunctionOnSet(g, S) \in Nat
      /\ SumFunctionOnSet(g, DOMAIN coins) = SumFunctionOnSet(g, S) + SumFunctionOnSet(g, DOMAIN coins \ S)
      /\ SumFunctionOnSet(g, DOMAIN coins \ S) \in Nat
  BY <1>1, <1>2, SumPart
<1>6. SumFunctionOnSet(p, S) \in Nat
  BY <1>1, <1>3, SumNat
<1>7. FeesOf(coins, S) \in Nat
  <2>1. PpkOf(coins, S) \in Nat
    BY <1>4, <1>6
  <2>2. QED
    BY <2>1 DEF FeesOf
<1>8. S = {} => SumFunctionOnSet(g, S) = 0
  BY <1>1, SumPick
<1>9. QED
  BY <1>4, <1>5, <1>7, <1>8

\* Coins that leave a purse leave a purse, worth that much less.
LEMMA PurseWithout ==
  ASSUME NEW coins, IsPurse(coins), NEW S \in SUBSET DOMAIN coins
  PROVE  /\ IsPurse(Without(coins, S))
         /\ SumOf(Without(coins, S), DOMAIN Without(coins, S)) = SumOf(coins, DOMAIN coins) - SumOf(coins, S)
<1> DEFINE T == DOMAIN coins \ S
           w == Without(coins, S)
<1>1. DOMAIN w = T /\ \A i \in T : w[i] = coins[i]
  BY DEF Without
<1>2. IsFiniteSet(T) /\ T \subseteq DOMAIN coins
  BY FS_Subset DEF IsPurse
<1>3. IsPurse(w)
  <2> HIDE DEF T, w
  <2>1. QED
    BY <1>1, <1>2 DEF IsPurse
<1>4. SumOf(w, T) = SumOf(coins, T)
  <2> DEFINE g == [i \in DOMAIN coins |-> coins[i].amt]
             h == [i \in DOMAIN w |-> w[i].amt]
  <2>1. \A i \in T : g[i] \in Int /\ h[i] = g[i]
    BY <1>1 DEF IsPurse, Amount
  <2>2. SumOf(w, T) = SumFunctionOnSet(h, T) /\ SumOf(coins, T) = SumFunctionOnSet(g, T)
    BY DEF SumOf
  <2> HIDE DEF g, h, T, w
  <2>3. SumFunctionOnSet(g, T) = SumFunctionOnSet(h, T)
    BY <1>2, <2>1, SumSame
  <2>4. QED
    BY <2>2, <2>3
<1>5. /\ SumOf(coins, S) \in Nat /\ SumOf(coins, T) \in Nat
      /\ SumOf(coins, DOMAIN coins) = SumOf(coins, S) + SumOf(coins, T)
  BY PurseSums
<1>6. SumOf(w, DOMAIN w) = SumOf(w, T)
  <2> HIDE DEF w, T
  <2>1. QED
    BY <1>1, Zenon
<1> HIDE DEF w, T
<1>7. SumOf(w, DOMAIN w) = SumOf(coins, DOMAIN coins) - SumOf(coins, S)
  BY <1>4, <1>5, <1>6
<1>8. QED
  BY <1>3, <1>7 DEF w

\* No coin is behind the last one.
LEMMA LastPosition ==
  ASSUME NEW coins, IsPurse(coins)
  PROVE  LastOf(coins) \in Nat /\ \A j \in DOMAIN coins : j <= LastOf(coins)
<1> DEFINE S == DOMAIN coins \cup {0}
           R == {p \in S \X S : p[1] <= p[2]}
<1>1. IsFiniteSet(S) /\ S \subseteq Nat /\ 0 \in S
  <2>1. IsFiniteSet({0}) /\ IsFiniteSet(DOMAIN coins) /\ DOMAIN coins \subseteq Nat
    BY FS_Singleton DEF IsPurse
  <2>2. IsFiniteSet(S)
    BY <2>1, FS_Union
  <2>3. QED
    BY <2>1, <2>2
<1>2. \A x, y \in S : <<x, y>> \in R <=> x <= y
  OBVIOUS
<1>3. LastOf(coins) = CHOOSE i \in S : \A j \in DOMAIN coins : j <= i
  BY DEF LastOf
<1>d. DOMAIN coins \subseteq S
  OBVIOUS
<1> HIDE DEF S, R
<1>4. /\ \A x, y \in S : <<x, y>> \in R \/ <<y, x>> \in R
      /\ \A x, y, z \in S : <<x, y>> \in R /\ <<y, z>> \in R => <<x, z>> \in R
  BY <1>1, <1>2
<1>5. \E x \in S : \A y \in S : <<y, x>> \in R
  BY <1>1, <1>4, Greatest
<1>6. \E i \in S : \A j \in DOMAIN coins : j <= i
  BY <1>2, <1>5, <1>d
<1>7. LastOf(coins) \in S /\ \A j \in DOMAIN coins : j <= LastOf(coins)
  BY <1>3, <1>6
<1>8. QED
  BY <1>1, <1>7

\* Coins that come into a purse make a purse, worth that much more.
LEMMA PurseWith ==
  ASSUME NEW coins, IsPurse(coins), NEW amounts \in Seq(Amount)
  PROVE  /\ IsPurse(With(coins, amounts))
         /\ SumOf(With(coins, amounts), DOMAIN With(coins, amounts))
              = SumOf(coins, DOMAIN coins) + SumFunction(amounts)
<1> DEFINE l == LastOf(coins)
           D == DOMAIN coins
           T == l + 1 .. l + Len(amounts)
           w == With(coins, amounts)
<1>0. /\ l \in Nat /\ \A j \in D : j <= l /\ j \in Nat
      /\ Len(amounts) \in Nat /\ DOMAIN amounts = 1 .. Len(amounts)
      /\ \A j \in 1 .. Len(amounts) : amounts[j] \in Amount
  BY LastPosition DEF IsPurse
<1>1. {l + j : j \in DOMAIN amounts} = T
  <2> HIDE DEF l
  <2>1. \A i \in T : i - l \in DOMAIN amounts /\ i = l + (i - l)
    BY <1>0
  <2>2. \A j \in DOMAIN amounts : l + j \in T
    BY <1>0
  <2> HIDE DEF T
  <2>3. QED
    BY <2>1, <2>2
<1>2. /\ DOMAIN w = D \cup T
      /\ \A i \in D : w[i] = coins[i]
      /\ \A i \in T : i \notin D => w[i] = [amt |-> amounts[i - l], ks |-> ActiveKeyset]
  <2> HIDE DEF T
  <2>1. w = [i \in D \cup T |-> IF i \in D THEN coins[i] ELSE [amt |-> amounts[i - l], ks |-> ActiveKeyset]]
    BY <1>1 DEF With
  <2> HIDE DEF w
  <2>2. QED
    BY <2>1
<1> HIDE DEF w, l
<1>3. D \cap T = {} /\ IsFiniteSet(T) /\ IsFiniteSet(D) /\ IsFiniteSet(D \cup T)
  <2>1. \A i \in T : i > l
    BY <1>0
  <2>2. D \cap T = {}
    BY <1>0, <2>1
  <2>3. IsFiniteSet(T)
    BY <1>0, FS_Interval
  <2>4. IsFiniteSet(D)
    BY DEF IsPurse
  <2>5. QED
    BY <2>2, <2>3, <2>4, FS_Union
<1>4. \A j \in 1 .. Len(amounts) : l + j \in T /\ w[l + j].amt = amounts[j] /\ w[l + j].ks = ActiveKeyset
  <2> SUFFICES ASSUME NEW j \in 1 .. Len(amounts)
               PROVE  l + j \in T /\ w[l + j].amt = amounts[j] /\ w[l + j].ks = ActiveKeyset
    OBVIOUS
  <2>1. l + j \in T /\ (l + j) - l = j
    BY <1>0
  <2>2. w[l + j] = [amt |-> amounts[j], ks |-> ActiveKeyset]
    BY <1>2, <1>3, <2>1
  <2>3. QED
    BY <2>1, <2>2
<1>5. \A i \in T : i \in Nat \ {0} /\ \E j \in 1 .. Len(amounts) : i = l + j
  <2>1. \A i \in T : i \in Nat \ {0} /\ i - l \in 1 .. Len(amounts) /\ i = l + (i - l)
    BY <1>0
  <2>2. QED
    BY <2>1
<1> HIDE DEF T
<1>6. \A i \in T : w[i].amt \in Amount /\ w[i].ks \in DOMAIN KeysetPpk
  BY <1>0, <1>4, <1>5, AmountsAssumption
<1>7. IsPurse(w)
  <2>1. DOMAIN w \subseteq Nat \ {0}
    BY <1>2, <1>5 DEF IsPurse
  <2>2. \A i \in D \cup T : w[i].amt \in Amount /\ w[i].ks \in DOMAIN KeysetPpk
    BY <1>2, <1>6 DEF IsPurse
  <2>3. QED
    BY <1>2, <1>3, <2>1, <2>2 DEF IsPurse
<1> DEFINE g == [i \in D |-> coins[i].amt]
           h == [i \in DOMAIN w |-> w[i].amt]
<1>8. SumOf(w, DOMAIN w) = SumFunctionOnSet(h, D \cup T) /\ SumOf(coins, D) = SumFunctionOnSet(g, D)
  BY <1>2, Zenon DEF SumOf
<1>9. /\ \A i \in D : g[i] \in Int /\ h[i] = g[i]
      /\ \A i \in D \cup T : h[i] \in Int
      /\ \A j \in 1 .. Len(amounts) : h[l + j] = amounts[j]
  <2>1. \A i \in D : g[i] \in Int /\ h[i] = g[i]
    BY <1>2 DEF IsPurse, Amount
  <2>2. \A i \in T : h[i] = w[i].amt
    BY <1>2
  <2>3. \A i \in T : h[i] \in Int
    BY <1>6, <2>2 DEF Amount
  <2>4. \A j \in 1 .. Len(amounts) : h[l + j] = amounts[j]
    BY <1>4, <2>2
  <2>5. QED
    BY <2>1, <2>3, <2>4
<1> HIDE DEF g, h
<1>10. SumFunctionOnSet(h, D \cup T) = SumFunctionOnSet(h, D) + SumFunctionOnSet(h, T)
  BY <1>3, <1>9, SumUnion
<1>11. SumFunctionOnSet(h, D) = SumFunctionOnSet(g, D)
  BY <1>3, <1>9, SumSame
<1>12. SumFunctionOnSet(h, T) = SumFunction(amounts)
  <2>1. amounts \in Seq(Int)
    BY <1>0 DEF Amount
  <2>2. SumFunctionOnSet(h, l + 1 .. l + Len(amounts)) = SumFunctionOnSet(amounts, 1 .. Len(amounts))
    BY <1>0, <1>9, <2>1, SumShift
  <2>3. SumFunction(amounts) = SumFunctionOnSet(amounts, 1 .. Len(amounts))
    BY <1>0, Zenon DEF SumFunction
  <2>4. QED
    BY <2>2, <2>3 DEF T
<1>13. SumOf(w, DOMAIN w) = SumOf(coins, D) + SumFunction(amounts)
  BY <1>8, <1>10, <1>11, <1>12
<1>14. QED
  BY <1>7, <1>13 DEF w

-----------------------------------------------------------------------------
(* The swap *)

\* What is kept, what is sent and what the mint takes are the inputs.
LEMMA OutputsAndFees ==
  ASSUME NEW coins, IsPurse(coins), NEW S \in SUBSET DOMAIN coins,
         NEW n \in Amount, NEW withFees \in BOOLEAN
  PROVE  LET out == DetermineOutputs(coins, S, n, withFees)
         IN  /\ out.keep \in Int /\ out.send \in Amount
             /\ out.keep + out.send + FeesOf(coins, S) = SumOf(coins, S)
<1> DEFINE ppk == KeysetPpk[ActiveKeyset]
           parts == Len(AmountSplit[n])
           extra == IF withFees THEN (parts * ppk + 999) \div 1000 ELSE 0
<1>1. ppk \in Nat
  BY AmountsAssumption
<1>2. n \in Nat /\ n # 0
  BY DEF Amount
<1>3. parts \in Nat
  BY <1>2, PartsByHalves
<1>4. /\ DetermineOutputs(coins, S, n, withFees).keep = SumOf(coins, S) - n - extra - FeesOf(coins, S)
      /\ DetermineOutputs(coins, S, n, withFees).send = n + extra
  BY DEF DetermineOutputs
<1> HIDE DEF ppk, parts
<1>5. parts * ppk \in Nat
  BY <1>1, <1>3
<1>6. extra \in Nat
  <2> DEFINE m == parts * ppk
  <2> HIDE DEF m
  <2>1. (m + 999) \div 1000 \in Nat
    BY <1>5 DEF m
  <2>2. QED
    BY <2>1 DEF m
<1> HIDE DEF extra
<1>7. SumOf(coins, S) \in Nat /\ FeesOf(coins, S) \in Nat
  BY PurseSums
<1>8. QED
  BY <1>2, <1>4, <1>6, <1>7 DEF Amount

(* A swap for which something is left to keep balances, and no amount in it *)
(* is too large for the mint: coins that are not chosen pay for nothing.    *)
LEMMA SwapBalances ==
  ASSUME NEW coins, IsPurse(coins), SumOf(coins, DOMAIN coins) < 2^MaxOrder,
         NEW S \in SUBSET DOMAIN coins, NEW n \in Amount, NEW withFees \in BOOLEAN,
         DetermineOutputs(coins, S, n, withFees).keep >= 0
  PROVE  LET out   == DetermineOutputs(coins, S, n, withFees)
             keeps == WalletSplit(coins, out.keep)
         IN  /\ MintBalances(coins, S, keeps \o AmountSplit[out.send])
             /\ keeps \in Seq(Amount) /\ SumFunction(keeps) <= SumOf(coins, S)
<1> DEFINE keep == DetermineOutputs(coins, S, n, withFees).keep
           send == DetermineOutputs(coins, S, n, withFees).send
           keeps == WalletSplit(coins, keep)
           sends == AmountSplit[send]
<1>1. keep \in Int /\ send \in Amount /\ keep + send + FeesOf(coins, S) = SumOf(coins, S)
  BY OutputsAndFees
<1>2. keep >= 0
  OBVIOUS
<1> HIDE DEF keep, send
<1>3. keep \in Nat /\ send \in Nat /\ send # 0
  BY <1>1, <1>2 DEF Amount
<1>4. /\ SumOf(coins, S) \in Nat /\ FeesOf(coins, S) \in Nat
      /\ SumOf(coins, S) <= SumOf(coins, DOMAIN coins)
      /\ S = {} => SumOf(coins, S) = 0
  <2>1. /\ SumOf(coins, S) \in Nat /\ SumOf(coins, DOMAIN coins \ S) \in Nat
        /\ SumOf(coins, DOMAIN coins) = SumOf(coins, S) + SumOf(coins, DOMAIN coins \ S)
        /\ FeesOf(coins, S) \in Nat
        /\ S = {} => SumOf(coins, S) = 0
    BY PurseSums
  <2>2. QED
    BY <2>1
<1> DEFINE most == 2^MaxOrder
<1>m. most \in Nat /\ SumOf(coins, DOMAIN coins) < most
  BY AmountsAssumption DEF Amount
<1> HIDE DEF most
<1>d. SumOf(coins, DOMAIN coins) \in Nat
  BY PurseSums
<1>5. keeps \in Seq(Amount) /\ SumFunction(keeps) = keep
  BY <1>3, WalletSplitSumsUp DEF IsPurse
<1>6. sends \in Seq(Amount) /\ SumFunction(sends) = send /\ sends # <<>>
  BY <1>3, SplitSumsUp, SplitParts
<1> HIDE DEF keeps, sends
<1>7. S # {}
  BY <1>1, <1>3, <1>4
<1>8. keep + send < most
  BY <1>1, <1>3, <1>4, <1>d, <1>m
<1>9. keeps \o sends \in Seq(Amount) /\ SumFunction(keeps \o sends) = keep + send /\ keeps \o sends # <<>>
  <2>1. keeps \in Seq(Int) /\ sends \in Seq(Int)
    BY <1>5, <1>6 DEF Amount
  <2>2. SumFunction(keeps \o sends) = SumFunction(keeps) + SumFunction(sends)
    BY <2>1, SumConcat
  <2>3. keeps \o sends \in Seq(Amount) /\ keeps \o sends # <<>>
    BY <1>5, <1>6
  <2>4. QED
    BY <1>5, <1>6, <2>2, <2>3
<1> DEFINE outs == keeps \o sends
<1> HIDE DEF outs
<1>10. outs \in Seq(Amount) /\ SumFunction(outs) = keep + send /\ outs # <<>>
  BY <1>9 DEF outs
<1>11. \A i \in DOMAIN outs : outs[i] > 0 /\ outs[i] < most
  <2>1. outs \in Seq(Nat) /\ DOMAIN outs = 1 .. Len(outs) /\ \A i \in DOMAIN outs : outs[i] \in Nat /\ outs[i] > 0
    BY <1>10 DEF Amount
  <2>2. \A i \in 1 .. Len(outs) : outs[i] <= SumFunction(outs)
    BY <2>1, SumTerms
  <2>3. ASSUME NEW i \in DOMAIN outs PROVE outs[i] > 0 /\ outs[i] < most
    <3>1. outs[i] \in Nat /\ outs[i] > 0 /\ outs[i] <= keep + send
      BY <1>10, <2>1, <2>2
    <3>2. QED
      BY <1>3, <1>8, <1>m, <3>1
  <2>4. QED
    BY <2>3
<1>12. SumFunction(outs) + FeesOf(coins, S) = SumOf(coins, S)
  BY <1>1, <1>10
<1>13. MintBalances(coins, S, outs)
  BY <1>7, <1>10, <1>11, <1>12 DEF MintBalances, most
<1>14. SumFunction(keeps) <= SumOf(coins, S)
  BY <1>1, <1>3, <1>4, <1>5
<1>15. QED
  BY <1>5, <1>13, <1>14 DEF keep, send, keeps, sends, outs

-----------------------------------------------------------------------------
(* The specification *)

(* The purse is a list of coins, worth less than the first amount the mint  *)
(* refuses; and the two properties.                                         *)
AmountsIInv ==
  /\ IsPurse(purse)
  /\ SumOf(purse, DOMAIN purse) < 2^MaxOrder
  /\ PostedSwapsBalance
  /\ OverpaidFeeComesBack

\* An empty purse
LEMMA AmountsStart == AmountsInit => AmountsIInv
<1> SUFFICES ASSUME AmountsInit PROVE AmountsIInv
  OBVIOUS
<1>1. purse = <<>> /\ posted = Nothing /\ overpaid = Nothing
  BY DEF AmountsInit
<1>2. DOMAIN purse = {}
  BY <1>1
<1>3. IsPurse(purse)
  BY <1>2, FS_EmptySet DEF IsPurse
<1>4. SumOf(purse, DOMAIN purse) = 0
  <2>1. DOMAIN purse \in SUBSET DOMAIN purse
    OBVIOUS
  <2>2. QED
    BY <1>2, <1>3, <2>1, PurseSums
<1>5. 0 < 2^MaxOrder
  <2> DEFINE most == 2^MaxOrder
  <2>1. most \in Amount
    BY AmountsAssumption
  <2> HIDE DEF most
  <2>2. 0 < most
    BY <2>1 DEF Amount
  <2>3. QED
    BY <2>2 DEF most
<1>6. QED
  BY <1>1, <1>3, <1>4, <1>5 DEF AmountsIInv, PostedSwapsBalance, OverpaidFeeComesBack

\* A purse to start from
LEMMA FillKeeps ==
  ASSUME AmountsIInv, NEW p \in Purses, FillPurse(p)
  PROVE  AmountsIInv'
<1>1. purse' = p /\ posted' = posted /\ overpaid' = overpaid
  BY DEF FillPurse
<1>2. p \in Seq(Coin) /\ SumOf(p, DOMAIN p) < 2^MaxOrder
  BY AmountsAssumption
<1>3. IsPurse(p)
  <2>1. DOMAIN p = 1 .. Len(p) /\ Len(p) \in Nat /\ \A i \in 1 .. Len(p) : p[i] \in Coin
    BY <1>2
  <2>2. IsFiniteSet(1 .. Len(p))
    BY <2>1, FS_Interval
  <2>3. DOMAIN p \subseteq Nat \ {0}
    BY <2>1
  <2>4. QED
    BY <2>1, <2>2, <2>3 DEF IsPurse, Coin
<1>4. IsPurse(purse)' /\ (SumOf(purse, DOMAIN purse) < 2^MaxOrder)'
  BY <1>1, <1>2, <1>3
<1>5. QED
  BY <1>1, <1>4 DEF AmountsIInv, PostedSwapsBalance, OverpaidFeeComesBack

\* Coins that leave the purse leave a purse.
LEMMA SentOffline ==
  ASSUME AmountsIInv, NEW n \in Requested, NEW withFees \in BOOLEAN, SendSelected(n, withFees)
  PROVE  AmountsIInv'
<1> DEFINE S == CoinSelect(purse, 1000 * n, withFees)
<1>1. purse' = Without(purse, S) /\ posted' = posted /\ overpaid' = overpaid
  BY DEF SendSelected
<1>2. IsPurse(purse) /\ SumOf(purse, DOMAIN purse) < 2^MaxOrder
  BY DEF AmountsIInv
<1>3. S \in SUBSET DOMAIN purse
  <2>1. 1000 * n \in Int
    BY AmountsAssumption DEF Amount
  <2>2. QED
    BY <1>2, <2>1, CoinsAreSelected
<1> HIDE DEF S
<1> DEFINE w == Without(purse, S)
<1>4. /\ IsPurse(w)
      /\ SumOf(w, DOMAIN w) = SumOf(purse, DOMAIN purse) - SumOf(purse, S)
  BY <1>2, <1>3, PurseWithout
<1>5. SumOf(purse, S) \in Nat /\ SumOf(purse, DOMAIN purse) \in Nat
  BY <1>2, <1>3, PurseSums
<1> HIDE DEF w
<1>6. SumOf(w, DOMAIN w) < 2^MaxOrder
  <2> DEFINE most == 2^MaxOrder
  <2>1. most \in Nat /\ SumOf(purse, DOMAIN purse) < most
    BY <1>2, AmountsAssumption DEF Amount
  <2> HIDE DEF most
  <2>2. SumOf(w, DOMAIN w) < most
    BY <1>4, <1>5, <2>1
  <2>3. QED
    BY <2>2 DEF most
<1>7. purse' = w
  BY <1>1 DEF w
<1>8. IsPurse(purse)' /\ (SumOf(purse, DOMAIN purse) < 2^MaxOrder)'
  BY <1>4, <1>6, <1>7
<1>9. QED
  BY <1>1, <1>8 DEF AmountsIInv, PostedSwapsBalance, OverpaidFeeComesBack

\* A swap balances, and what it leaves and brings is a purse worth no more.
LEMMA SwapKeeps ==
  ASSUME AmountsIInv, NEW n \in Requested, NEW withFees \in BOOLEAN, SendSwapped(n, withFees)
  PROVE  AmountsIInv'
<1> DEFINE S == SwapCoins(n)
           out == DetermineOutputs(purse, S, n, withFees)
           keeps == WalletSplit(purse, out.keep)
           sends == AmountSplit[out.send]
           ok == MintBalances(purse, S, keeps \o sends)
<1>1. /\ out.keep >= 0 /\ overpaid' = overpaid
      /\ posted' = [accepted |-> ok]
      /\ purse' = IF ok THEN With(Without(purse, S), keeps) ELSE purse
  BY DEF SendSwapped
<1>2. IsPurse(purse) /\ SumOf(purse, DOMAIN purse) < 2^MaxOrder
  BY DEF AmountsIInv
<1>n. n \in Amount
  BY AmountsAssumption
<1>3. S \in SUBSET DOMAIN purse
  <2>1. 1000 * n \in Int
    BY <1>n DEF Amount
  <2>2. \A need \in Int, f \in BOOLEAN : CoinSelect(purse, need, f) \in SUBSET DOMAIN purse
    BY <1>2, CoinsAreSelected
  <2> DEFINE all == TRUE
             need == 1000 * n
  <2>b. all \in BOOLEAN /\ need \in Int
    BY <2>1
  <2> HIDE DEF all, need
  <2>3. CoinSelect(purse, need, all) \in SUBSET DOMAIN purse
    BY <2>2, <2>b
  <2>4. S = CoinSelect(purse, need, all) \cup {i \in DOMAIN purse : purse[i].ks # ActiveKeyset}
    BY DEF SwapCoins, need, all
  <2> HIDE DEF S
  <2>5. QED
    BY <2>3, <2>4
<1> HIDE DEF S
<1>4. ok /\ keeps \in Seq(Amount) /\ SumFunction(keeps) <= SumOf(purse, S)
  BY <1>1, <1>2, <1>3, <1>n, SwapBalances
<1> HIDE DEF keeps, ok
<1> DEFINE w == Without(purse, S)
<1>5. IsPurse(w) /\ SumOf(w, DOMAIN w) = SumOf(purse, DOMAIN purse) - SumOf(purse, S)
  BY <1>2, <1>3, PurseWithout
<1>6. SumOf(purse, S) \in Nat /\ SumOf(purse, DOMAIN purse) \in Nat
  BY <1>2, <1>3, PurseSums
<1> HIDE DEF w
<1> DEFINE v == With(w, keeps)
<1>7. IsPurse(v) /\ SumOf(v, DOMAIN v) = SumOf(w, DOMAIN w) + SumFunction(keeps)
  BY <1>4, <1>5, PurseWith
<1>8. SumFunction(keeps) \in Nat
  <2>1. keeps \in Seq(Nat)
    BY <1>4 DEF Amount
  <2>2. QED
    BY <2>1, SumTerms
<1> HIDE DEF v
<1>9. SumOf(v, DOMAIN v) < 2^MaxOrder
  <2> DEFINE most == 2^MaxOrder
  <2>1. most \in Nat /\ SumOf(purse, DOMAIN purse) < most
    BY <1>2, AmountsAssumption DEF Amount
  <2> HIDE DEF most
  <2>2. SumOf(v, DOMAIN v) < most
    BY <1>4, <1>5, <1>6, <1>7, <1>8, <2>1
  <2>3. QED
    BY <2>2 DEF most
<1>10. purse' = v
  BY <1>1, <1>4 DEF v, w
<1>11. IsPurse(purse)' /\ (SumOf(purse, DOMAIN purse) < 2^MaxOrder)'
  BY <1>7, <1>9, <1>10
<1>12. PostedSwapsBalance'
  BY <1>1, <1>4 DEF PostedSwapsBalance
<1>13. QED
  BY <1>1, <1>11, <1>12 DEF AmountsIInv, OverpaidFeeComesBack

\* The overpaid fee of a melt comes back.
LEMMA MeltKeeps ==
  ASSUME AmountsIInv, NEW reserve \in FeeReserves, NEW fee \in FeeReserves \cup {0},
         fee <= reserve, MeltReturns(reserve, fee)
  PROVE  AmountsIInv'
<1>1. /\ overpaid' = [fee |-> reserve - fee, back |-> ChangeOn(BlankOutputs(reserve), reserve - fee)]
      /\ purse' = purse /\ posted' = posted
  BY DEF MeltReturns
<1>2. reserve \in Nat /\ fee \in Nat /\ reserve - fee \in Nat /\ reserve - fee <= reserve
  BY AmountsAssumption
<1>3. ChangeOn(BlankOutputs(reserve), reserve - fee) = reserve - fee
  BY <1>2, ChangeIsWhole
<1>4. OverpaidFeeComesBack'
  BY <1>1, <1>3 DEF OverpaidFeeComesBack
<1>5. QED
  BY <1>1, <1>4 DEF AmountsIInv, PostedSwapsBalance

(* Wallet and mint agree on the arithmetic of every swap the wallet posts   *)
(* (transactions.py:185-234, verification.py:261-281), and the mint's       *)
(* imprint gives back all of an overpaid fee (core/helpers.py:61-72,        *)
(* ledger.py:267-332): for any keysets and fees, any coins that are worth   *)
(* less than the mint's largest amount, and any coins that the selection    *)
(* takes.                                                                   *)
THEOREM AmountsInvariant == AmountsSpec => []AmountsIInv
<1>1. AmountsInit => AmountsIInv
  BY AmountsStart
<1>2. AmountsIInv /\ [AmountsNext]_amountVars => AmountsIInv'
  <2> SUFFICES ASSUME AmountsIInv, [AmountsNext]_amountVars PROVE AmountsIInv'
    OBVIOUS
  <2>1. CASE \E p \in Purses : FillPurse(p)
    BY <2>1, FillKeeps
  <2>2. CASE \E n \in Requested, f \in BOOLEAN : SendSelected(n, f)
    BY <2>2, SentOffline
  <2>3. CASE \E n \in Requested, f \in BOOLEAN : SendSwapped(n, f)
    BY <2>3, SwapKeeps
  <2>4. CASE \E R \in FeeReserves, fee \in FeeReserves \cup {0} : fee <= R /\ MeltReturns(R, fee)
    BY <2>4, MeltKeeps
  <2>5. CASE UNCHANGED amountVars
    BY <2>5 DEF amountVars, AmountsIInv, PostedSwapsBalance, OverpaidFeeComesBack
  <2>6. QED
    BY <2>1, <2>2, <2>3, <2>4, <2>5 DEF AmountsNext
<1>3. QED
  BY <1>1, <1>2, PTL DEF AmountsSpec

\* Every swap the wallet posts satisfies the mint's balance equation.
THEOREM SwapsBalance == AmountsSpec => []PostedSwapsBalance
<1>1. AmountsIInv => PostedSwapsBalance
  BY DEF AmountsIInv
<1>2. QED
  BY <1>1, AmountsInvariant, PTL

\* An overpaid fee comes back whole.
THEOREM OverpaidFeesComeBack == AmountsSpec => []OverpaidFeeComesBack
<1>1. AmountsIInv => OverpaidFeeComesBack
  BY DEF AmountsIInv
<1>2. QED
  BY <1>1, AmountsInvariant, PTL

-----------------------------------------------------------------------------
(***************************************************************************)
(* Tokens: what is redeemed was sent, under its full id, and a token that  *)
(* is redeemed without an exception is redeemed whole, for any keysets,    *)
(* ids with a prefix in common, proofs and tokens of other software.       *)
(***************************************************************************)

\* A proof as it leaves the sender, and a set of them at their mints.
Clean(p, dleq) == [p EXCEPT !.dleq = dleq /\ @]
AsSentOf(proofs, dleq) == {[mint |-> MintOf[p.id], proof |-> Clean(p, dleq)] : p \in proofs}

\* The proofs of a part are these: under their full ids, or under their short
\* ones, all of them of keysets that the receiver has loaded.
Carried(shown, dleq, proofs, loaded) ==
  \/ shown = {Clean(p, dleq) : p \in proofs}
  \/ /\ IdsOf(proofs) \subseteq loaded
     /\ shown = {[Clean(p, dleq) EXCEPT !.id = ShortId(@)] : p \in proofs}

PartsOf(token) == {token.parts[i] : i \in DOMAIN token.parts}

\* A token carries these proofs, all of them.
Says(token, proofs) ==
  /\ token = Token(token.version, token.unit, token.dleq, token.parts)
  /\ token.parts \in Seq(PartsOf(token))
  /\ token.version = "V3" => ProofsOf(token) = {Clean(p, token.dleq) : p \in proofs}
  /\ token.version = "V4" =>
       /\ Len(token.parts) = 1
       /\ Carried(token.parts[1].proofs, token.dleq, proofs,
                  Loaded(token.parts[1].mint, token.unit))

\* What was redeemed and what the parts that are left carry are the token.
RestIsUnredeemed ==
  /\ unfinished \in Seq(PartsOf(object))
  /\ \E qs \in [DOMAIN unfinished -> SUBSET sent] :
       /\ \A i \in DOMAIN unfinished :
            Carried(unfinished[i].proofs, text.dleq, qs[i], Loaded(unfinished[i].mint, object.unit))
       /\ redeemed \cup UNION {AsSentOf(qs[i], text.dleq) : i \in DOMAIN unfinished}
            = AsSent(text.dleq)

\* The inductive invariant.
TokensIInv ==
  /\ sent \subseteq TokenProofs
  /\ text.dleq \in BOOLEAN
  /\ text = Unsent => sent # {} /\ OneMintAndUnit(sent)
  /\ text = Unsent /\ reservedRows = <<>> => redeemed = {}
  /\ text.version \in {"V3", "V4"} => Says(text, sent)
  /\ reservedRows \in Seq([proof : sent, send : SendIds \cup {NoSend}])
  /\ reservedRows # <<>> => text = Unsent
  /\ back \in Seq(SUBSET sent)
  /\ reservedRows = <<>> => back = <<>>
  /\ object.version \in {"V3", "V4"} => text # Unsent /\ RestIsUnredeemed
  /\ redeemed \subseteq AsSent(text.dleq)

-----------------------------------------------------------------------------
(* Ids and forms *)

\* What a proof is that leaves the sender.
LEMMA CleanIs ==
  ASSUME NEW p \in TokenProofs, NEW dleq \in BOOLEAN
  PROVE  /\ Clean(p, dleq) = [id |-> p.id, secret |-> p.secret, dleq |-> dleq /\ p.dleq]
         /\ Clean(p, TRUE) = p
         /\ Clean(p, FALSE) = [p EXCEPT !.dleq = FALSE]
         /\ Clean(p, dleq).id = p.id
         /\ p.id \in KeysetIds
<1>1. PICK i, s, d : p = [id |-> i, secret |-> s, dleq |-> d] /\ d \in BOOLEAN
  BY TokensAssumption
<1>e. \A x : [p EXCEPT !.dleq = x] = [id |-> i, secret |-> s, dleq |-> x]
  BY <1>1
<1>f. p.dleq = d /\ (TRUE /\ d) = d /\ (FALSE /\ d) = FALSE
  BY <1>1
<1>2. /\ Clean(p, dleq) = [id |-> i, secret |-> s, dleq |-> dleq /\ d]
      /\ Clean(p, TRUE) = [id |-> i, secret |-> s, dleq |-> d]
      /\ Clean(p, FALSE) = [p EXCEPT !.dleq = FALSE]
  <2>1. /\ Clean(p, dleq) = [p EXCEPT !.dleq = dleq /\ p.dleq]
        /\ Clean(p, TRUE) = [p EXCEPT !.dleq = TRUE /\ p.dleq]
        /\ Clean(p, FALSE) = [p EXCEPT !.dleq = FALSE /\ p.dleq]
    BY Zenon DEF Clean
  <2>2. (dleq /\ p.dleq) = (dleq /\ d) /\ (TRUE /\ p.dleq) = d /\ (FALSE /\ p.dleq) = FALSE
    BY <1>1, <1>f, Zenon
  <2>3. QED
    BY <1>e, <2>1, <2>2, Zenon
<1>3. (TRUE /\ d) = d /\ p.id = i /\ p.secret = s /\ p.dleq = d
  BY <1>1
<1>4. QED
  BY <1>1, <1>2, <1>3, TokensAssumption

\* A full id is not short; the short id of a proof with a long one is, and the
\* only loaded keyset that matches it is that of the proof.
LEMMA FullIdsAreNotShort ==
  ASSUME NEW k \in KeysetIds
  PROVE  ~IsShort(k) /\ (ShortId(k) = k \/ IsShort(ShortId(k)))
BY TokensAssumption DEF IsShort, ShortId

\* A short id expands to one full id only.
LEMMA ShortIdIsOfOne ==
  ASSUME NEW loaded \in SUBSET KeysetIds, NEW k \in loaded,
         Cardinality(Matches(ShortId(k), loaded)) = 1
  PROVE  (CHOOSE m \in Matches(ShortId(k), loaded) : TRUE) = k
<1> DEFINE M == Matches(ShortId(k), loaded)
<1>1. k \in M /\ M \in SUBSET KeysetIds
  BY DEF Matches
<1>2. IsFiniteSet(M)
  BY <1>1, TokensAssumption, FS_Subset
<1>3. \E x : M = {x}
  BY <1>2, FS_Singleton
<1>4. QED
  BY <1>1, <1>3

\* Whichever form a part has: if the wallet redeems it, it hands over the
\* proofs that were sent, at their mint.
LEMMA RedeemedAsSent ==
  ASSUME NEW proofs \in SUBSET TokenProofs, NEW dleq \in BOOLEAN, NEW m, NEW u, NEW shown,
         Carried(shown, dleq, proofs, Loaded(m, u)), Redeemable(shown, Loaded(m, u))
  PROVE  {[mint |-> m, proof |-> p] : p \in FullIds(shown, Loaded(m, u))} = AsSentOf(proofs, dleq)
<1> DEFINE L == Loaded(m, u)
           Full(p) == [p EXCEPT !.id = IF IsShort(@) THEN CHOOSE k \in Matches(@, L) : TRUE ELSE @]
           Short(p) == [Clean(p, dleq) EXCEPT !.id = ShortId(@)]
<1>0. L \in SUBSET KeysetIds /\ \A k \in L : MintOf[k] = m
  BY DEF Loaded
<1>1. FullIds(shown, L) = {Full(p) : p \in shown}
  BY DEF FullIds
<1>2. FullIds(shown, L) = {Clean(p, dleq) : p \in proofs}
  <2>1. CASE shown = {Clean(p, dleq) : p \in proofs}
    <3>1. ASSUME NEW p \in proofs PROVE Full(Clean(p, dleq)) = Clean(p, dleq)
      <4>1. Clean(p, dleq) = [id |-> p.id, secret |-> p.secret, dleq |-> dleq /\ p.dleq] /\ ~IsShort(p.id)
        BY CleanIs, FullIdsAreNotShort
      <4>2. QED
        BY <4>1
    <3> HIDE DEF Full
    <3>2. QED
      BY <1>1, <2>1, <3>1
  <2>2. CASE IdsOf(proofs) \subseteq L /\ shown = {Short(p) : p \in proofs}
    <3>1. ASSUME NEW p \in proofs PROVE Full(Short(p)) = Clean(p, dleq)
      <4>1. /\ Clean(p, dleq) = [id |-> p.id, secret |-> p.secret, dleq |-> dleq /\ p.dleq]
            /\ p.id \in L /\ ~IsShort(p.id) /\ (ShortId(p.id) = p.id \/ IsShort(ShortId(p.id)))
        BY <2>2, CleanIs, FullIdsAreNotShort DEF IdsOf
      <4>2. Short(p) = [id |-> ShortId(p.id), secret |-> p.secret, dleq |-> dleq /\ p.dleq]
        BY <4>1
      <4>3. IsShort(ShortId(p.id)) => Cardinality(Matches(ShortId(p.id), L)) = 1
        <5>1. Short(p) \in shown /\ Short(p).id = ShortId(p.id)
          BY <2>2, <4>2
        <5>2. QED
          BY <5>1 DEF Redeemable, Expandable
      <4>4. IsShort(ShortId(p.id)) => (CHOOSE k \in Matches(ShortId(p.id), L) : TRUE) = p.id
        BY <1>0, <4>1, <4>3, ShortIdIsOfOne
      <4>5. (IF IsShort(ShortId(p.id)) THEN CHOOSE k \in Matches(ShortId(p.id), L) : TRUE ELSE ShortId(p.id)) = p.id
        BY <4>1, <4>4
      <4> HIDE DEF Short
      <4>6. Full(Short(p)) = [Short(p) EXCEPT !.id = p.id]
        <5>1. Short(p).id = ShortId(p.id)
          BY <4>2
        <5>2. QED
          BY <4>5, <5>1, Zenon
      <4>7. [Short(p) EXCEPT !.id = p.id] = Clean(p, dleq)
        <5>1. \E d : /\ Clean(p, dleq) = [id |-> p.id, secret |-> p.secret, dleq |-> d]
                     /\ Short(p) = [id |-> ShortId(p.id), secret |-> p.secret, dleq |-> d]
          BY <4>1, <4>2, Zenon
        <5>2. QED
          BY <5>1
      <4>8. QED
        BY <4>6, <4>7, Zenon
    <3> HIDE DEF Full, Short
    <3>2. QED
      BY <1>1, <2>2, <3>1
  <2>3. QED
    BY <2>1, <2>2 DEF Carried
<1>3. \A p \in proofs : MintOf[p.id] = m
  <2>1. \A p \in proofs : Clean(p, dleq).id = p.id
    BY CleanIs
  <2>2. \A q \in FullIds(shown, L) : q.id \in L
    BY DEF Redeemable, IdsOf
  <2>3. QED
    BY <1>0, <1>2, <2>1, <2>2
<1>4. QED
  BY <1>2, <1>3 DEF AsSentOf

-----------------------------------------------------------------------------
(* Making and reading a token *)

\* The sequence of a set of one, and of any finite set.
LEMMA SequenceOfSet ==
  ASSUME NEW S, IsFiniteSet(S)
  PROVE  /\ SetToSeq(S) \in [1 .. Cardinality(S) -> S] /\ Cardinality(S) \in Nat
         /\ \A m : S = {m} => SetToSeq(S) = [i \in 1 .. 1 |-> m]
<1>1. Cardinality(S) \in Nat /\ ExistsBijection(1 .. Cardinality(S), S)
  BY FS_CardinalityType
<1>2. \E f \in [1 .. Cardinality(S) -> S] : IsInjective(f)
  BY <1>1 DEF ExistsBijection, Bijection, Injection
<1>3. SetToSeq(S) \in [1 .. Cardinality(S) -> S]
  BY <1>2 DEF SetToSeq
<1>4. ASSUME NEW m, S = {m} PROVE SetToSeq(S) = [i \in 1 .. 1 |-> m]
  <2>1. Cardinality(S) = 1
    BY <1>4, FS_Singleton
  <2>2. SetToSeq(S) \in [1 .. 1 -> {m}]
    BY <1>3, <1>4, <2>1
  <2>3. QED
    BY <2>2
<1>5. QED
  BY <1>1, <1>3, <1>4

\* The parts of a token that has one; proofs without their DLEQ proofs, and
\* proofs under their short ids.
OnlyPart(m, shown) == [i \in 1 .. 1 |-> [mint |-> m, proofs |-> shown]]
Undleqed(shown) == {[p EXCEPT !.dleq = FALSE] : p \in shown}
Shortened(proofs) == {[p EXCEPT !.id = ShortId(p.id)] : p \in proofs}

\* serialize of a token of one part.
LEMMA OnePart ==
  ASSUME NEW version, NEW u, NEW m, NEW shown, version # "raised",
         NEW token, token = Token(version, u, TRUE, OnlyPart(m, shown))
  PROVE  /\ \/ Serialized(token, TRUE) = Raised
            \/ Serialized(token, TRUE) = Token(version, u, TRUE, OnlyPart(m, shown))
         /\ Serialized(token, FALSE) = Token(version, u, FALSE, OnlyPart(m, Undleqed(shown)))
<1> DEFINE without == Undleqed(shown)
           parts == OnlyPart(m, shown)
<1> USE DEF OnlyPart, Undleqed
<1>1. token.version # "raised" /\ token.parts = parts
  BY DEF Token
<1>2. WithoutDleq(parts) = [i \in 1 .. 1 |-> [mint |-> m, proofs |-> without]]
  <2>1. \A i \in 1 .. 1 : [parts[i] EXCEPT !.proofs = {[p EXCEPT !.dleq = FALSE] : p \in parts[i].proofs}]
                          = [mint |-> m, proofs |-> without]
    <3>1. \A i \in 1 .. 1 : parts[i].proofs = shown /\ parts[i] = [mint |-> m, proofs |-> shown]
      OBVIOUS
    <3> HIDE DEF parts
    <3>2. \A x : [[mint |-> m, proofs |-> shown] EXCEPT !.proofs = x] = [mint |-> m, proofs |-> x]
      OBVIOUS
    <3>3. QED
      BY <3>1, <3>2
  <2>2. DOMAIN parts = 1 .. 1
    OBVIOUS
  <2> HIDE DEF parts, without
  <2>3. QED
    BY <2>1, <2>2 DEF WithoutDleq
<1> HIDE DEF without, parts
<1>3. ASSUME Serialized(token, TRUE) # Raised
      PROVE  Serialized(token, TRUE) = Token(version, u, TRUE, parts)
  <2>1. Serialized(token, TRUE) = [token EXCEPT !.dleq = TRUE, !.parts = token.parts]
    BY <1>1, <1>3 DEF Serialized
  <2>2. QED
    BY <1>1, <1>3, <2>1 DEF Token, parts
<1>4. Serialized(token, FALSE) = Token(version, u, FALSE, WithoutDleq(parts))
  <2>1. Serialized(token, FALSE) = [token EXCEPT !.dleq = FALSE, !.parts = WithoutDleq(token.parts)]
    BY <1>1 DEF Serialized
  <2>2. QED
    BY <1>1, <2>1 DEF Token, parts
<1>5. QED
  BY <1>2, <1>3, <1>4 DEF parts, without

\* Proofs of one mint and unit, all of whose keysets are loaded: version 3
\* leaves none out, and version 4 says the mint and the unit they are of.
LEMMA MadeV3 ==
  ASSUME NEW proofs \in SUBSET TokenProofs, proofs # {}, NEW m, NEW u,
         IdsOf(proofs) \subseteq Loaded(m, u)
  PROVE  MakeTokenV3(proofs, Loaded(m, u)) =
           Token("V3", u, TRUE, OnlyPart(m, proofs))
<1> DEFINE ids == IdsOf(proofs) \cap Loaded(m, u)
           mints == SetToSeq({MintOf[k] : k \in ids})
<1>1. /\ ids = IdsOf(proofs) /\ ids # {}
      /\ \A k \in ids : MintOf[k] = m /\ UnitOf[k] = u
      /\ \A p \in proofs : p.id \in ids
  BY DEF Loaded, IdsOf
<1> HIDE DEF ids
<1>2. {MintOf[k] : k \in ids} = {m} /\ {UnitOf[k] : k \in ids} = {u}
  BY <1>1
<1>3. Cardinality({UnitOf[k] : k \in ids}) = 1
  BY <1>2, FS_Singleton
<1>4. mints = [i \in 1 .. 1 |-> m]
  <2>1. IsFiniteSet({m})
    BY FS_Singleton
  <2>2. SetToSeq({m}) = [i \in 1 .. 1 |-> m]
    BY <2>1, SequenceOfSet
  <2>3. QED
    BY <1>2, <2>2
<1> HIDE DEF mints
<1>5. UnitOf[CHOOSE k \in ids : TRUE] = u
  BY <1>1
<1>6. [i \in DOMAIN mints |-> [mint |-> mints[i],
                               proofs |-> {p \in proofs : p.id \in ids /\ MintOf[p.id] = mints[i]}]]
        = OnlyPart(m, proofs)
  <2>1. DOMAIN mints = 1 .. 1 /\ \A i \in 1 .. 1 : mints[i] = m
    BY <1>4
  <2>2. {p \in proofs : p.id \in ids /\ MintOf[p.id] = m} = proofs
    BY <1>1
  <2>3. QED
    BY <2>1, <2>2 DEF OnlyPart
<1>7. MakeTokenV3(proofs, Loaded(m, u)) =
        Token("V3", UnitOf[CHOOSE k \in ids : TRUE], TRUE,
              [i \in DOMAIN mints |->
                 [mint |-> mints[i],
                  proofs |-> {p \in proofs : p.id \in ids /\ MintOf[p.id] = mints[i]}]])
  BY <1>3 DEF MakeTokenV3, ids, mints
<1>8. QED
  BY <1>5, <1>6, <1>7

\* What is read from a token of version 4 that was made of some proofs
LEMMA MadeV4 ==
  ASSUME NEW proofs \in SUBSET TokenProofs, proofs # {}, NEW m, NEW u,
         IdsOf(proofs) \subseteq Loaded(m, u)
  PROVE  MakeTokenV4(proofs, Loaded(m, u)) =
           Token("V4", u, TRUE, OnlyPart(m, Shortened(proofs)))
<1> DEFINE ids == IdsOf(proofs)
           k == CHOOSE k \in ids : TRUE
           shown == Shortened(proofs)
<1>1. ids # {} /\ \A j \in ids : MintOf[j] = m /\ UnitOf[j] = u
  BY DEF Loaded, IdsOf
<1> HIDE DEF ids
<1>2. {MintOf[j] : j \in ids} = {m} /\ {UnitOf[j] : j \in ids} = {u}
  BY <1>1
<1>3. Cardinality({MintOf[j] : j \in ids}) = 1 /\ Cardinality({UnitOf[j] : j \in ids}) = 1
  BY <1>2, FS_Singleton
<1>4. MintOf[k] = m /\ UnitOf[k] = u
  BY <1>1
<1>5. MakeTokenV4(proofs, Loaded(m, u)) = Token("V4", UnitOf[k], TRUE, <<[mint |-> MintOf[k], proofs |-> shown]>>)
  BY <1>3 DEF MakeTokenV4, ids, Shortened
<1> HIDE DEF shown, k
<1>6. <<[mint |-> m, proofs |-> shown]>> = OnlyPart(m, shown)
  BY DEF OnlyPart
<1>7. QED
  BY <1>4, <1>5, <1>6 DEF shown

\* The token of a sender's proofs carries them.
LEMMA OwnToken ==
  ASSUME NEW proofs \in SUBSET TokenProofs, proofs # {}, NEW m, NEW u,
         IdsOf(proofs) \subseteq Loaded(m, u), NEW include \in BOOLEAN, NEW legacy \in BOOLEAN,
         NEW token, token = SerializeProofs(proofs, Loaded(m, u), include, legacy)
  PROVE  \/ token = Raised
         \/ /\ token.version \in {"V3", "V4"} /\ token.dleq = include /\ Says(token, proofs)
            /\ token.version = "V4" => token.unit = u /\ token.parts[1].mint = m
<1> DEFINE Short(p) == [p EXCEPT !.id = ShortId(p.id)]
           part(shown) == OnlyPart(m, shown)
           cleaned == {Clean(p, include) : p \in proofs}
           shorted == {[Clean(p, include) EXCEPT !.id = ShortId(@)] : p \in proofs}
<1>1. \/ token = Serialized(MakeTokenV3(proofs, Loaded(m, u)), include)
      \/ token = Serialized(MakeTokenV4(proofs, Loaded(m, u)), include)
  BY DEF SerializeProofs
<1>2. ASSUME token = Serialized(MakeTokenV3(proofs, Loaded(m, u)), include), token # Raised
      PROVE  token = Token("V3", u, include, part(cleaned))
  <2> DEFINE made == MakeTokenV3(proofs, Loaded(m, u))
             without == Undleqed(proofs)
  <2>1. made = Token("V3", u, TRUE, part(proofs)) /\ "V3" # "raised"
    BY MadeV3
  <2> HIDE DEF made
  <2>2. \/ include /\ token = Token("V3", u, include, part(proofs))
        \/ ~include /\ token = Token("V3", u, include, part(without))
    <3>1. /\ \/ Serialized(made, TRUE) = Raised
             \/ Serialized(made, TRUE) = Token("V3", u, TRUE, part(proofs))
          /\ Serialized(made, FALSE) = Token("V3", u, FALSE, part(without))
      BY <2>1, OnePart
    <3> HIDE DEF part, without
    <3>2. include = TRUE \/ include = FALSE
      OBVIOUS
    <3>3. token = Serialized(made, include)
      BY <1>2 DEF made
    <3>4. QED
      BY <1>2, <3>1, <3>2, <3>3, Zenon
  <2>3. CASE include
    <3>1. \A p \in proofs : Clean(p, include) = p
      BY <2>3, CleanIs
    <3>2. proofs = cleaned
      BY <3>1
    <3>3. QED
      BY <2>2, <2>3, <3>2
  <2>4. CASE ~include
    <3>1. \A p \in proofs : Clean(p, include) = [p EXCEPT !.dleq = FALSE]
      <4>1. include = FALSE
        BY <2>4
      <4>2. \A p \in proofs : Clean(p, FALSE) = [p EXCEPT !.dleq = FALSE]
        BY CleanIs
      <4>3. QED
        BY <4>1, <4>2, Zenon
    <3>2. without = cleaned
      BY <3>1 DEF Undleqed
    <3>3. QED
      BY <2>2, <2>4, <3>2
  <2>5. QED
    BY <2>3, <2>4
<1>3. ASSUME token = Serialized(MakeTokenV4(proofs, Loaded(m, u)), include), token # Raised
      PROVE  token = Token("V4", u, include, part(shorted))
  <2> DEFINE shown == Shortened(proofs)
             without == Undleqed(shown)
             made == MakeTokenV4(proofs, Loaded(m, u))
  <2>1. made = Token("V4", u, TRUE, part(shown)) /\ "V4" # "raised"
    BY MadeV4
  <2> HIDE DEF made
  <2>2. \/ include /\ token = Token("V4", u, include, part(shown))
        \/ ~include /\ token = Token("V4", u, include, part(without))
    <3> HIDE DEF shown
    <3>1. /\ \/ Serialized(made, TRUE) = Raised
             \/ Serialized(made, TRUE) = Token("V4", u, TRUE, part(shown))
          /\ Serialized(made, FALSE) = Token("V4", u, FALSE, part(without))
      BY <2>1, OnePart
    <3> HIDE DEF part, without
    <3>2. include = TRUE \/ include = FALSE
      OBVIOUS
    <3>3. token = Serialized(made, include)
      BY <1>3 DEF made
    <3>4. QED
      BY <1>3, <3>1, <3>2, <3>3, Zenon
  <2>3. CASE include
    <3>1. \A p \in proofs : [Clean(p, include) EXCEPT !.id = ShortId(@)] = Short(p)
      <4>1. \A p \in proofs : Clean(p, include) = p
        BY <2>3, CleanIs
      <4>2. QED
        BY <4>1
    <3>2. shown = shorted
      <4>1. shown = {Short(p) : p \in proofs}
        BY DEF Shortened
      <4> HIDE DEF Short, shown
      <4>2. QED
        BY <3>1, <4>1
    <3> HIDE DEF shown
    <3>3. QED
      BY <2>2, <2>3, <3>2
  <2>4. CASE ~include
    <3>1. ASSUME NEW p \in proofs
          PROVE  [Clean(p, include) EXCEPT !.id = ShortId(@)] = [Short(p) EXCEPT !.dleq = FALSE]
      <4>1. include = FALSE /\ Clean(p, FALSE) = [p EXCEPT !.dleq = FALSE]
        BY <2>4, CleanIs
      <4>2. PICK i, s, d : p = [id |-> i, secret |-> s, dleq |-> d]
        BY TokensAssumption
      <4>3. Clean(p, FALSE) = [id |-> i, secret |-> s, dleq |-> FALSE]
        BY <4>1, <4>2
      <4>4. Short(p) = [id |-> ShortId(i), secret |-> s, dleq |-> d]
        BY <4>2
      <4> HIDE DEF Short
      <4>5. \E f : Clean(p, FALSE) = [id |-> i, secret |-> s, dleq |-> f] /\ f = FALSE
        BY <4>3, Zenon
      <4>6. [Clean(p, FALSE) EXCEPT !.id = ShortId(@)] = [Short(p) EXCEPT !.dleq = FALSE]
        <5>1. \A f : [[id |-> i, secret |-> s, dleq |-> f] EXCEPT !.id = ShortId(@)]
                       = [id |-> ShortId(i), secret |-> s, dleq |-> f]
          OBVIOUS
        <5>2. \A f : [[id |-> ShortId(i), secret |-> s, dleq |-> d] EXCEPT !.dleq = f]
                       = [id |-> ShortId(i), secret |-> s, dleq |-> f]
          OBVIOUS
        <5>3. QED
          BY <4>4, <4>5, <5>1, <5>2, Zenon
      <4>7. QED
        BY <4>1, <4>6, Zenon
    <3>2. without = {[Short(p) EXCEPT !.dleq = FALSE] : p \in proofs}
      BY DEF Undleqed, Shortened
    <3>3. without = shorted
      <4> HIDE DEF Short, without
      <4>1. {[Short(p) EXCEPT !.dleq = FALSE] : p \in proofs} = shorted
        BY <3>1
      <4>2. QED
        BY <3>2, <4>1
    <3> HIDE DEF without
    <3>4. QED
      BY <2>2, <2>4, <3>3
  <2>5. QED
    BY <2>3, <2>4
<1> HIDE DEF cleaned, shorted
<1>4. ASSUME NEW version, NEW shown, token = Token(version, u, include, part(shown))
      PROVE  /\ token.version = version /\ token.dleq = include /\ token.unit = u
             /\ token = Token(token.version, token.unit, token.dleq, token.parts)
             /\ token.parts \in Seq(PartsOf(token)) /\ Len(token.parts) = 1
             /\ token.parts[1].mint = m /\ token.parts[1].proofs = shown
             /\ ProofsOf(token) = shown
  <2>1. /\ token.version = version /\ token.dleq = include /\ token.unit = u
        /\ token.parts = part(shown)
    BY <1>4 DEF Token
  <2> USE DEF OnlyPart
  <2>2. token = Token(token.version, token.unit, token.dleq, token.parts)
    BY <1>4, <2>1
  <2>3. PartsOf(token) = {[mint |-> m, proofs |-> shown]}
    BY <2>1 DEF PartsOf
  <2>4. token.parts \in Seq(PartsOf(token)) /\ Len(token.parts) = 1
    <3> DEFINE x == [mint |-> m, proofs |-> shown]
    <3>1. \A y : [i \in 1 .. 1 |-> y] = <<y>> /\ <<y>> \in Seq({y}) /\ Len(<<y>>) = 1
      OBVIOUS
    <3>2. token.parts = [i \in 1 .. 1 |-> x]
      BY <2>1
    <3> HIDE DEF x
    <3>3. PartsOf(token) = {x}
      BY <2>3 DEF x
    <3>4. token.parts = <<x>>
      BY <3>1, <3>2, Zenon
    <3>5. <<x>> \in Seq({x}) /\ Len(<<x>>) = 1
      BY <3>1, Zenon
    <3>6. QED
      BY <3>3, <3>4, <3>5, Zenon
  <2>5. token.parts[1].mint = m /\ token.parts[1].proofs = shown
    BY <2>1
  <2>6. ProofsOf(token) = shown
    <3>1. DOMAIN token.parts = {1}
      BY <2>1
    <3>2. QED
      BY <2>5, <3>1 DEF ProofsOf
  <2>7. QED
    BY <2>1, <2>2, <2>4, <2>5, <2>6
<1>5. ASSUME token = Token("V3", u, include, part(cleaned))
      PROVE  token.version = "V3" /\ token.dleq = include /\ Says(token, proofs)
  <2> HIDE DEF part
  <2>1. /\ token.version = "V3" /\ token.dleq = include
        /\ token = Token(token.version, token.unit, token.dleq, token.parts)
        /\ token.parts \in Seq(PartsOf(token)) /\ ProofsOf(token) = cleaned
    BY <1>4, <1>5
  <2>2. ProofsOf(token) = {Clean(p, token.dleq) : p \in proofs} /\ token.version # "V4"
    BY <2>1 DEF cleaned
  <2>3. QED
    BY <2>1, <2>2, Zenon DEF Says
<1>6. ASSUME token = Token("V4", u, include, part(shorted))
      PROVE  /\ token.version = "V4" /\ token.dleq = include /\ Says(token, proofs)
             /\ token.unit = u /\ token.parts[1].mint = m
  <2>1. Carried(shorted, include, proofs, Loaded(m, u))
    BY DEF Carried, shorted
  <2> HIDE DEF part
  <2>2. /\ token.version = "V4" /\ token.dleq = include /\ token.unit = u
        /\ token = Token(token.version, token.unit, token.dleq, token.parts)
        /\ token.parts \in Seq(PartsOf(token)) /\ Len(token.parts) = 1
        /\ token.parts[1].mint = m /\ token.parts[1].proofs = shorted
    BY <1>4, <1>6
  <2>3. /\ token.version # "V3"
        /\ Carried(token.parts[1].proofs, token.dleq, proofs, Loaded(token.parts[1].mint, token.unit))
    BY <2>1, <2>2
  <2>4. QED
    BY <2>2, <2>3, Zenon DEF Says
<1>7. QED
  BY <1>1, <1>2, <1>3, <1>5, <1>6

\* deserialize_token_from_string keeps what a token carries.
LEMMA ReadingKeeps ==
  ASSUME NEW token, NEW proofs, token.version \in {"V3", "V4"}, Says(token, proofs),
         Deserialized(token) # Raised
  PROVE  /\ Deserialized(token).version \in {"V3", "V4"}
         /\ Deserialized(token).dleq = token.dleq
         /\ Says(Deserialized(token), proofs)
         /\ token.version = "V3" => ProofsOf(Deserialized(token)) = ProofsOf(token)
         /\ token.version = "V4" => Deserialized(token) = token
<1>1. CASE token.version = "V4"
  BY <1>1 DEF Deserialized
<1>2. CASE token.version = "V3"
  <2> DEFINE parsed == ParsedV3(token)
             read == Deserialized(token)
             merged == <<[mint |-> token.parts[1].mint, proofs |-> ProofsOf(token)]>>
  <2>1. PICK u : parsed = Token("V3", u, token.dleq, token.parts)
    <3>1. PICK v, u, d, ps : token = [version |-> v, unit |-> u, dleq |-> d, parts |-> ps]
      BY DEF Says, Token
    <3>2. \A x : [token EXCEPT !.unit = x] = [version |-> v, unit |-> x, dleq |-> d, parts |-> ps]
      BY <3>1
    <3>3. \E x : parsed = [token EXCEPT !.unit = x]
      BY DEF ParsedV3
    <3>4. QED
      BY <1>2, <3>1, <3>2, <3>3 DEF Token
  <2>2. /\ parsed.version = "V3" /\ parsed.unit = u /\ parsed.dleq = token.dleq /\ parsed.parts = token.parts
        /\ parsed = Token(parsed.version, parsed.unit, parsed.dleq, parsed.parts)
    BY <2>1 DEF Token
  <2>3. ProofsOf(parsed) = ProofsOf(token) /\ PartsOf(parsed) = PartsOf(token)
    BY <2>2 DEF ProofsOf, PartsOf
  <2> HIDE DEF parsed
  <2>4. \/ read = parsed
        \/ read = [parsed EXCEPT !.version = "V4", !.parts = merged]
    <3>1. read = FromTokenV3(parsed)
      BY <1>2 DEF Deserialized, parsed
    <3> HIDE DEF read
    <3>2. \/ read = Raised \/ read = parsed
          \/ read = [parsed EXCEPT !.version = "V4",
                                   !.parts = <<[mint |-> parsed.parts[1].mint, proofs |-> ProofsOf(parsed)]>>]
      BY <3>1 DEF FromTokenV3
    <3>3. QED
      BY <2>2, <2>3, <3>2 DEF read
  <2> HIDE DEF read, merged
  <2>5. CASE read = parsed
    <3>1. Says(parsed, proofs)
      BY <1>2, <2>2, <2>3 DEF Says
    <3>2. QED
      BY <1>2, <2>2, <2>3, <2>5, <3>1 DEF read
  <2>6. CASE read = [parsed EXCEPT !.version = "V4", !.parts = merged]
    <3>1. read = Token("V4", u, token.dleq, merged)
      BY <2>1, <2>6 DEF Token
    <3>2. /\ read.version = "V4" /\ read.unit = u /\ read.dleq = token.dleq /\ read.parts = merged
          /\ read = Token(read.version, read.unit, read.dleq, read.parts)
      BY <3>1 DEF Token
    <3>3. /\ merged[1].proofs = ProofsOf(token) /\ DOMAIN merged = {1} /\ Len(merged) = 1
          /\ merged \in Seq({merged[1]})
      <4>1. \A y : /\ <<y>>[1] = y /\ DOMAIN <<y>> = {1} /\ Len(<<y>>) = 1
                   /\ <<y>> \in Seq({y})
        OBVIOUS
      <4> DEFINE y == [mint |-> token.parts[1].mint, proofs |-> ProofsOf(token)]
      <4>2. merged = <<y>> /\ y.proofs = ProofsOf(token)
        BY DEF merged
      <4> HIDE DEF y
      <4>3. QED
        BY <4>1, <4>2
    <3>4. PartsOf(read) = {merged[1]} /\ ProofsOf(read) = ProofsOf(token)
      BY <3>2, <3>3 DEF PartsOf, ProofsOf
    <3>5. Carried(ProofsOf(token), token.dleq, proofs, Loaded(merged[1].mint, u))
      BY <1>2 DEF Says, Carried
    <3>6. Says(read, proofs)
      BY <3>2, <3>3, <3>4, <3>5 DEF Says
    <3>7. QED
      BY <1>2, <3>2, <3>4, <3>6 DEF read
  <2>7. QED
    BY <2>4, <2>5, <2>6
<1>3. QED
  BY <1>1, <1>2

\* Part by part, a token carries what it carries.
LEMMA PartByPart ==
  ASSUME NEW token, NEW proofs, token.version \in {"V3", "V4"}, Says(token, proofs)
  PROVE  \E qs \in [DOMAIN token.parts -> SUBSET proofs] :
           /\ \A i \in DOMAIN token.parts :
                Carried(token.parts[i].proofs, token.dleq, qs[i], Loaded(token.parts[i].mint, token.unit))
           /\ UNION {AsSentOf(qs[i], token.dleq) : i \in DOMAIN token.parts}
                = AsSentOf(proofs, token.dleq)
<1>1. CASE token.version = "V4"
  <2> DEFINE qs == [i \in DOMAIN token.parts |-> proofs]
  <2>1. DOMAIN token.parts = {1}
    BY <1>1 DEF Says
  <2>2. qs \in [DOMAIN token.parts -> SUBSET proofs] /\ qs[1] = proofs
    BY <2>1
  <2>3. Carried(token.parts[1].proofs, token.dleq, qs[1], Loaded(token.parts[1].mint, token.unit))
    BY <1>1, <2>2 DEF Says
  <2> HIDE DEF qs
  <2>4. UNION {AsSentOf(qs[i], token.dleq) : i \in DOMAIN token.parts} = AsSentOf(proofs, token.dleq)
    BY <2>1, <2>2
  <2>5. QED
    BY <2>1, <2>2, <2>3, <2>4
<1>2. CASE token.version = "V3"
  <2> DEFINE d == token.dleq
             D == DOMAIN token.parts
             qs == [i \in D |-> {p \in proofs : Clean(p, d) \in token.parts[i].proofs}]
  <2>1. qs \in [D -> SUBSET proofs]
    OBVIOUS
  <2>2. UNION {token.parts[i].proofs : i \in D} = {Clean(p, d) : p \in proofs}
    BY <1>2 DEF Says, ProofsOf
  <2> DEFINE shown(i) == token.parts[i].proofs
  <2> HIDE DEF D, shown
  <2>2a. UNION {shown(i) : i \in D} = {Clean(p, d) : p \in proofs}
    BY <2>2 DEF shown
  <2>2b. \A i \in D : qs[i] = {p \in proofs : Clean(p, d) \in shown(i)}
    BY DEF shown
  <2> HIDE DEF qs, d
  <2>3. \A i \in D : shown(i) = {Clean(p, d) : p \in qs[i]}
    BY <2>2a, <2>2b
  <2>4. \A i \in D : Carried(shown(i), d, qs[i], Loaded(token.parts[i].mint, token.unit))
    BY <2>3 DEF Carried
  <2>5. UNION {AsSentOf(qs[i], d) : i \in D} = AsSentOf(proofs, d)
    <3>1. \A p \in proofs : \E i \in D : p \in qs[i]
      BY <2>2a, <2>2b
    <3>2. \A i \in D : qs[i] \subseteq proofs
      BY <2>1
    <3>3. QED
      BY <3>1, <3>2 DEF AsSentOf
  <2>6. QED
    BY <2>1, <2>4, <2>5 DEF D, d, shown
<1>3. QED
  BY <1>1, <1>2

-----------------------------------------------------------------------------
(* Every step *)

\* A function from the first numbers is a sequence.
LEMMA FunctionIsSeq ==
  ASSUME NEW S, NEW n \in Nat, NEW f \in [1 .. n -> S]
  PROVE  f \in Seq(S)
<1>1. f = [i \in 1 .. n |-> f[i]] /\ \A i \in 1 .. n : f[i] \in S
  OBVIOUS
<1>2. [i \in 1 .. n |-> f[i]] \in Seq(S)
  BY <1>1, IsASeq
<1>3. QED
  BY <1>1, <1>2

\* Nothing is sent yet, and nothing redeemed.
LEMMA TokensStart == TokensInit => TokensIInv
<1> SUFFICES ASSUME TokensInit PROVE TokensIInv
  OBVIOUS
<1>1. /\ sent \subseteq TokenProofs /\ sent # {} /\ OneMintAndUnit(sent)
      /\ reservedRows = <<>> /\ back = <<>> /\ text = Unsent /\ object = Unsent /\ redeemed = {}
  BY DEF TokensInit
<1>2. Unsent.version = "none" /\ Unsent.dleq = FALSE
  BY DEF Unsent, Token
<1>3. text.version = "none" /\ object.version = "none" /\ text.dleq \in BOOLEAN
  BY <1>1, <1>2
<1>4. QED
  BY <1>1, <1>3 DEF TokensIInv

\* What a sender's proofs have in common.
LEMMA OneLoaded ==
  ASSUME NEW proofs \in SUBSET TokenProofs, OneMintAndUnit(proofs), NEW k \in IdsOf(proofs)
  PROVE  IdsOf(proofs) \subseteq Loaded(MintOf[k], UnitOf[k])
BY DEF OneMintAndUnit, Loaded

\* SendToken and OtherSoftwareSends: the text carries what is sent.
LEMMA SendingKeeps ==
  ASSUME TokensIInv,
         OtherSoftwareSends \/ \E include, legacy \in BOOLEAN : SendToken(include, legacy)
  PROVE  TokensIInv'
<1>1. text = Unsent /\ reservedRows = <<>> /\ UNCHANGED <<reservedRows, object, redeemed, unfinished, back>>
  BY DEF OtherSoftwareSends, SendToken
<1>2. redeemed = {} /\ back = <<>> /\ object.version \notin {"V3", "V4"}
  BY <1>1 DEF TokensIInv
<1>3. Unsent.version = "none" /\ Raised.version = "raised" /\ Raised.dleq = FALSE
  BY DEF Unsent, Raised, Token
<1>4. /\ sent' \subseteq TokenProofs /\ text' # Unsent /\ text'.dleq \in BOOLEAN
      /\ text'.version \in {"V3", "V4"} => Says(text', sent')
  <2>1. CASE OtherSoftwareSends
    <3> DEFINE t == text'
    <3>1. t \in ForeignTokens /\ sent' = ProofsOf(t)
      BY <2>1 DEF OtherSoftwareSends
    <3> HIDE DEF t
    <3>2. /\ t = Token("V3", t.unit, TRUE, t.parts)
          /\ t.parts \in Seq(PartsOf(t)) /\ ProofsOf(t) \subseteq TokenProofs
      <4>1. /\ t = Token("V3", t.unit, TRUE, t.parts)
            /\ t.parts \in Seq({t.parts[i] : i \in DOMAIN t.parts})
            /\ \A i \in DOMAIN t.parts : t.parts[i].proofs \subseteq TokenProofs
        BY <3>1, ForeignAssumption
      <4>2. ProofsOf(t) \subseteq TokenProofs
        BY <4>1 DEF ProofsOf
      <4>3. QED
        BY <4>1, <4>2 DEF PartsOf
    <3>3. t.version = "V3" /\ t.dleq = TRUE
      BY <3>2 DEF Token
    <3>4. ProofsOf(t) = {Clean(p, t.dleq) : p \in ProofsOf(t)}
      <4>1. \A p \in ProofsOf(t) : Clean(p, TRUE) = p
        BY <3>2, CleanIs
      <4>2. QED
        BY <3>3, <4>1
    <3>5. Says(t, sent')
      BY <3>1, <3>2, <3>3, <3>4 DEF Says
    <3>6. QED
      BY <1>3, <3>1, <3>2, <3>3, <3>5 DEF t
  <2>2. ASSUME NEW include \in BOOLEAN, NEW legacy \in BOOLEAN, SendToken(include, legacy)
        PROVE  /\ sent' \subseteq TokenProofs /\ text' # Unsent /\ text'.dleq \in BOOLEAN
               /\ text'.version \in {"V3", "V4"} => Says(text', sent')
    <3> DEFINE k == CHOOSE k \in IdsOf(sent) : TRUE
               t == SerializeProofs(sent, Loaded(MintOf[k], UnitOf[k]), include, legacy)
    <3>1. sent' = sent /\ text' = t /\ sent \in SUBSET TokenProofs /\ sent # {} /\ OneMintAndUnit(sent)
      BY <1>1, <2>2 DEF SendToken, TokensIInv
    <3>2. k \in IdsOf(sent)
      BY <3>1 DEF IdsOf
    <3>3. IdsOf(sent) \subseteq Loaded(MintOf[k], UnitOf[k])
      BY <3>1, <3>2, OneLoaded
    <3>4. t = Raised \/ (t.version \in {"V3", "V4"} /\ t.dleq = include /\ Says(t, sent))
      BY <3>1, <3>3, OwnToken
    <3> HIDE DEF t
    <3>5. QED
      BY <1>3, <3>1, <3>4
  <2>3. QED
    BY <2>1, <2>2
<1>5. RestIsUnredeemed' \/ object'.version \notin {"V3", "V4"}
  BY <1>1, <1>2
<1>6. reservedRows' = <<>> /\ back' = <<>>
  BY <1>1, <1>2
<1>7. QED
  BY <1>1, <1>2, <1>4, <1>5, <1>6 DEF TokensIInv

\* ReadToken: nothing is redeemed yet, and the parts carry all that was sent.
LEMMA ReadTokenKeeps ==
  ASSUME TokensIInv, ReadToken
  PROVE  TokensIInv'
<1>1. /\ text.version \in {"V3", "V4"} /\ object' = Deserialized(text) /\ unfinished' = object'.parts
      /\ UNCHANGED <<sent, reservedRows, text, redeemed, back>>
  BY DEF ReadToken
<1>u. Unsent.version = "none" /\ Raised.version = "raised"
  BY DEF Unsent, Raised, Token
<1>2. Says(text, sent) /\ redeemed \subseteq AsSent(text.dleq) /\ text # Unsent
  BY <1>1, <1>u DEF TokensIInv
<1>3. ASSUME object'.version \in {"V3", "V4"} PROVE RestIsUnredeemed'
  <2> DEFINE read == Deserialized(text)
  <2>1. read # Raised
    BY <1>1, <1>3, <1>u
  <2>2. read.version \in {"V3", "V4"} /\ read.dleq = text.dleq /\ Says(read, sent)
    BY <1>1, <1>2, <2>1, ReadingKeeps
  <2> HIDE DEF read
  <2>3. PICK qs \in [DOMAIN read.parts -> SUBSET sent] :
          /\ \A i \in DOMAIN read.parts :
               Carried(read.parts[i].proofs, read.dleq, qs[i], Loaded(read.parts[i].mint, read.unit))
          /\ UNION {AsSentOf(qs[i], read.dleq) : i \in DOMAIN read.parts} = AsSentOf(sent, read.dleq)
    BY <2>2, PartByPart
  <2>4. AsSentOf(sent, text.dleq) = AsSent(text.dleq)
    BY DEF AsSentOf, AsSent, Clean
  <2>5. redeemed \cup UNION {AsSentOf(qs[i], text.dleq) : i \in DOMAIN read.parts} = AsSent(text.dleq)
    BY <1>2, <2>2, <2>3, <2>4
  <2>6. read.parts \in Seq(PartsOf(read))
    BY <2>2 DEF Says
  <2>7. /\ object' = read /\ unfinished' = read.parts /\ sent' = sent /\ text' = text /\ redeemed' = redeemed
        /\ AsSent(text.dleq)' = AsSent(text.dleq)
    BY <1>1 DEF read, AsSent
  <2>8. /\ unfinished' \in Seq(PartsOf(object)')
        /\ \E q \in [DOMAIN unfinished' -> SUBSET sent'] :
             /\ \A i \in DOMAIN unfinished' :
                  Carried(unfinished'[i].proofs, text'.dleq, q[i], Loaded(unfinished'[i].mint, object'.unit))
             /\ redeemed' \cup UNION {AsSentOf(q[i], text'.dleq) : i \in DOMAIN unfinished'}
                  = AsSent(text.dleq)'
    <3>1. PartsOf(object)' = PartsOf(read)
      BY <2>7 DEF PartsOf
    <3>2. QED
      BY <2>2, <2>3, <2>5, <2>6, <2>7, <3>1
  <2>9. QED
    BY <2>8 DEF RestIsUnredeemed
<1>4. Says(text, sent)' /\ AsSent(text.dleq)' = AsSent(text.dleq) /\ OneMintAndUnit(sent)' = OneMintAndUnit(sent)
  BY <1>1, <1>2 DEF Says, AsSent, OneMintAndUnit
<1>5. QED
  BY <1>1, <1>2, <1>3, <1>4 DEF TokensIInv

\* RedeemPart: the part that is redeemed is as it was sent, and one part less
\* is left.
LEMMA RedeemPartKeeps ==
  ASSUME TokensIInv, RedeemPart
  PROVE  TokensIInv'
<1> DEFINE part == Head(unfinished)
           loaded == Loaded(part.mint, object.unit)
           handed == {[mint |-> part.mint, proof |-> p] : p \in FullIds(part.proofs, loaded)}
           d == text.dleq
<1>1. /\ object.version \in {"V3", "V4"} /\ unfinished # <<>> /\ UNCHANGED <<sent, reservedRows, text, back>>
      /\ \/ /\ Redeemable(part.proofs, loaded) /\ redeemed' = redeemed \cup handed
            /\ unfinished' = Tail(unfinished) /\ object' = object
         \/ object' = Raised /\ redeemed' = redeemed
  BY DEF RedeemPart
<1>2. text # Unsent /\ d \in BOOLEAN /\ RestIsUnredeemed /\ sent \subseteq TokenProofs /\ redeemed \subseteq AsSent(d)
  BY <1>1 DEF TokensIInv
<1>3. /\ AsSent(text.dleq)' = AsSent(d) /\ OneMintAndUnit(sent)' = OneMintAndUnit(sent)
      /\ Says(text, sent)' = Says(text, sent)
  BY <1>1 DEF AsSent, OneMintAndUnit, Says
<1>4. CASE object' = Raised /\ redeemed' = redeemed
  <2>1. object'.version \notin {"V3", "V4"}
    BY <1>4 DEF Raised, Token
  <2>2. QED
    BY <1>1, <1>2, <1>3, <1>4, <2>1 DEF TokensIInv
<1>5. CASE /\ Redeemable(part.proofs, loaded) /\ redeemed' = redeemed \cup handed
           /\ unfinished' = Tail(unfinished) /\ object' = object
  <2>1. unfinished \in Seq(PartsOf(object))
    BY <1>2 DEF RestIsUnredeemed
  <2>2. /\ Len(unfinished) \in Nat \ {0} /\ DOMAIN unfinished = 1 .. Len(unfinished)
        /\ part = unfinished[1] /\ Tail(unfinished) \in Seq(PartsOf(object))
        /\ DOMAIN Tail(unfinished) = 1 .. Len(unfinished) - 1
        /\ \A i \in 1 .. Len(unfinished) - 1 : Tail(unfinished)[i] = unfinished[i + 1]
    <3>1. Len(unfinished) \in Nat /\ Len(unfinished) # 0 /\ DOMAIN unfinished = 1 .. Len(unfinished)
      BY <1>1, <2>1, EmptySeq, LenProperties
    <3>2. /\ part = unfinished[1] /\ Tail(unfinished) \in Seq(PartsOf(object))
          /\ Len(Tail(unfinished)) = Len(unfinished) - 1
      BY <1>1, <2>1, HeadTailProperties
    <3>3. DOMAIN Tail(unfinished) = 1 .. Len(unfinished) - 1
      BY <3>2, LenProperties
    <3>4. \A i \in 1 .. Len(unfinished) - 1 : Tail(unfinished)[i] = unfinished[i + 1]
      BY <1>1, <2>1, <3>1
    <3>5. QED
      BY <3>1, <3>2, <3>3, <3>4
  <2>3. PICK qs \in [DOMAIN unfinished -> SUBSET sent] :
          /\ \A i \in DOMAIN unfinished :
               Carried(unfinished[i].proofs, d, qs[i], Loaded(unfinished[i].mint, object.unit))
          /\ redeemed \cup UNION {AsSentOf(qs[i], d) : i \in DOMAIN unfinished} = AsSent(d)
    BY <1>2 DEF RestIsUnredeemed
  <2>4. 1 \in DOMAIN unfinished /\ qs[1] \in SUBSET sent /\ qs[1] \in SUBSET TokenProofs
    BY <1>2, <2>2, <2>3
  <2>5. handed = AsSentOf(qs[1], d)
    <3>1. Carried(part.proofs, d, qs[1], Loaded(part.mint, object.unit))
      BY <2>2, <2>3, <2>4
    <3>2. d \in BOOLEAN /\ Redeemable(part.proofs, Loaded(part.mint, object.unit))
      BY <1>2, <1>5
    <3> HIDE DEF part, d
    <3>3. QED
      BY <2>4, <3>1, <3>2, RedeemedAsSent
  <2> DEFINE rest == [i \in 1 .. Len(unfinished) - 1 |-> qs[i + 1]]
  <2>6. rest \in [DOMAIN Tail(unfinished) -> SUBSET sent]
        /\ \A i \in 1 .. Len(unfinished) - 1 : rest[i] = qs[i + 1] /\ i + 1 \in DOMAIN unfinished
    BY <2>2, <2>3
  <2> HIDE DEF rest, part, handed, loaded, d
  <2>7. \A i \in DOMAIN Tail(unfinished) :
          Carried(Tail(unfinished)[i].proofs, d, rest[i], Loaded(Tail(unfinished)[i].mint, object.unit))
    BY <2>2, <2>3, <2>6
  <2>8. (redeemed \cup handed) \cup UNION {AsSentOf(rest[i], d) : i \in DOMAIN Tail(unfinished)} = AsSent(d)
    <3>1. \A i \in DOMAIN unfinished : i = 1 \/ (i - 1 \in DOMAIN Tail(unfinished) /\ rest[i - 1] = qs[i])
      BY <2>2, <2>6
    <3> DEFINE all == UNION {AsSentOf(qs[i], d) : i \in DOMAIN unfinished}
               left == UNION {AsSentOf(rest[i], d) : i \in DOMAIN Tail(unfinished)}
    <3>a. \A x : x \in all <=> \E i \in DOMAIN unfinished : x \in AsSentOf(qs[i], d)
      OBVIOUS
    <3>b. \A x : x \in left <=> \E i \in DOMAIN Tail(unfinished) : x \in AsSentOf(rest[i], d)
      OBVIOUS
    <3>c. \A i \in DOMAIN Tail(unfinished) : i + 1 \in DOMAIN unfinished /\ rest[i] = qs[i + 1]
      BY <2>2, <2>6
    <3> HIDE DEF all, left
    <3>d. ASSUME NEW x \in all PROVE x \in AsSentOf(qs[1], d) \/ x \in left
      <4>1. PICK i \in DOMAIN unfinished : x \in AsSentOf(qs[i], d)
        BY <3>a, <3>d
      <4>2. QED
        BY <3>1, <3>b, <4>1
    <3>e. ASSUME NEW x \in left PROVE x \in all
      <4>1. PICK i \in DOMAIN Tail(unfinished) : x \in AsSentOf(rest[i], d)
        BY <3>b, <3>e
      <4>2. QED
        BY <3>a, <3>c, <4>1
    <3>2. all = AsSentOf(qs[1], d) \cup left
      BY <2>4, <3>a, <3>d, <3>e
    <3>3. redeemed \cup all = AsSent(d)
      BY <2>3 DEF all
    <3>4. (redeemed \cup handed) \cup left = AsSent(d)
      BY <2>5, <3>2, <3>3
    <3>5. QED
      BY <3>4 DEF left
  <2>9. redeemed \cup handed \subseteq AsSent(d)
    BY <2>8
  <2>10. RestIsUnredeemed'
    <3>1. /\ unfinished' \in Seq(PartsOf(object)')
          /\ \E q \in [DOMAIN unfinished' -> SUBSET sent'] :
               /\ \A i \in DOMAIN unfinished' :
                    Carried(unfinished'[i].proofs, text'.dleq, q[i], Loaded(unfinished'[i].mint, object'.unit))
               /\ redeemed' \cup UNION {AsSentOf(q[i], text'.dleq) : i \in DOMAIN unfinished'}
                    = AsSent(text.dleq)'
      <4>1. PartsOf(object)' = PartsOf(object)
        BY <1>5 DEF PartsOf
      <4>2. text'.dleq = d /\ sent' = sent
        BY <1>1 DEF d
      <4>3. /\ unfinished' = Tail(unfinished) /\ object' = object
            /\ redeemed' = redeemed \cup handed /\ AsSent(text.dleq)' = AsSent(d)
        BY <1>3, <1>5 DEF handed, d
      <4> HIDE DEF RestIsUnredeemed
      <4>4. Tail(unfinished) \in Seq(PartsOf(object)) /\ rest \in [DOMAIN Tail(unfinished) -> SUBSET sent]
        BY <2>2, <2>6
      <4>5. QED
        BY <2>7, <2>8, <4>1, <4>2, <4>3, <4>4
    <3>2. QED
      BY <3>1 DEF RestIsUnredeemed
  <2>11. QED
    BY <1>1, <1>2, <1>3, <1>5, <2>9, <2>10 DEF TokensIInv, d
<1>6. QED
  BY <1>1, <1>4, <1>5

\* ReserveRows and the two lists that are made of the rows: what is in a row or
\* a group was sent.
LEMMA RowsKeep ==
  ASSUME TokensIInv, ReserveRows \/ ShowPending \/ ReceiveAllPending
  PROVE  TokensIInv'
<1> DEFINE Row == [proof : sent, send : SendIds \cup {NoSend}]
<1>0. /\ sent \subseteq TokenProofs /\ IsFiniteSet(sent) /\ reservedRows \in Seq(Row)
      /\ (reservedRows # <<>> => text = Unsent) /\ back \in Seq(SUBSET sent)
      /\ redeemed \subseteq AsSent(text.dleq) /\ text.dleq \in BOOLEAN
      /\ (text = Unsent => sent # {} /\ OneMintAndUnit(sent))
      /\ (text = Unsent => object.version \notin {"V3", "V4"})
  BY TokensAssumption, FS_Subset DEF TokensIInv
<1>1. /\ UNCHANGED <<sent, text, redeemed>>
      /\ AsSent(text.dleq)' = AsSent(text.dleq) /\ OneMintAndUnit(sent)' = OneMintAndUnit(sent)
      /\ text = Unsent
  BY <1>0 DEF ReserveRows, ShowPending, ReceiveAllPending, AsSent, OneMintAndUnit
<1>u. Unsent.version = "none" /\ Raised.version = "raised"
  BY DEF Unsent, Raised, Token
<1>2. CASE ReserveRows
  <2>1. /\ reservedRows = <<>> /\ UNCHANGED <<object, unfinished, back>>
        /\ \E rows \in [1 .. Cardinality(sent) -> SendIds \cup {NoSend}] :
             reservedRows' = [i \in DOMAIN rows |-> [proof |-> SetToSeq(sent)[i], send |-> rows[i]]]
    BY <1>2 DEF ReserveRows
  <2>2. redeemed = {} /\ back = <<>>
    BY <1>1, <2>1 DEF TokensIInv
  <2>3. SetToSeq(sent) \in [1 .. Cardinality(sent) -> sent] /\ Cardinality(sent) \in Nat
    BY <1>0, SequenceOfSet
  <2>4. reservedRows' \in Seq(Row)
    <3>1. PICK rows \in [1 .. Cardinality(sent) -> SendIds \cup {NoSend}] :
            reservedRows' = [i \in DOMAIN rows |-> [proof |-> SetToSeq(sent)[i], send |-> rows[i]]]
      BY <2>1
    <3>2. reservedRows' \in [1 .. Cardinality(sent) -> Row]
      BY <2>3, <3>1
    <3> HIDE DEF Row
    <3>3. QED
      BY <2>3, <3>2, FunctionIsSeq
  <2>5. QED
    BY <1>0, <1>1, <1>u, <2>1, <2>2, <2>4 DEF TokensIInv
<1>3. CASE ShowPending
  <2>1. reservedRows # <<>> /\ object' = PendingTokens /\ UNCHANGED <<reservedRows, back>>
    BY <1>3 DEF ShowPending
  <2>2. object'.version \notin {"V3", "V4"}
    BY <1>u, <2>1 DEF PendingTokens, Token
  <2>3. QED
    BY <1>0, <1>1, <1>u, <2>1, <2>2 DEF TokensIInv
<1>4. CASE ReceiveAllPending
  <2>1. reservedRows # <<>> /\ back' = GroupBy(reservedRows) /\ UNCHANGED <<reservedRows, object, unfinished>>
    BY <1>4 DEF ReceiveAllPending
  <2>2. back' \in Seq(SUBSET sent)
    <3> DEFINE rows == reservedRows
               starts == {i \in DOMAIN rows : i = 1 \/ rows[i].send # rows[i - 1].send}
               run(i) == Cardinality({h \in starts : h <= i})
               group(j) == {rows[i].proof : i \in {i \in DOMAIN rows : run(i) = j}}
    <3>1. DOMAIN rows = 1 .. Len(rows) /\ Len(rows) \in Nat /\ \A i \in DOMAIN rows : rows[i].proof \in sent
      <4>1. DOMAIN rows = 1 .. Len(rows) /\ Len(rows) \in Nat /\ \A i \in 1 .. Len(rows) : rows[i] \in Row
        BY <1>0, LenProperties, ElementOfSeq
      <4>2. \A x \in Row : x.proof \in sent
        OBVIOUS
      <4> HIDE DEF Row
      <4>3. QED
        BY <4>1, <4>2
    <3>2. IsFiniteSet(DOMAIN rows)
      BY <3>1, FS_Interval
    <3>3. Cardinality(starts) \in Nat
      BY <3>2, FS_Subset, FS_CardinalityType
    <3>4. GroupBy(rows) = [j \in 1 .. Cardinality(starts) |-> group(j)]
      BY DEF GroupBy
    <3>5. \A j : group(j) \in SUBSET sent
      BY <3>1
    <3> HIDE DEF starts, group
    <3>6. GroupBy(rows) \in [1 .. Cardinality(starts) -> SUBSET sent]
      BY <3>4, <3>5
    <3>7. QED
      BY <2>1, <3>3, <3>6, FunctionIsSeq
  <2>3. QED
    BY <1>0, <1>1, <1>u, <2>1, <2>2 DEF TokensIInv
<1>5. QED
  BY <1>2, <1>3, <1>4

\* ReceiveGroup: the sender takes back what it sent.
LEMMA ReceiveGroupKeeps ==
  ASSUME TokensIInv, ReceiveGroup
  PROVE  TokensIInv'
<1> DEFINE group == Head(back)
           k == CHOOSE k \in IdsOf(group) : TRUE
           loaded == Loaded(MintOf[k], UnitOf[k])
           made == SerializeProofs(group, loaded, FALSE, FALSE)
           token == Deserialized(made)
           handed == {[mint |-> MintOf[k], proof |-> p] : p \in FullIds(ProofsOf(token), loaded)}
<1>0. back # <<>> /\ group # {} /\ UNCHANGED <<sent, reservedRows, text, object, unfinished>>
  BY DEF ReceiveGroup
<1>1. /\ sent \subseteq TokenProofs /\ back \in Seq(SUBSET sent) /\ redeemed \subseteq AsSent(text.dleq)
      /\ reservedRows # <<>> /\ text = Unsent /\ OneMintAndUnit(sent) /\ sent # {}
      /\ reservedRows \in Seq([proof : sent, send : SendIds \cup {NoSend}])
      /\ object.version \notin {"V3", "V4"}
  BY <1>0 DEF TokensIInv
<1>u. /\ Unsent.version = "none" /\ Raised.version = "raised"
      /\ Unsent.dleq = FALSE
  BY DEF Unsent, Raised, Token
<1>2. group \in SUBSET sent /\ Tail(back) \in Seq(SUBSET sent)
  BY <1>0, <1>1, HeadTailProperties
<1>3. group \in SUBSET TokenProofs /\ k \in IdsOf(group) /\ OneMintAndUnit(group)
  <2>1. group \in SUBSET TokenProofs /\ IdsOf(group) # {} /\ IdsOf(group) \subseteq IdsOf(sent)
    BY <1>0, <1>1, <1>2 DEF IdsOf
  <2> HIDE DEF group
  <2>2. QED
    BY <1>1, <2>1 DEF OneMintAndUnit
<1>4. IdsOf(group) \subseteq loaded
  <2> HIDE DEF group, k
  <2>1. QED
    BY <1>3, OneLoaded
<1>5. \/ made = Raised
      \/ /\ made.version \in {"V3", "V4"} /\ made.dleq = FALSE /\ Says(made, group)
         /\ made.version = "V4" => made.unit = UnitOf[k] /\ made.parts[1].mint = MintOf[k]
  <2> HIDE DEF group, k
  <2>1. ASSUME NEW f \in BOOLEAN, NEW t, t = SerializeProofs(group, loaded, f, f)
        PROVE  \/ t = Raised
               \/ /\ t.version \in {"V3", "V4"} /\ t.dleq = f /\ Says(t, group)
                  /\ t.version = "V4" => t.unit = UnitOf[k] /\ t.parts[1].mint = MintOf[k]
    BY <1>0, <1>3, <1>4, <2>1, OwnToken
  <2>2. FALSE \in BOOLEAN
    OBVIOUS
  <2> HIDE DEF loaded
  <2>3. QED
    BY <2>1, <2>2, Zenon
<1>6. ASSUME token.version \in {"V3", "V4"}
      PROVE  Carried(ProofsOf(token), FALSE, group, loaded)
  <2> HIDE DEF made, group, k
  <2>1. token # Raised /\ made # Raised
    <3>1. token # Raised
      BY <1>6, <1>u
    <3>2. made = Raised => token = Raised
      BY <1>u DEF Deserialized
    <3>3. QED
      BY <3>1, <3>2
  <2>2. /\ made.version = "V3" => ProofsOf(token) = ProofsOf(made)
        /\ made.version = "V4" => token = made
    BY <1>5, <2>1, ReadingKeeps
  <2>3. CASE made.version = "V3"
    BY <1>5, <2>1, <2>2, <2>3 DEF Says, Carried
  <2>4. CASE made.version = "V4"
    <3>1. Len(made.parts) = 1 /\ made.parts \in Seq(PartsOf(made))
          /\ Carried(made.parts[1].proofs, FALSE, group, loaded)
      BY <1>5, <2>1, <2>4 DEF Says
    <3>2. DOMAIN made.parts = {1}
      BY <3>1
    <3>3. ProofsOf(made) = made.parts[1].proofs
      BY <3>2 DEF ProofsOf
    <3>4. QED
      BY <2>2, <2>4, <3>1, <3>3
  <2>5. QED
    BY <1>5, <2>1, <2>3, <2>4
<1>7. redeemed' = redeemed \/ (redeemed' = redeemed \cup handed /\ token.version \in {"V3", "V4"}
                                /\ Redeemable(ProofsOf(token), loaded))
  BY DEF ReceiveGroup
<1>8. redeemed' \subseteq AsSent(FALSE)
  <2>1. redeemed \subseteq AsSent(FALSE)
    BY <1>1, <1>u
  <2>2. CASE token.version \in {"V3", "V4"} /\ Redeemable(ProofsOf(token), loaded)
    <3> DEFINE shown == ProofsOf(token)
    <3>1. Carried(shown, FALSE, group, loaded) /\ Redeemable(shown, loaded)
      BY <1>6, <2>2
    <3> HIDE DEF token, group, k
    <3>2. handed = AsSentOf(group, FALSE)
      <4> HIDE DEF shown
      <4>1. FALSE \in BOOLEAN
        OBVIOUS
      <4>2. {[mint |-> MintOf[k], proof |-> p] : p \in FullIds(shown, loaded)} = AsSentOf(group, FALSE)
        BY <1>3, <3>1, <4>1, RedeemedAsSent
      <4>3. QED
        BY <4>2 DEF shown
    <3>3. AsSentOf(group, FALSE) \subseteq AsSent(FALSE)
      BY <1>2 DEF AsSentOf, AsSent, Clean
    <3> HIDE DEF handed, loaded
    <3>4. QED
      BY <1>7, <2>1, <3>2, <3>3
  <2>3. QED
    BY <1>7, <2>1, <2>2
<1>9. back' \in Seq(SUBSET sent)
  <2>1. <<{}>> \in Seq(SUBSET sent)
    OBVIOUS
  <2>2. back' = <<{}>> \/ back' = Tail(back)
    BY DEF ReceiveGroup
  <2>3. QED
    BY <1>2, <2>1, <2>2
<1>10. AsSent(text.dleq)' = AsSent(FALSE) /\ OneMintAndUnit(sent)' = OneMintAndUnit(sent)
  BY <1>0, <1>1, <1>u DEF AsSent, OneMintAndUnit
<1> HIDE DEF group, k, loaded, made, token, handed
<1>11. QED
  BY <1>0, <1>1, <1>u, <1>8, <1>9, <1>10 DEF TokensIInv

\* Every step of sender and receiver keeps the invariant of tokens.
LEMMA TokensStep == TokensIInv /\ [TokensNext]_wayVars => TokensIInv'
<1> SUFFICES ASSUME TokensIInv, [TokensNext]_wayVars PROVE TokensIInv'
  OBVIOUS
<1>1. CASE TokensNext
  BY <1>1, SendingKeeps, ReadTokenKeeps, RedeemPartKeeps, RowsKeep, ReceiveGroupKeeps DEF TokensNext
<1>2. CASE UNCHANGED wayVars
  <2>1. /\ sent' = sent /\ reservedRows' = reservedRows /\ text' = text /\ object' = object
        /\ redeemed' = redeemed /\ unfinished' = unfinished /\ back' = back
    BY <1>2 DEF wayVars
  <2>2. /\ OneMintAndUnit(sent)' = OneMintAndUnit(sent) /\ AsSent(text.dleq)' = AsSent(text.dleq)
        /\ Says(text, sent)' = Says(text, sent) /\ PartsOf(object)' = PartsOf(object)
    BY <2>1 DEF OneMintAndUnit, AsSent, Says, PartsOf, ProofsOf
  <2>3. RestIsUnredeemed' = RestIsUnredeemed
    BY <2>1, <2>2 DEF RestIsUnredeemed
  <2>4. QED
    BY <2>1, <2>2, <2>3 DEF TokensIInv
<1>3. QED
  BY <1>1, <1>2

\* What a receiver hands to a mint was sent, under its full id and at its own
\* mint, and a token that is redeemed without an exception is redeemed whole:
\* for any keysets and short ids, proofs of any number and tokens of other
\* software.
THEOREM TokensKeepTheirProofs == TokensSpec => []TokenKeepsProofs
<1>1. TokensIInv => TokenKeepsProofs
  <2> SUFFICES ASSUME TokensIInv PROVE TokenKeepsProofs
    OBVIOUS
  <2>1. ASSUME object.version \in {"V3", "V4"}, unfinished = <<>>
        PROVE  redeemed = AsSent(text.dleq)
    <3>1. PICK qs \in [DOMAIN unfinished -> SUBSET sent] :
            redeemed \cup UNION {AsSentOf(qs[i], text.dleq) : i \in DOMAIN unfinished} = AsSent(text.dleq)
      BY <2>1 DEF TokensIInv, RestIsUnredeemed
    <3>2. DOMAIN unfinished = {}
      BY <2>1
    <3>3. QED
      BY <3>1, <3>2
  <2>2. QED
    BY <2>1 DEF TokensIInv, TokenKeepsProofs
<1>2. QED
  BY <1>1, TokensStart, TokensStep, PTL DEF TokensSpec

=============================================================================
