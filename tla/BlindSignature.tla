---------------------------- MODULE BlindSignature ----------------------------
(***************************************************************************)
(* The blind signature scheme of core/crypto/b_dhke.py: a wallet blinds the *)
(* hash of a secret, the mint signs and proves in zero knowledge with which *)
(* key (DLEQ), the wallet unblinds; a receiver checks the DLEQ proof again, *)
(* and the mint verifies what is spent.                                     *)
(*                                                                         *)
(* The curve is any group with the laws in GroupAssumption.  coincurve      *)
(* raises where a sum would be the point at infinity and where a number is  *)
(* no private key (0, or at least the order): a guard here.                 *)
(***************************************************************************)
EXTENDS Integers

CONSTANTS
  Points, Scalars,               \* the curve and the numbers mod its order
  PAdd(_, _), Neg(_), Times(_, _),        \* P + Q, -P and k * P
  SAdd(_, _), SMul(_, _),        \* k + l and k * l mod the order
  G, Infinity, Zero,
  HashToCurve(_), HashToCurveDeprecated(_),
  HashE(_, _, _, _),             \* hash_e: a number of 256 bits
  Secrets,
  MintKey                              \* the mint's private key for the amount

PrivateKeys == Scalars \ {Zero}
PSub(P, Q) == PAdd(P, Neg(Q))
MintPub == Times(MintKey, G)

\* the laws of a group of points and its scalars
GroupAssumption ==
  /\ G \in Points /\ Infinity \in Points /\ Zero \in Scalars
  /\ \A P \in Points : Neg(P) \in Points
  /\ \A P, Q \in Points : PAdd(P, Q) \in Points /\ PAdd(P, Q) = PAdd(Q, P)
  /\ \A P, Q, R \in Points : PAdd(PAdd(P, Q), R) = PAdd(P, PAdd(Q, R))
  /\ \A P \in Points : PAdd(P, Infinity) = P /\ PAdd(P, Neg(P)) = Infinity
  /\ \A k, l \in Scalars :
       /\ SAdd(k, l) \in Scalars /\ SMul(k, l) \in Scalars
       /\ SMul(k, l) = SMul(l, k)
  /\ \A k \in Scalars, P \in Points : Times(k, P) \in Points
  /\ \A k, l \in Scalars, P \in Points :
       /\ Times(SAdd(k, l), P) = PAdd(Times(k, P), Times(l, P))
       /\ Times(SMul(k, l), P) = Times(k, Times(l, P))
  /\ \A k \in Scalars, P, Q \in Points :
       Times(k, PAdd(P, Q)) = PAdd(Times(k, P), Times(k, Q))

\* the order is prime: no two numbers agree on a point
PrimeOrderAssumption ==
  /\ G # Infinity
  /\ \A k, l \in Scalars, P \in Points :
       Times(k, P) = Times(l, P) => k = l \/ P = Infinity

HashAssumption ==
  /\ MintKey \in PrivateKeys
  /\ \A x \in Secrets : HashToCurve(x) \in Points
  /\ \A x \in Secrets : HashToCurveDeprecated(x) \in Points

ASSUME GroupLaws == GroupAssumption
ASSUME PrimeOrder == PrimeOrderAssumption
ASSUME HashTypes == HashAssumption

VARIABLES
  tokenStage,           \* how far the token of each secret is
  usesOld,             \* the wallet uses the hash of before 0.15
  blinding,               \* the blinding factor
  blinded, blindSig,          \* the blinded message and the blind signature
  dleqE, dleqS,            \* the DLEQ proof
  unblinded                \* the unblinded signature

blindVars == <<tokenStage, usesOld, blinding, blinded, blindSig, dleqE, dleqS, unblinded>>

Stages == {"secret", "blinded", "signed", "unblinded"}

BlindTypeOK ==
  /\ tokenStage \in [Secrets -> Stages]
  /\ usesOld \in [Secrets -> BOOLEAN]
  /\ blinding \in [Secrets -> Scalars]
  /\ blinded \in [Secrets -> Points] /\ blindSig \in [Secrets -> Points]
  /\ dleqE \in [Secrets -> Scalars] /\ dleqS \in [Secrets -> Scalars]
  /\ unblinded \in [Secrets -> Points]

BlindInit ==
  /\ tokenStage = [x \in Secrets |-> "secret"]
  /\ usesOld = [x \in Secrets |-> FALSE]
  /\ blinding = [x \in Secrets |-> Zero]
  /\ blinded = [x \in Secrets |-> Infinity]
  /\ blindSig = [x \in Secrets |-> Infinity]
  /\ dleqE = [x \in Secrets |-> Zero]
  /\ dleqS = [x \in Secrets |-> Zero]
  /\ unblinded = [x \in Secrets |-> Infinity]

Hash(x, deprecated) ==
  IF deprecated THEN HashToCurveDeprecated(x) ELSE HashToCurve(x)

\* step1_alice, step1_alice_deprecated
Step1Alice(x, deprecated, k) ==
  LET B == PAdd(Hash(x, deprecated), Times(k, G))
  IN /\ tokenStage[x] = "secret" /\ B # Infinity
     /\ tokenStage' = [tokenStage EXCEPT ![x] = "blinded"]
     /\ usesOld' = [usesOld EXCEPT ![x] = deprecated]
     /\ blinding' = [blinding EXCEPT ![x] = k]
     /\ blinded' = [blinded EXCEPT ![x] = B]
     /\ UNCHANGED <<blindSig, dleqE, dleqS, unblinded>>

\* step2_bob with step2_bob_dleq; the nonce p is drawn afresh
Step2Bob(x, p) ==
  LET c_ == Times(MintKey, blinded[x])
      h == HashE(Times(p, G), Times(p, blinded[x]), MintPub, c_)
      resp == SAdd(p, SMul(MintKey, h))
  IN /\ tokenStage[x] = "blinded"
     /\ h \in PrivateKeys /\ resp \in PrivateKeys
     /\ tokenStage' = [tokenStage EXCEPT ![x] = "signed"]
     /\ blindSig' = [blindSig EXCEPT ![x] = c_]
     /\ dleqE' = [dleqE EXCEPT ![x] = h]
     /\ dleqS' = [dleqS EXCEPT ![x] = resp]
     /\ UNCHANGED <<usesOld, blinding, blinded, unblinded>>

\* mutant: the blinding is taken off with r * G
Step3AliceWithG(x) ==
  LET c == PSub(blindSig[x], Times(blinding[x], G))
  IN /\ tokenStage[x] = "signed" /\ c # Infinity
     /\ tokenStage' = [tokenStage EXCEPT ![x] = "unblinded"]
     /\ unblinded' = [unblinded EXCEPT ![x] = c]
     /\ UNCHANGED <<usesOld, blinding, blinded, blindSig, dleqE, dleqS>>

\* step3_alice
Step3Alice(x) ==
  LET c == PSub(blindSig[x], Times(blinding[x], MintPub))
  IN /\ tokenStage[x] = "signed" /\ c # Infinity
     /\ tokenStage' = [tokenStage EXCEPT ![x] = "unblinded"]
     /\ unblinded' = [unblinded EXCEPT ![x] = c]
     /\ UNCHANGED <<usesOld, blinding, blinded, blindSig, dleqE, dleqS>>

BlindNext == \E x \in Secrets :
  \/ \E deprecated \in BOOLEAN, k \in PrivateKeys : Step1Alice(x, deprecated, k)
  \/ \E p \in PrivateKeys : Step2Bob(x, p)
  \/ Step3Alice(x)

BlindSpec == BlindInit /\ [][BlindNext]_blindVars

\* verify, with the deprecated hash tried second
Verify(c, x) ==
  \/ c = Times(MintKey, HashToCurve(x))
  \/ c = Times(MintKey, HashToCurveDeprecated(x))

\* alice_verify_dleq: what is hashed again
DleqR1(ee, ss) == PSub(Times(ss, G), Times(ee, MintPub))
DleqR2(B, c_, ee, ss) == PSub(Times(ss, B), Times(ee, c_))
AliceVerifyDleq(B, c_, ee, ss) ==
  ee = HashE(DleqR1(ee, ss), DleqR2(B, c_, ee, ss), MintPub, c_)

\* mutant: the deprecated hash is not tried
CarolVerifyNewOnly(x, k, c, ee, ss) ==
  AliceVerifyDleq(PAdd(HashToCurve(x), Times(k, G)),
                  PAdd(c, Times(k, MintPub)), ee, ss)

\* carol_verify_dleq: the blinding is put on again, under either hash.  (Under
\* the wrong hash a sum may be the point at infinity, by chance alone.)
CarolVerifyDleq(x, k, c, ee, ss) == \E deprecated \in BOOLEAN :
  AliceVerifyDleq(PAdd(Hash(x, deprecated), Times(k, G)),
                  PAdd(c, Times(k, MintPub)), ee, ss)

(* Properties.                                                              *)

(* Ecash that was blinded, signed and unblinded is accepted when it is      *)
(* spent (b_dhke.py:109-116), whichever hash the wallet used.               *)
UnblindedVerifies ==
  \A x \in Secrets : tokenStage[x] = "unblinded" => Verify(unblinded[x], x)

(* The DLEQ proof convinces the receiver of the token, who sees C and r and *)
(* has to rebuild B_ and C_ (b_dhke.py:160-176), as it convinces the wallet *)
(* that got the signature.                                                  *)
DleqConvinces ==
  \A x \in Secrets : tokenStage[x] = "unblinded" =>
    /\ AliceVerifyDleq(blinded[x], blindSig[x], dleqE[x], dleqS[x])
    /\ CarolVerifyDleq(x, blinding[x], unblinded[x], dleqE[x], dleqS[x])
=============================================================================
