-------------------------- MODULE SpendingConditions --------------------------
(***************************************************************************)
(* Locked ecash: the sender writes a P2PK or HTLC lock into the secret of a *)
(* proof, the wallets of the owners add a preimage and signatures to its    *)
(* witness, and the mint decides whether the witness opens the lock.        *)
(*                                                                         *)
(* A signature is the pair of its signer and what it is on: a secret        *)
(* (SIG_INPUTS) or a whole request (SIG_ALL).  Signing is deterministic     *)
(* (core/p2pk.py:47-52), so one signer's signatures on one message are      *)
(* equal.  A request is the order of its inputs and a target: the outputs   *)
(* of a swap, or the outputs and the quote of a melt.                       *)
(***************************************************************************)
EXTENDS Integers, Sequences, SequencesExt, FiniteSets, Functions

CONSTANTS
  Owners,          \* the key holders; an owner stands for its public key
  Proofs,          \* the proofs; a proof stands for its secret and nonce
  Locks,           \* the locks the senders choose from
  Requests,        \* the orders of inputs that are signed and submitted
  SwapTargets, MeltTargets,
  NoWitness, NoLock, NoRequest,
  MaxTime, MaxSigns  \* bounds on the clock and on signing calls

VARIABLES
  lock,            \* the condition in the secret of each proof
  wit,             \* the witness each proof carries
  now,             \* seconds
  accepted,        \* the request the mint accepted
  approvals        \* history: <<owner, request, target>> signed on each proof

conditionVars == <<lock, wit, now, accepted, approvals>>

Targets == SwapTargets \cup MeltTargets

\* what is signed, and a witness
Messages == Proofs \cup (Requests \X Targets)
Witnesses == [preimage : {"none", "right", "wrong"}, sigs : Seq(Owners \X Messages)]

\* a lock without a locktime tag
NoLocktime == -1

\* the tag sigflag is any text; "other" stands for those the enum has not
IsLock(l) ==
  /\ l.kind \in {"plain", "P2PK", "HTLC"} /\ (l.kind = "P2PK" => l.data \in Owners)
  /\ l.pubkeys \in Seq(Owners) /\ l.refund \in Seq(Owners)
  /\ l.nsigs \in Int /\ l.nrefund \in Int /\ l.locktime \in Nat \cup {NoLocktime}
  /\ l.flag \in {"SIG_INPUTS", "SIG_ALL", "other"}

ASSUME ConditionsAssumption ==
  /\ \A l \in Locks : IsLock(l)
  /\ \A req \in Requests : req \in Seq(Proofs) /\ req # <<>>
  /\ Proofs \cap (Requests \X Targets) = {} /\ SwapTargets \cap MeltTargets = {}
  /\ NoLock \notin Locks /\ NoWitness \notin Witnesses
  /\ NoRequest \notin [inputs : Requests, target : Targets, at : Nat]

Plain == [kind |-> "plain", data |-> NoLock, pubkeys |-> <<>>, nsigs |-> 1,
          refund |-> <<>>, nrefund |-> 1, locktime |-> NoLocktime, flag |-> "SIG_INPUTS"]

\* the two readers differ at equality, and for the first, 0 is no locktime
LockPassed(l) == l.locktime > 0 /\ l.locktime < now
NutLockPassed(l) == l.locktime # NoLocktime /\ l.locktime <= now

\* n_sigs or 1, n_sigs_refund or 1
Required(n) == IF n = 0 THEN 1 ELSE n

MainKeys(l) == IF l.kind = "P2PK" THEN <<l.data>> \o l.pubkeys ELSE l.pubkeys
SigAll(l) == l.kind # "plain" /\ l.flag = "SIG_ALL"
Witnessed(p) == wit[p] # NoWitness
Sigs(p) == IF Witnessed(p) THEN wit[p].sigs ELSE <<>>

(* The mint's side.                                                         *)

\* _verify_p2pk_signatures, and the same steps for SIG_ALL
QuorumSigned(keys, sigs, nsigs, msg) ==
  LET n == Required(nsigs)
  IN /\ IsInjective(keys) /\ IsInjective(sigs) /\ n > 0
     /\ Len(sigs) >= n /\ Len(keys) >= n
     /\ Cardinality({k \in Range(keys) : <<k, msg>> \in Range(sigs)}) >= n

\* verify_htlc_spending_conditions
HashLockOpens(p) ==
  /\ Witnessed(p)
  /\ \/ wit[p].preimage = "right"
     \/ wit[p].preimage = "none" /\ NutLockPassed(lock[p])

\* _verify_p2pk_sig_inputs: any flag but SIG_INPUTS is left to SIG_ALL
KeysOpen(p) ==
  LET l == lock[p]
      Main == MainKeys(l) # <<>> /\ QuorumSigned(MainKeys(l), Sigs(p), l.nsigs, p)
      Refund == l.refund # <<>> /\ QuorumSigned(l.refund, Sigs(p), l.nrefund, p)
  IN \/ l.flag # "SIG_INPUTS"
     \/ Main
     \/ LockPassed(l) /\ (l.refund = <<>> \/ Refund)
     \/ MainKeys(l) = <<>> /\ ~(LockPassed(l) /\ l.refund # <<>>)

\* _verify_input_spending_conditions
InputOpens(p) ==
  CASE lock[p].kind = "plain" -> ~Witnessed(p)
    [] lock[p].kind = "P2PK"  -> KeysOpen(p)
    [] lock[p].kind = "HTLC"  -> HashLockOpens(p) /\ KeysOpen(p)

\* two secrets are equal whatever their nonces
SameSecrets(req) == Cardinality({lock[p] : p \in Range(req)}) = 1

\* mutant: the outputs are left out of the signed message
SigAllIgnoringTarget(req, target) ==
  LET l == lock[req[1]]
      keys == IF LockPassed(l) THEN l.refund ELSE MainKeys(l)
      n == IF LockPassed(l) THEN l.nrefund ELSE l.nsigs
  IN keys = <<>> \/ \E t \in Targets :
                      QuorumSigned(keys, Sigs(req[1]), n, <<req, t>>)

\* _verify_sigall_spending_conditions, once the secrets are known equal
SigAllOpens(req, target) ==
  LET l == lock[req[1]]
      keys == IF LockPassed(l) THEN l.refund ELSE MainKeys(l)
      n == IF LockPassed(l) THEN l.nrefund ELSE l.nsigs
  IN keys = <<>> \/ QuorumSigned(keys, Sigs(req[1]), n, <<req, target>>)

\* a swap raises if the secrets differ; a melt gets FALSE back and goes on
OutputsOpen(req, target) ==
  \/ ~\E p \in Range(req) : SigAll(lock[p])
  \/ IF SameSecrets(req) THEN SigAllOpens(req, target)
                         ELSE target \in MeltTargets

MintAccepts(req, target) ==
  /\ \A p \in Range(req) : InputOpens(p)
  /\ OutputsOpen(req, target)

(* The wallets' side.                                                       *)

\* add_signatures_to_proofs, for one proof
WithSignature(w, sig, kind) ==
  IF w = NoWitness THEN [preimage |-> "none", sigs |-> <<sig>>]
  ELSE IF sig \in Range(w.sigs) THEN w
  ELSE [preimage |-> IF kind = "HTLC" THEN w.preimage ELSE "none",
        sigs |-> Append(w.sigs, sig)]

\* filter_proofs_locked_to_our_pubkey
LockedTo(w, p) == w \in Range(MainKeys(lock[p])) \cup Range(lock[p].refund)

\* sign_p2pk_sig_inputs: the filter on each proof, which raises on a flag
\* that is not in SigFlags
SignsInput(w, p) ==
  lock[p].kind # "plain" /\ lock[p].flag = "SIG_INPUTS" /\ LockedTo(w, p)
CannotSign(p) ==
  lock[p].kind # "plain" /\ lock[p].flag = "other" /\ MainKeys(lock[p]) \o lock[p].refund # <<>>

\* add_witness_swap_sig_all: otherwise it logs an error and signs nothing
SignsAll(w, req) ==
  /\ \E p \in Range(req) : SigAll(lock[p])
  /\ \A p \in Range(req) : lock[p].kind # "plain" /\ LockedTo(w, p)
  /\ SameSecrets(req)

ConditionsInit ==
  /\ lock = [p \in Proofs |-> NoLock]
  /\ wit = [p \in Proofs |-> NoWitness]
  /\ now = 0
  /\ accepted = NoRequest
  /\ approvals = [p \in Proofs |-> {}]

Locked == \A p \in Proofs : lock[p] # NoLock
Open == Locked /\ accepted = NoRequest

\* create_p2pk_lock, create_htlc_lock, or a plain secret
WriteSecret(p, l) ==
  /\ lock[p] = NoLock
  /\ lock' = [lock EXCEPT ![p] = l]
  /\ UNCHANGED <<wit, now, accepted, approvals>>

\* add_htlc_preimage_to_proofs: it replaces the whole witness
AddPreimage(p, preimage) ==
  /\ Open /\ lock[p].kind = "HTLC"
  /\ wit' = [wit EXCEPT ![p] = [preimage |-> preimage, sigs |-> <<>>]]
  /\ approvals' = [approvals EXCEPT ![p] = {}]
  /\ UNCHANGED <<lock, now, accepted>>

\* sign_proofs_inplace_swap and sign_proofs_inplace_melt
Sign(w, req, target) ==
  /\ Open
  /\ Cardinality(UNION Range(approvals)) < MaxSigns
  /\ ~\E p \in Range(req) : CannotSign(p)
  /\ LET Signed(p) ==
           IF SignsInput(w, p)
           THEN WithSignature(wit[p], <<w, p>>, lock[p].kind)
           ELSE IF p = req[1] /\ SignsAll(w, req)
           THEN WithSignature(wit[p], <<w, <<req, target>>>>, lock[p].kind)
           ELSE wit[p]
     IN wit' = [p \in Proofs |-> IF p \in Range(req) THEN Signed(p) ELSE wit[p]]
  /\ approvals' = [p \in Proofs |-> IF p \in Range(req)
                     THEN approvals[p] \cup {<<w, req, target>>}
                     ELSE approvals[p]]
  /\ UNCHANGED <<lock, now, accepted>>

ConditionsTick ==
  /\ Open /\ now < MaxTime
  /\ now' = now + 1
  /\ UNCHANGED <<lock, wit, accepted, approvals>>

\* a swap or a melt whose conditions hold; a refused one changes nothing
Submit(req, target) ==
  /\ Open
  /\ MintAccepts(req, target)
  /\ accepted' = [inputs |-> req, target |-> target, at |-> now]
  /\ UNCHANGED <<lock, wit, now, approvals>>

ConditionsNext ==
  \/ \E p \in Proofs, l \in Locks : WriteSecret(p, l)
  \/ \E p \in Proofs, x \in {"right", "wrong"} : AddPreimage(p, x)
  \/ \E w \in Owners, req \in Requests, t \in Targets : Sign(w, req, t)
  \/ ConditionsTick
  \/ \E req \in Requests, t \in Targets : Submit(req, t)

ConditionsSpec == ConditionsInit /\ [][ConditionsNext]_conditionVars

(* Properties.                                                              *)

SignedFor(p, req, target, keys) ==
  {k \in Range(keys) :
     IF SigAll(lock[p]) THEN <<k, req, target>> \in approvals[req[1]]
     ELSE \E a \in approvals[p] : a[1] = k}

(* Ecash is spent with its owners' consent (conditions.py:22-112, 270-386): *)
(* of every lock in an accepted request, as many distinct main owners       *)
(* signed as it asks for, and signed these very outputs under SIG_ALL; or   *)
(* its time had passed and the refund owners, if it names any, signed.  A   *)
(* hash lock was opened with its preimage or its time had come.  A sigflag  *)
(* that SigFlags has not asks for no signature (FlagsAreKnown); melts that  *)
(* mix SIG_ALL with other inputs are left to MixedSigAllRefused.            *)
OwnersConsented ==
  accepted # NoRequest =>
    LET req == accepted.inputs
        t == accepted.target
    IN (t \in SwapTargets \/ SameSecrets(req)) =>
       \A p \in Range(req) : lock[p].kind # "plain" =>
         LET l == lock[p]
             By(keys, n) == Cardinality(SignedFor(p, req, t, keys)) >= Required(n)
             late == l.locktime > 0 /\ accepted.at > l.locktime
         IN /\ \/ MainKeys(l) = <<>>
               \/ l.flag = "other"
               \/ By(MainKeys(l), l.nsigs)
               \/ late /\ (l.refund = <<>> \/ By(l.refund, l.nrefund))
            /\ l.kind = "HTLC" =>
                 \/ wit[p].preimage = "right"
                 \/ l.locktime # NoLocktime /\ accepted.at >= l.locktime

(* No owner is left out: when enough owners of either path have run their   *)
(* wallet's signing on one request, the mint opens the lock (p2pk.py:140-   *)
(* 341 against conditions.py), whatever else was signed and in any order;   *)
(* but for a path that names a key twice, or asks for a negative number of  *)
(* signatures or for more than there are keys, which the mint refuses.      *)
CoSignersSuffice ==
  Open => \A req \in Requests, t \in Targets : SameSecrets(req) =>
    \A p \in Range(req) :
      LET l == lock[p]
          By(keys, n) ==
            /\ IsInjective(keys) /\ Required(n) \in 1 .. Len(keys)
            /\ Cardinality(SignedFor(p, req, t, keys)) >= Required(n)
          ready == l.kind = "HTLC" => Witnessed(p) /\ wit[p].preimage = "right"
      IN /\ l.kind # "plain" /\ ready
         /\ \/ By(MainKeys(l), l.nsigs) /\ (SigAll(l) => ~LockPassed(l))
            \/ LockPassed(l) /\ By(l.refund, l.nrefund)
         => IF SigAll(l) THEN OutputsOpen(req, t) ELSE InputOpens(p)

(* A note moves when those its lock names want it to, and only then.        *)
OwnersDecide == OwnersConsented /\ CoSignersSuffice

(* Does not hold: a lock whose sigflag is neither of SigFlags opens without *)
(* a signature, for the inputs are not checked and the outputs are not      *)
(* either (conditions.py:52-56, 226-231).                                   *)
FlagsAreKnown ==
  accepted # NoRequest =>
    \A p \in Range(accepted.inputs) :
      lock[p].kind # "plain" => lock[p].flag # "other"

(* conditions.py:284-286: "We raise an exception: if one input is SIG_ALL   *)
(* but not all inputs are SIG_ALL".  The function returns False instead     *)
(* (:303-307), and Ledger.melt does not look at what it returns.            *)
MixedSigAllRefused ==
  accepted # NoRequest =>
    LET L == {lock[p] : p \in Range(accepted.inputs)}
    IN (\E l \in L : SigAll(l)) => \A l \in L : SigAll(l)
=============================================================================
