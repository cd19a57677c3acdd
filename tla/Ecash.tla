-------------------------------- MODULE Ecash --------------------------------
(***************************************************************************)
(* What a mint promises its users about ecash, without tables, coroutines   *)
(* or crashes: a note is issued once, spent at most once and for ever, and  *)
(* notes are only ever exchanged for notes worth no more.  A lock keeps a   *)
(* note for the one transaction that will spend it or let it go; a lock     *)
(* that is never let go is a transaction that died.                         *)
(***************************************************************************)
EXTENDS Integers

CONSTANTS Tokens, Value(_), Genesis

VARIABLES issued, spent, locked

ecashVars == <<issued, spent, locked>>

Init == issued = Genesis /\ spent = {} /\ locked = {}

Lock(P) ==
  /\ P \subseteq issued /\ P \cap (spent \cup locked) = {}
  /\ locked' = locked \cup P
  /\ UNCHANGED <<issued, spent>>

Release(P) ==
  /\ P \subseteq locked
  /\ locked' = locked \ P
  /\ UNCHANGED <<issued, spent>>

Exchange(P, O) ==
  /\ P \subseteq locked
  /\ O \cap issued = {} /\ Value(O) <= Value(P)
  /\ locked' = locked \ P
  /\ spent' = spent \cup P
  /\ issued' = issued \cup O

Next == \E P, O \in SUBSET Tokens : Lock(P) \/ Release(P) \/ Exchange(P, O)

Spec == Init /\ [][Next]_ecashVars
=============================================================================
