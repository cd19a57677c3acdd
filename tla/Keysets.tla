------------------------------ MODULE Keysets ------------------------------
(* The keysets of one unit of a mint: the table, the mint's memory, the      *)
(* rotation that the operator asks for over gRPC, the start of the mint, the *)
(* melts whose change is signed with a keyset some time after their outputs  *)
(* were accepted, and the wallet that follows the rotation.                  *)
(*                                                                           *)
(* A keyset is named by the counter that ends its derivation path: the id is *)
(* derived from the path, so the next counter is the next id.                *)
EXTENDS Integers, FiniteSets, Sequences, SequencesExt

CONSTANTS Rotations,    \* calls of RotateNextKeyset that may run at the same time
          Melts,        \* melts with outputs for the change
          LastCounter,  \* bound: counters go from 0 to this one
          CrashMax,     \* bound: how often the mint dies
          NoKeyset

ASSUME KeysetsAssumption ==
    LastCounter \in Nat /\ CrashMax \in Nat /\ NoKeyset \notin Int

Counters == 0 .. LastCounter

VARIABLES
    configured,   \* counter of MINT_DERIVATION_PATH, NoKeyset if it is of another unit
    keysTable,    \* the keysets table: counter -> "none", "active" or "inactive"
    keysHeld,     \* Ledger.keysets: the counters in the dict's order
    keysOn,       \* the keysets of Ledger.keysets that are active
    mintUp,       \* is the mint running
    rotation,     \* the running rotations: their step, the old and the new keyset
    change,       \* melts: the keyset of their outputs and how far they are
    signedWith,   \* keysets with signatures in circulation
    crashes,      \* deaths of the mint so far
    torn,         \* rotations cut short after the new keyset was stored
    walletKeys,   \* the wallet's keysets table
    walletKeyset, \* Wallet.keyset_id
    loading,      \* load_mint: its step, and the answer to GET /v1/keysets
    asOf          \* the active keysets of the last answer the wallet applied

keysetVars == <<configured, keysTable, keysHeld, keysOn, mintUp, rotation, change,
                signedWith, crashes, torn, walletKeys, walletKeyset, loading, asOf>>

mintSide   == <<configured, keysTable, keysHeld, keysOn, mintUp, rotation, crashes, torn>>
walletSide == <<walletKeys, walletKeyset, loading, asOf>>

Stored  == {k \in Counters : keysTable[k] # "none"}
Idle    == [step |-> "idle", old |-> NoKeyset, new |-> NoKeyset]
NoMelt  == [step |-> "idle", keyset |-> NoKeyset]
NoLoad  == [step |-> "none", held |-> <<>>, on |-> {}]

KeysetsInit ==
    /\ configured \in {NoKeyset, 0}
    \* a unit that is not configured any more keeps the keyset of its first start
    /\ keysTable = [k \in Counters |->
                       IF k = 0 /\ configured = NoKeyset THEN "active" ELSE "none"]
    /\ keysHeld = <<>> /\ keysOn = {} /\ mintUp = FALSE
    /\ rotation = [r \in Rotations |-> Idle]
    /\ change = [m \in Melts |-> NoMelt]
    /\ signedWith = {} /\ crashes = 0 /\ torn = 0
    /\ walletKeys = [k \in Counters |-> "none"]
    /\ walletKeyset = NoKeyset /\ loading = NoLoad /\ asOf = {}

(* ------------------------------ the mint starts ------------------------- *)

\* the last in the order of the dict that is one of ks; no keyset, if none is
LastOf(held, ks) ==
    {held[i] : i \in {i \in DOMAIN held :
        held[i] \in ks /\ \A j \in DOMAIN held : j > i => held[j] \notin ks}}

(* The path to activate: the last one, in the order of the dict, of the      *)
(* active keysets whose counter is above the configured one.                 *)
MaybeUpdateDerivationPath(held, on) ==
    LET above == {k \in on : k > configured}
    IN  IF above = {} THEN {configured} ELSE LastOf(held, above)

(* Mutant of InitKeysets: only the active rows are loaded.                   *)
InitActiveKeysets ==
    /\ ~mintUp
    /\ mintUp' = TRUE
    /\ \E held \in SetToSeqs({k \in Stored : keysTable[k] = "active"}) :
         /\ keysHeld' = IF configured = NoKeyset \/ configured \in Range(held)
                        THEN held ELSE Append(held, configured)
         /\ keysOn' = Range(keysHeld')
         /\ keysTable' = [k \in Counters |->
                             IF k \in keysOn' THEN "active" ELSE keysTable[k]]
    /\ UNCHANGED <<configured, rotation, change, signedWith, crashes, torn>>
    /\ UNCHANGED walletSide

(* init_keysets: all rows to memory (the query names no order), then the     *)
(* keyset of the path is generated if there is none, and active in memory.   *)
InitKeysets ==
    /\ ~mintUp
    /\ mintUp' = TRUE
    /\ \E held \in SetToSeqs(Stored) :
         LET on == {k \in Stored : keysTable[k] = "active"}
         IN  IF configured = NoKeyset
             THEN /\ keysHeld' = held /\ keysOn' = on
                  /\ UNCHANGED keysTable
             ELSE \E path \in MaybeUpdateDerivationPath(held, on) :
                  /\ keysHeld' = IF path \in Stored THEN held ELSE Append(held, path)
                  /\ keysOn' = on \cup {path}
                  /\ keysTable' = IF path \in Stored THEN keysTable
                                  ELSE [keysTable EXCEPT ![path] = "active"]
    /\ UNCHANGED <<configured, rotation, change, signedWith, crashes, torn>>
    /\ UNCHANGED walletSide

MintDies ==
    /\ mintUp /\ crashes < CrashMax
    /\ mintUp' = FALSE /\ crashes' = crashes + 1
    /\ keysHeld' = <<>> /\ keysOn' = {}
    /\ torn' = torn + Cardinality({r \in Rotations : rotation[r].step \in {"stored", "retiring"}})
    /\ rotation' = [r \in Rotations |-> Idle]
    /\ UNCHANGED <<configured, keysTable, change, signedWith>>
    /\ UNCHANGED walletSide

(* ------------------------------ a rotation ------------------------------ *)

(* The loop over the dict keeps the last active keyset of the unit: the      *)
(* highest counter seen so far is compared with, and never recorded.         *)
SelectedForRotation == LastOf(keysHeld, keysOn)

RotateNextKeyset(r) ==
    /\ mintUp /\ rotation[r] = Idle
    /\ \E selected \in SelectedForRotation :
         /\ selected < LastCounter
         /\ rotation' = [rotation EXCEPT ![r] =
                            [step |-> "selected", old |-> selected, new |-> selected + 1]]
    /\ UNCHANGED <<configured, keysTable, keysHeld, keysOn, mintUp, change, signedWith,
                   crashes, torn>>
    /\ UNCHANGED walletSide

Proceeds(r, step) ==
    rotation' = [rotation EXCEPT ![r] =
                    [step |-> step, old |-> rotation[r].old, new |-> rotation[r].new]]

(* The INSERT of the new keyset; the id is the primary key of the table.     *)
StoreKeyset(r) ==
    /\ rotation[r].step = "selected"
    /\ IF rotation[r].new \in Stored
       THEN /\ rotation' = [rotation EXCEPT ![r] = Idle]
            /\ UNCHANGED keysTable
       ELSE /\ keysTable' = [keysTable EXCEPT ![rotation[r].new] = "active"]
            /\ Proceeds(r, "stored")
    /\ UNCHANGED <<configured, keysHeld, keysOn, mintUp, change, signedWith, crashes, torn>>
    /\ UNCHANGED walletSide

(* Back from the INSERT: the new keyset to memory and the old one inactive   *)
(* in memory, without a pause in between.                                    *)
SwitchKeyset(r) ==
    /\ rotation[r].step = "stored"
    /\ keysHeld' = Append(keysHeld, rotation[r].new)
    /\ keysOn' = (keysOn \cup {rotation[r].new}) \ {rotation[r].old}
    /\ Proceeds(r, "retiring")
    /\ UNCHANGED <<configured, keysTable, mintUp, change, signedWith, crashes, torn>>
    /\ UNCHANGED walletSide

UpdateKeyset(r) ==
    /\ rotation[r].step = "retiring"
    /\ keysTable' = [keysTable EXCEPT ![rotation[r].old] = "inactive"]
    /\ rotation' = [rotation EXCEPT ![r] = Idle]
    /\ UNCHANGED <<configured, keysHeld, keysOn, mintUp, change, signedWith, crashes, torn>>
    /\ UNCHANGED walletSide

(* --------------------------- the change of a melt ----------------------- *)

(* melt stores the outputs for the change: their keyset must be active.      *)
StoreChangeOutputs(m) ==
    /\ mintUp /\ change[m] = NoMelt
    /\ walletKeyset \in keysOn
    /\ change' = [change EXCEPT ![m] = [step |-> "paying", keyset |-> walletKeyset]]
    /\ UNCHANGED <<mintSide, walletSide, signedWith>>

(* The payment settles: the inputs are invalidated, and then the outputs are *)
(* signed if their keyset is active; if it is not, the melt or the poll      *)
(* raises, with the inputs spent and the quote still pending.                *)
SignChange(m) ==
    /\ mintUp /\ change[m].step = "paying"
    /\ IF change[m].keyset \in keysOn
       THEN /\ signedWith' = signedWith \cup {change[m].keyset}
            /\ change' = [change EXCEPT ![m] = NoMelt]
       ELSE /\ change' = [change EXCEPT ![m].step = "raised"]
            /\ UNCHANGED signedWith
    /\ UNCHANGED <<mintSide, walletSide>>

(* ------------------------------ the wallet ------------------------------ *)

\* the mint's answers: all keysets, and those that are active, in its order
KeysetsServed == [held |-> keysHeld, on |-> keysOn]
KeysServed == SelectSeq(keysHeld, LAMBDA k : k \in keysOn)

Flag(k) == IF k \in loading.on THEN "active" ELSE "inactive"
LoadStep(step) == loading' = [loading EXCEPT !.step = step]

(* load_mint_keysets asks for the keysets, and looks which of them it has.   *)
AskKeysets ==
    /\ mintUp /\ loading = NoLoad /\ keysHeld # <<>>
    /\ loading' = [step |-> IF \A k \in Counters : walletKeys[k] = "none" THEN "empty" ELSE "some",
                   held |-> KeysetsServed.held, on |-> KeysetsServed.on]
    /\ UNCHANGED <<mintSide, change, signedWith, walletKeys, walletKeyset, asOf>>

(* It has none, and asks for the keys of all that are active by now.  They   *)
(* are stored one by one with the flag of the first answer, which raises for *)
(* the first keyset that is not part of it.                                  *)
AskKeys ==
    /\ mintUp /\ loading.step = "empty"
    /\ LET news  == {i \in 1 .. Len(KeysServed) : KeysServed[i] \notin Range(loading.held)}
           known == {i \in 1 .. Len(KeysServed) : \A j \in news : i < j}
           got   == {KeysServed[i] : i \in known}
       IN  /\ walletKeys' = [k \in Counters |-> IF k \in got THEN Flag(k) ELSE walletKeys[k]]
           /\ IF news = {} THEN LoadStep("some") ELSE loading' = NoLoad
    /\ UNCHANGED <<mintSide, change, signedWith, walletKeyset, asOf>>

\* where the answer has keysets that the wallet has not yet
UnknownKeysets == {i \in DOMAIN loading.held : walletKeys[loading.held[i]] = "none"}

(* The keys of the next one of them, from the mint to the wallet's table.    *)
AskKeyset ==
    /\ mintUp /\ loading.step = "some"
    /\ \E i \in UnknownKeysets :
         /\ \A j \in UnknownKeysets : i <= j
         /\ loading.held[i] \in Range(keysHeld)
         /\ walletKeys' = [walletKeys EXCEPT ![loading.held[i]] = Flag(loading.held[i])]
    /\ UNCHANGED <<mintSide, change, signedWith, walletKeyset, loading, asOf>>

(* Mutant of LoadedKeys: only unknown keysets are stored.                    *)
LoadedNewKeys == walletKeys
(* A keyset that became inactive is updated; nothing makes one active again. *)
LoadedKeys ==
    [k \in Counters |->
        IF k \in Range(loading.held) \ loading.on THEN "inactive" ELSE walletKeys[k]]

(* The end of load_mint_keysets, and activate_keyset: any active keyset is   *)
(* chosen.  With none it raises, and the old choice stays.                   *)
ActivateKeyset ==
    /\ loading.step = "some" /\ UnknownKeysets = {}
    /\ walletKeys' = LoadedKeys
    /\ LET usable == {k \in Counters : LoadedKeys[k] = "active"}
       IN  IF usable = {} THEN UNCHANGED walletKeyset
           ELSE walletKeyset' \in usable
    /\ asOf' = loading.on /\ loading' = NoLoad
    /\ UNCHANGED <<mintSide, change, signedWith>>

(* A request of load_mint fails, which load_mint swallows.                   *)
LoadFails ==
    /\ loading # NoLoad /\ loading' = NoLoad
    /\ UNCHANGED <<mintSide, change, signedWith, walletKeys, walletKeyset, asOf>>

KeysetsNext ==
    \/ InitKeysets
    \/ MintDies
    \/ AskKeysets \/ AskKeys \/ AskKeyset \/ ActivateKeyset \/ LoadFails
    \/ \E r \in Rotations :
          RotateNextKeyset(r) \/ StoreKeyset(r) \/ SwitchKeyset(r) \/ UpdateKeyset(r)
    \/ \E m \in Melts : StoreChangeOutputs(m) \/ SignChange(m)

KeysetsSpec == KeysetsInit /\ [][KeysetsNext]_keysetVars

(* ------------------------------ properties ------------------------------ *)

(* Every keyset with signatures in circulation is in the table, and in the   *)
(* memory of a running mint, so its notes can still be redeemed after any    *)
(* crash (store_keyset comes before the dict; init_keysets loads all rows).  *)
SignedStaysRedeemable ==
    /\ signedWith \subseteq Stored
    /\ mintUp => signedWith \subseteq Range(keysHeld)

(* After load_mint the wallet uses a keyset that was active in the mint's    *)
(* answer, through rotations between its requests and loads that failed in   *)
(* the middle (load_mint_keysets, activate_keyset).                          *)
WalletFollowsRotation == asOf # {} => walletKeyset \in asOf

(* _sign_blinded_messages: "additional checks in the code that might decide  *)
(* not to return these promises should be avoided once this function is      *)
(* called". A melt whose payment settles gets its change. Violated: the      *)
(* keyset was rotated after the outputs were stored, and the check of        *)
(* `keyset.active` raises after the inputs were invalidated.                 *)
ChangeIsSigned == \A m \in Melts : change[m].step # "raised"
=============================================================================
