---------------------------- MODULE MCFoundations -----------------------------
(* Small instances of what the mint's and the wallet's operations rest on:   *)
(* the algorithms behind a note (its blind signature, its spending condition,*)
(* the amounts, the token that carries it), and the services of the mint     *)
(* (Lightning backends, migrations, locks of the database, watchdog,         *)
(* conversion to Postgres).  They share no state, so in one behaviour one of *)
(* them is followed and the others stay as they began.                       *)
EXTENDS BlindSignature, SpendingConditions, Amounts, Tokens,
        Backends, Migrations, DbLock, Watchdog, Conversion

CONSTANTS x1, x2, ana, bea, cy, p1, p2, swp, mlt, kA, kO,
          kb, k0, kv, ku, kw, kx, ky, sv, sx, mA, mB,
          n1, n2, d1, d2, d3, d4

\* a group of five points over the scalars modulo five
Order == 5
Z == 0 .. Order - 1
ZAdd(k, l) == (k + l) % Order
ZMul(k, l) == (k * l) % Order
ZNeg(k) == (Order - k) % Order
ZHashToCurve(x) == IF x = x1 THEN 2 ELSE 3
ZHashToCurveDeprecated(x) == IF x = x1 THEN 4 ELSE 1
ZHashE(R1, R2, K, c_) == (R1 + 2 * R2 + 3 * K + c_) % (Order + 1)
MCSecrets == {x1, x2}

MCOwners == {ana, bea, cy}
MCProofs == {p1, p2}
ALock(k, data, pubkeys, nsigs, refs, nrefs, locktime, flag) ==
  [kind |-> k, data |-> data, pubkeys |-> pubkeys, nsigs |-> nsigs,
   refund |-> refs, nrefund |-> nrefs, locktime |-> locktime, flag |-> flag]
\* 2-of-3, refunds after the lock, SIG_ALL with more signatures asked than a
\* single owner has, hashes with and without a key, n_sigs and locktime of 0,
\* and a sigflag nobody knows
MCLocks ==
  {Plain,
   ALock("P2PK", ana, <<bea, cy>>, 2, <<>>, 1, NoLocktime, "SIG_INPUTS"),
   ALock("P2PK", ana, <<>>, 1, <<bea, cy>>, 2, 1, "SIG_INPUTS"),
   ALock("P2PK", ana, <<bea>>, 2, <<cy>>, 1, 1, "SIG_ALL"),
   ALock("HTLC", "hash", <<ana>>, 0, <<bea>>, 1, 1, "SIG_INPUTS"),
   ALock("HTLC", "hash", <<>>, 1, <<>>, 1, 0, "SIG_INPUTS"),
   ALock("P2PK", bea, <<>>, 1, <<>>, 1, NoLocktime, "other")}
MCRequests == {<<p1>>, <<p1, p2>>}
MCSwaps == {swp}
MCMelts == {mlt}

MCKeysetPpk == [k \in {kA, kO} |-> IF k = kA THEN 300 ELSE 1000]
MCCoins == [amt : {1, 4, 8}, ks : {kA}] \cup [amt : {4}, ks : {kO}]
MCPurses == UNION {[1 .. n -> MCCoins] : n \in 1 .. 3}
MCAllowedAmounts == [i \in 1 .. 5 |-> 2^(i - 1)]
MCRequested == {1, 3, 4, 8, 11}
MCReserves == 0 .. 9

\* ids of all three versions; kv, ku and kw share a prefix over two units and
\* two mints, kx and ky within one
MCKeysetIds == {kb, k0, kv, ku, kw, kx, ky}
MCIdVersion == [k \in MCKeysetIds |-> CASE k = kb -> "base64" [] k = k0 -> "00" [] OTHER -> "01"]
MCPrefix == [k \in MCKeysetIds |-> CASE k \in {kb, k0} -> k [] k \in {kx, ky} -> sx [] OTHER -> sv]
MCMintOf == [k \in MCKeysetIds |-> IF k = kw THEN mB ELSE mA]
MCUnitOf == [k \in MCKeysetIds |-> IF k = ku THEN "usd" ELSE "sat"]
Note(k, s, dleq) == [id |-> k, secret |-> s, dleq |-> dleq]
MCTokenProofs ==
  {Note(kb, 1, TRUE), Note(k0, 2, TRUE), Note(k0, 3, FALSE), Note(kv, 4, TRUE), Note(kv, 5, TRUE),
   Note(ku, 6, TRUE), Note(kw, 7, TRUE), Note(kx, 8, FALSE), Note(ky, 9, TRUE)}
MCForeignTokens ==
  {Token("V3", "sat", TRUE, <<[mint |-> mA, proofs |-> {Note(kv, 4, TRUE)}],
                              [mint |-> mB, proofs |-> {Note(kw, 7, TRUE)}]>>),
   Token("V3", "", TRUE, <<[mint |-> mA, proofs |-> {Note(ku, 6, TRUE)}]>>),
   Token("V3", "", TRUE, <<[mint |-> mA, proofs |-> {Note(kb, 1, TRUE)}],
                           [mint |-> mA, proofs |-> {Note(kv, 4, TRUE)}]>>)}

\* two that lock the same row, and for another row one that locks the table and
\* one without a lock
MCRowOf == [c \in {d1, d2, d3, d4} |-> IF c \in {d2, d3} THEN x2 ELSE x1]
MCLockOf == [c \in {d1, d2, d3, d4} |->
  CASE c \in {d1, d4} -> "row" [] c = d2 -> "table" [] OTHER -> "none"]

VARIABLE part
noteVars == <<blindVars, conditionVars, amountVars, wayVars>>
serviceVars == <<backendVars, migrationVars, lockVars, watchdogVars, conversionVars>>

\* a part that is not followed has one initial state
Init ==
  /\ part \in {"blind", "conditions", "amounts", "tokens",
               "backends", "migrations", "locks", "watchdog", "conversion"}
  /\ BlindInit /\ ConditionsInit /\ AmountsInit /\ TokensInit
  /\ part # "tokens" => sent = {CHOOSE p \in TokenProofs : TRUE}
  /\ BackendsInit
  /\ part # "backends" => kind = "strike" /\ unit = "sat"
  /\ IF part = "migrations" THEN MigrationsInit
     ELSE /\ version = 24 /\ dbType = "SQLITE" /\ dirty = {} /\ opening = "down"
          /\ keysetsTable = "whole" /\ db = {} /\ was = {}
  /\ DbLockInit
  /\ part # "locks" => dbKind = "SQLITE"
  /\ WatchdogInit
  /\ ConversionInit

BlindRun == part = "blind" /\ BlindNext /\ UNCHANGED <<conditionVars, amountVars, wayVars>>
ConditionsRun == part = "conditions" /\ ConditionsNext /\ UNCHANGED <<blindVars, amountVars, wayVars>>
AmountsRun == part = "amounts" /\ AmountsNext /\ UNCHANGED <<blindVars, conditionVars, wayVars>>
TokensRun == part = "tokens" /\ TokensNext /\ UNCHANGED <<blindVars, conditionVars, amountVars>>
NotesRun ==
  /\ BlindRun \/ ConditionsRun \/ AmountsRun \/ TokensRun
  /\ UNCHANGED <<part, serviceVars>>

BackendsRun ==
  /\ part = "backends" /\ BackendsNext
  /\ UNCHANGED <<migrationVars, lockVars, watchdogVars, conversionVars>>
MigrationsRun ==
  /\ part = "migrations" /\ MigrationsNext
  /\ UNCHANGED <<backendVars, lockVars, watchdogVars, conversionVars>>
LocksRun ==
  /\ part = "locks" /\ DbLockNext
  /\ UNCHANGED <<backendVars, migrationVars, watchdogVars, conversionVars>>
WatchdogRun ==
  /\ part = "watchdog" /\ WatchdogNext
  /\ UNCHANGED <<backendVars, migrationVars, lockVars, conversionVars>>
ConversionRun ==
  /\ part = "conversion" /\ ConversionNext
  /\ UNCHANGED <<backendVars, migrationVars, lockVars, watchdogVars>>
ServicesRun ==
  /\ BackendsRun \/ MigrationsRun \/ LocksRun \/ WatchdogRun \/ ConversionRun
  /\ UNCHANGED <<part, noteVars>>

Next == NotesRun \/ ServicesRun
Spec == Init /\ [][Next]_<<part, noteVars, serviceVars>>
=============================================================================
