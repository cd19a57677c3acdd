------------------------------ MODULE Migrations ------------------------------
(***************************************************************************)
(* Opening the mint's database with a newer version of the program: the     *)
(* migrations from 11 on, one after the other, each committed before its    *)
(* number is recorded, with the process dying anywhere.                     *)
(*                                                                         *)
(* A database holds notes of amount 1.  A note has a promise, and may have  *)
(* a row in proofs_used or proofs_pending.  y is the point that looks a     *)
(* note up: "old" is the hash to curve of before migration 16.  A keyset id *)
(* is "b64" or "hex"; rows of before migration 7 have none.                 *)
(***************************************************************************)
EXTENDS Integers, FiniteSets

CONSTANTS
  Notes,       \* the notes of the database
  OldVersions, \* the versions it may have been left at, from 10 to 26
  Null         \* no row, no state, no melt outputs

(* A row has the column y as "none" before migration 14, and the id as "null". *)
Row == [y : {"none", "old", "new"}, id : {"b64", "hex", "null"}]

ASSUME MigrationsAssumption ==
  /\ IsFiniteSet(Notes) /\ OldVersions \subseteq 10 .. 26
  /\ Null \notin Row /\ Null \notin {"issued", "ISSUED"}

VARIABLES
  db,       \* the tables
  keysetsTable,  \* "whole"; "gone" while it is dropped; "emptied" when it was
                 \* created anew and not filled
  was,      \* the tables before the first upgrade
  dbType,   \* "SQLITE" or "POSTGRES"
  version,  \* the row of dbversions
  dirty,    \* migrations whose first DDL is in the database, recorded or not
  opening   \* the program: "down", "migrate", "record", "up" or "stuck"

migrationVars == <<db, keysetsTable, was, dbType, version, dirty, opening>>

Latest == 32
Present(rows) == {n \in Notes : rows[n] # Null}
EachRow(rows, F(_)) == [n \in Notes |-> IF rows[n] = Null THEN Null ELSE F(rows[n])]
WithY(rows, y) == EachRow(rows, LAMBDA r : [r EXCEPT !.y = y])

----------------------------------------------------------------------------
(* The migrations that touch a row.  A Proof made of a row computes y anew.  *)

\* the invoices become quotes that are not paid
m011(d) == [d EXCEPT !.mint.paid = FALSE]

\* copy the table, drop it, create it and fill it from the copy
m012(d) == [d EXCEPT !.keysetsOld = {}]
m013(d) == m012(d)

m014(d) == [d EXCEPT !.used = WithY(@, "new"), !.pending = WithY(@, "new")]

\* the pending rows go to the wrong temporary table, and nothing to the right one
m016(d) == [d EXCEPT !.used = WithY(@, "new")]

\* every keyset is entered again under its other id
m018(d) == [d EXCEPT !.keysets = IF @ = {} THEN {} ELSE {"b64", "hex"}]

m020(d) ==
  [d EXCEPT !.mint.state = IF d.mint.issued THEN "issued" ELSE IF d.mint.paid THEN "paid" ELSE "unpaid",
            !.melt.state = IF d.melt.paid THEN "paid" ELSE "unpaid"]

\* the name of a state becomes its value
ValueOf(s) == CASE s = "unpaid" -> "UNPAID" [] s = "pending" -> "PENDING"
                [] s = "paid" -> "PAID" [] s = "issued" -> "ISSUED" [] OTHER -> s
m022(d) == [d EXCEPT !.mint.state = ValueOf(@), !.melt.state = ValueOf(@)]

\* rows without a keyset go to the oldest one whose id is hex
m026(d) ==
  LET fill(r) == [r EXCEPT !.id = IF @ = "null" THEN "hex" ELSE @]
  IN [d EXCEPT !.promise = [n \in Notes |-> IF @[n] = "null" THEN "hex" ELSE @[n]],
               !.used = EachRow(@, fill), !.pending = EachRow(@, fill)]

\* mutant: the redeemed of all keysets, without the GROUP BY
RedeemedOfAll(d, k) == Cardinality(Present(d.used))

\* the view balance is a left join: it has a row for a keyset with promises
Redeemed(d, k) == Cardinality({n \in Present(d.used) : d.used[n].id = k})
View(d, k) ==
  LET issued == Cardinality({n \in Notes : d.promise[n] = k})
  IN IF issued > 0 THEN issued - Redeemed(d, k) ELSE 0
m027(d) == [d EXCEPT !.balance = [k \in d.keysets |-> View(d, k)]]

\* the outputs of a pending melt quote become promises without a signature,
\* unless a promise for them is there
m028(d) ==
  IF d.melt.state # "PENDING" THEN [d EXCEPT !.melt.outputs = Null]
  ELSE [d EXCEPT !.blanks = {d.melt.outputs} \ {"promised", Null}, !.melt.outputs = Null]

\* paid and issued are dropped: the state is what is left of them
m032(d) == [d EXCEPT !.mint.paid = FALSE, !.mint.issued = FALSE]

Migrated(v, d) ==
  CASE v = 11 -> m011(d) [] v = 12 -> m012(d) [] v = 13 -> m013(d) [] v = 14 -> m014(d)
    [] v = 16 -> m016(d) [] v = 18 -> m018(d) [] v = 20 -> m020(d) [] v = 22 -> m022(d)
    [] v = 26 -> m026(d) [] v = 27 -> m027(d) [] v = 28 -> m028(d) [] v = 32 -> m032(d)
    [] OTHER -> d

\* Migrations that can be run again: indices and updates; 16 drops its tables in
\* a transaction of its own.  The others add a column or enter rows a second time.
Rerunnable == {12, 13, 15, 16, 22, 26, 29, 30, 32}

\* what makes a migration raise: its DDL is there already, the table it copies
\* is not, or the temporary table of migration 16 was created for no spent note
Raises(v) ==
  \/ v \in dirty \ Rerunnable
  \/ v \in {12, 13} /\ keysetsTable = "gone"
  \/ v = 32 /\ db.quotesNew
  \/ v = 16 /\ Present(db.pending) # {} /\ Present(db.used) = {}
  \/ v = 26 /\ "hex" \notin db.keysets
     /\ \E n \in Notes : db.promise[n] = "null" \/ (db.used[n] # Null /\ db.used[n].id = "null")
                         \/ (db.pending[n] # Null /\ db.pending[n].id = "null")
  \/ Migrated(v, db).fails

----------------------------------------------------------------------------
(* migrate_databases.                                                       *)

OpenDatabase ==
  /\ opening = "down"
  /\ opening' = IF version = Latest THEN "up" ELSE "migrate"
  /\ UNCHANGED <<db, keysetsTable, was, dbType, version, dirty>>

\* a migration whose transaction commits, or raises: the start fails, and will
\* fail again
Migrate ==
  /\ opening = "migrate"
  /\ LET v == version + 1
     IN IF Raises(v)
        THEN /\ opening' = "stuck"
             \* the copy of a copy that was torn is dropped first
             /\ db' = IF v \in {12, 13} THEN [db EXCEPT !.keysetsOld = {}] ELSE db
             /\ UNCHANGED dirty
        ELSE db' = Migrated(v, db) /\ dirty' = dirty \cup {v} /\ opening' = "record"
  /\ UNCHANGED <<keysetsTable, was, dbType, version>>

\* set_migration_version
Record ==
  /\ opening = "record"
  /\ version' = version + 1
  /\ opening' = IF version' = Latest THEN "up" ELSE "migrate"
  /\ UNCHANGED <<db, keysetsTable, was, dbType, dirty>>

Die ==
  /\ opening \in {"migrate", "record"} /\ opening' = "down"
  /\ UNCHANGED <<db, keysetsTable, was, dbType, version, dirty>>

\* SQLite's driver opens a transaction at the first INSERT, UPDATE or DELETE: the
\* DDL before it is committed at once.  Migration 20 adds its columns in a
\* transaction of their own.
DieAfterDdl ==
  /\ opening = "migrate" /\ ~Raises(version + 1)
  /\ dbType = "SQLITE" \/ version + 1 = 20
  /\ opening' = "down"
  /\ dirty' = dirty \cup ({version + 1} \ {17, 18, 28})
  /\ \/ UNCHANGED <<db, keysetsTable>>
     \* the copy is made; the table is dropped; the new one is created, and a later
     \* run drops the copy and copies the new one
     \/ /\ version + 1 \in {12, 13}
        /\ \/ db' = [db EXCEPT !.keysetsOld = db.keysets] /\ UNCHANGED keysetsTable
           \/ /\ db' = [db EXCEPT !.keysetsOld = db.keysets, !.keysets = {}]
              /\ keysetsTable' \in {"gone", "emptied"}
     \/ version + 1 = 32 /\ db' = [db EXCEPT !.quotesNew = TRUE] /\ UNCHANGED keysetsTable
  /\ UNCHANGED <<was, dbType, version>>

----------------------------------------------------------------------------
(* What an old version may have left.                                       *)

\* the flags and the state of a quote, as versions 11, 20 and 22 left them
MintQuotesOf(v) ==
  LET of(paid, issued, name) == [paid |-> paid, issued |-> issued,
        state |-> CASE v < 20 -> Null [] v \in 20 .. 21 -> name [] OTHER -> ValueOf(name)]
  IN {of(FALSE, FALSE, "unpaid"), of(TRUE, FALSE, "paid"), of(TRUE, TRUE, "issued")}
     \cup (IF v < 20 THEN {of(FALSE, TRUE, "issued")} ELSE {})
MeltQuotesOf(v) ==
  LET of(paid, name, outputs) == [paid |-> paid, outputs |-> outputs,
        state |-> CASE v < 20 -> Null [] v \in 20 .. 21 -> name [] OTHER -> ValueOf(name)]
  IN {of(FALSE, "unpaid", Null), of(TRUE, "paid", Null)}
     \cup (IF v \in 24 .. 27 THEN {of(FALSE, "pending", o) : o \in {Null, "blank", "promised"}} ELSE {})

\* a note is spent, or pending, or neither
RowsOf(v, Ids) ==
  LET y == CASE v < 14 -> "none" [] v \in 14 .. 15 -> "old" [] OTHER -> "new"
      row == {Null} \cup {[y |-> y, id |-> k] : k \in Ids}
  IN [Notes -> {p \in row \X row : Null \in {p[1], p[2]}}]

OldDatabase(v) ==
  UNION {LET Ids == ks \cup (IF v < 26 THEN {"null"} ELSE {}) IN
     {[used |-> [n \in Notes |-> rows[n][1]], pending |-> [n \in Notes |-> rows[n][2]],
       promise |-> promise, keysets |-> ks, keysetsOld |-> {}, quotesNew |-> FALSE,
       balance |-> [k \in ks |-> 0], mint |-> mint, melt |-> melt, blanks |-> {}, fails |-> FALSE] :
        rows \in RowsOf(v, Ids), promise \in [Notes -> Ids],
        mint \in MintQuotesOf(v), melt \in MeltQuotesOf(v)}
     : ks \in IF v >= 18 THEN {{"b64", "hex"}} ELSE {{"b64"}, {"hex"}}}

MigrationsInit ==
  /\ version \in OldVersions /\ dbType \in {"SQLITE", "POSTGRES"}
  /\ db \in OldDatabase(version) /\ was = db
  /\ dirty = {} /\ opening = "down" /\ keysetsTable = "whole"

MigrationsNext == OpenDatabase \/ Migrate \/ Record \/ Die \/ DieAfterDdl
MigrationsSpec == MigrationsInit /\ [][MigrationsNext]_migrationVars

----------------------------------------------------------------------------
(* Properties.                                                              *)

\* An upgrade keeps what the mint owes, wherever the process dies in it.
\* A note that was spent is found spent by the point that is looked up now, and
\* a quote whose ecash was issued does not become one that may be issued again.
\* But when the process died in SQLite between the creation of the new table of
\* keysets and its first row, in migration 12 or 13, the keysets are lost: else
\* they are there under both ids, and the balances that every later signature and
\* redemption is added to are what was issued less what was spent, whatever the
\* rows without a keyset were given: where no keyset has spent notes and no
\* promise, which the view leaves out.
UpgradeLosesNothing ==
  opening = "up" =>
    /\ \A n \in Present(was.used) : db.used[n] # Null /\ db.used[n].y = "new"
    /\ was.mint.issued \/ was.mint.state \in {"issued", "ISSUED"} => db.mint.state = "ISSUED"
    /\ was.melt.paid => db.melt.state = "PAID"
    /\ keysetsTable = "whole" => db.keysets = {"b64", "hex"}
    /\ /\ keysetsTable = "whole"
       /\ \A n \in Present(was.used) : \E p \in Notes : was.promise[p] = was.used[n].id
       => LET of(k) == IF k \in db.keysets THEN db.balance[k] ELSE 0
          IN of("b64") + of("hex") = Cardinality(Notes) - Cardinality(Present(was.used))

\* m012: "and copy the data from keysets_old to keysets, then drop keysets_old".
\* That the keysets are there after every upgrade does not hold.
KeysetsAreCopied == opening = "up" => db.keysets # {}

\* m016: "get all proofs_used and proofs_pending from the database and compute Y
\* for each of them".  A pending note is found pending after the upgrade.
PendingStaysPending ==
  opening = "up" => \A n \in Present(was.pending) : db.pending[n].y = "new"

=============================================================================
