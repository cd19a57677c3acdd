------------------------------ MODULE Conversion ------------------------------
(* sqlite_to_postgres: the tables of a mint are copied from SQLite to an     *)
(* empty Postgres database, table after table and batch after batch, and     *)
(* counted in the end.  The mint may still run on SQLite meanwhile.  Of its  *)
(* tables there are three, in the order of the copy; a row is a note.        *)
EXTENDS Integers, FiniteSets, Sequences

CONSTANTS NoteRows,   \* the notes
          BatchSize,  \* rows that are committed together
          DeathsMax   \* bound: how often the conversion dies

ASSUME ConversionAssumption ==
  IsFiniteSet(NoteRows) /\ BatchSize \in Nat \ {0} /\ DeathsMax \in Nat

Ordered == <<"promises", "proofs_used", "proofs_pending">>
Tables == {Ordered[i] : i \in DOMAIN Ordered}

VARIABLES
    sqlite,     \* Tables -> rows
    postgres,   \* Tables -> rows; without a schema they count as empty
    mintRuns,   \* whether the mint runs on SQLite
    converting, \* the step, the number of the table, and the rows still to copy
    report,     \* what the conversion has printed: "none", "refused", "success"
                \* or "warnings"
    counted,    \* whether all tables that were counted had as many rows
    conversionDeaths,
    quiet,      \* history: the mint did not run while the tables were copied
    usedWhenCounted  \* history: proofs_used when it was counted

converterVars == <<converting, report, counted, conversionDeaths, quiet, usedWhenCounted>>
conversionVars == <<sqlite, postgres, mintRuns, converterVars>>

Empty == [t \in Tables |-> {}]
NotConverting == [at |-> "none", table |-> 1, left |-> {}]

ConversionInit ==
    /\ sqlite = Empty /\ postgres = Empty /\ mintRuns = TRUE
    /\ converting = NotConverting /\ report = "none" /\ counted = TRUE
    /\ conversionDeaths = 0 /\ quiet = FALSE /\ usedWhenCounted = {}

(* ------------------------------- the mint ------------------------------- *)

UnspentRow(n) == n \in sqlite["promises"] \ (sqlite["proofs_used"] \union sqlite["proofs_pending"])
MintWrites(db) == mintRuns /\ sqlite' = db /\ UNCHANGED <<postgres, mintRuns, converterVars>>

RowIssued(n) ==
    n \notin sqlite["promises"] /\ MintWrites([sqlite EXCEPT !["promises"] = @ \union {n}])
RowPending(n) ==
    UnspentRow(n) /\ MintWrites([sqlite EXCEPT !["proofs_pending"] = @ \union {n}])
RowSpent(n) ==
    /\ n \in sqlite["proofs_pending"]
    /\ MintWrites([sqlite EXCEPT !["proofs_used"] = @ \union {n}, !["proofs_pending"] = @ \ {n}])
RowReleased(n) ==
    /\ n \in sqlite["proofs_pending"]
    /\ MintWrites([sqlite EXCEPT !["proofs_pending"] = @ \ {n}])
StopMint ==
    /\ mintRuns /\ mintRuns' = FALSE
    /\ UNCHANGED <<sqlite, postgres, converterVars>>

(* ---------------------------- the conversion ---------------------------- *)

Table == Ordered[converting.table]
Unreported == UNCHANGED <<report, counted, conversionDeaths, quiet, usedWhenCounted>>
Populated == \E t \in Tables : postgres[t] # {}

(* _precheck_postgres_populated, before there is a schema, and               *)
(* _ensure_target_schema.                                                    *)
PreCheck ==
    /\ converting.at = "none"
    /\ IF Populated
       THEN report' = "refused" /\ UNCHANGED <<converting, quiet>>
       ELSE /\ converting' = [NotConverting EXCEPT !.at = "copy"]
            /\ report' = "none" /\ quiet' = ~mintRuns
    /\ counted' = TRUE
    /\ UNCHANGED <<sqlite, postgres, mintRuns, conversionDeaths, usedWhenCounted>>

(* The SELECT on a table, which keeps its snapshot over the batches.         *)
SelectTable ==
    /\ converting.at = "copy"
    /\ converting' = [converting EXCEPT !.at = "batches", !.left = sqlite[Table]]
    /\ Unreported /\ UNCHANGED <<sqlite, postgres, mintRuns>>

\* INSERT ... ON CONFLICT DO NOTHING, one transaction for each batch
CopyBatch ==
    /\ converting.at = "batches" /\ converting.left # {}
    /\ \E batch \in SUBSET converting.left :
         /\ Cardinality(batch) = IF Cardinality(converting.left) < BatchSize
                                 THEN Cardinality(converting.left) ELSE BatchSize
         /\ postgres' = [postgres EXCEPT ![Table] = @ \union batch]
         /\ converting' = [converting EXCEPT !.left = @ \ batch]
    /\ Unreported /\ UNCHANGED <<sqlite, mintRuns>>

NextTable(after) ==
    converting' = IF converting.table < Len(Ordered)
                  THEN [converting EXCEPT !.table = @ + 1, !.at = IF after = "counts" THEN "count" ELSE "copy"]
                  ELSE [converting EXCEPT !.table = 1, !.at = after]
TableCopied ==
    /\ converting.at = "batches" /\ converting.left = {}
    /\ NextTable("count")
    /\ Unreported /\ UNCHANGED <<sqlite, postgres, mintRuns>>

(* The verification counts one table after the other, on both sides.         *)
CountTable ==
    /\ converting.at = "count"
    /\ counted' = (counted /\ Cardinality(sqlite[Table]) = Cardinality(postgres[Table]))
    /\ usedWhenCounted' = IF Table = "proofs_used" THEN sqlite[Table] ELSE usedWhenCounted
    /\ NextTable("counts")
    /\ UNCHANGED <<sqlite, postgres, mintRuns, report, conversionDeaths, quiet>>

Balance(db) == Cardinality(db["promises"]) - Cardinality(db["proofs_used"])
(* Mutant of Report: the counts are printed, and nothing more.               *)
ReportByBalance ==
    /\ converting.at = "counts"
    /\ report' = IF Balance(sqlite) = Balance(postgres) THEN "success" ELSE "warnings"
    /\ converting' = NotConverting
    /\ UNCHANGED <<sqlite, postgres, mintRuns, counted, conversionDeaths, quiet, usedWhenCounted>>
(* _compare_balance_views, and what is printed then.                         *)
Report ==
    /\ converting.at = "counts"
    /\ report' = IF counted /\ Balance(sqlite) = Balance(postgres) THEN "success" ELSE "warnings"
    /\ converting' = NotConverting
    /\ UNCHANGED <<sqlite, postgres, mintRuns, counted, conversionDeaths, quiet, usedWhenCounted>>

(* The program dies, or one of its statements raises.                        *)
ConversionDies ==
    /\ converting.at # "none" /\ conversionDeaths < DeathsMax
    /\ converting' = NotConverting /\ conversionDeaths' = conversionDeaths + 1
    /\ UNCHANGED <<sqlite, postgres, mintRuns, report, counted, quiet, usedWhenCounted>>
\* the operator drops the schema, as the refusal proposes
ResetPostgres ==
    /\ report = "refused" /\ converting.at = "none"
    /\ postgres' = Empty /\ report' = "none"
    /\ UNCHANGED <<sqlite, mintRuns, converting, counted, conversionDeaths, quiet, usedWhenCounted>>

ConversionNext ==
    \/ \E n \in NoteRows : RowIssued(n) \/ RowPending(n) \/ RowSpent(n) \/ RowReleased(n)
    \/ StopMint
    \/ PreCheck \/ SelectTable \/ CopyBatch \/ TableCopied \/ CountTable \/ Report
    \/ ConversionDies \/ ResetPostgres

ConversionSpec == ConversionInit /\ [][ConversionNext]_conversionVars

(* ------------------------------- properties ------------------------------ *)

(* "Migration successful" is printed only if every note that was spent when  *)
(* proofs_used was counted is spent in Postgres, although the mint may have  *)
(* run and the conversion may have died and been run again; and only if the  *)
(* tables are the same, when the mint was stopped before                     *)
(* (migrate_sqlite_to_postgres).                                             *)
SuccessLosesNothing ==
    report = "success" =>
        /\ postgres["proofs_used"] = usedWhenCounted
        /\ quiet => postgres = sqlite
=============================================================================
