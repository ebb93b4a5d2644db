----------------------------- MODULE StateDatabase -----------------------------
(***************************************************************************)
(* The SQLite stores of the transfer queue and of the settings              *)
(* (session_salixorm.py, settings_salixorm.py), and the rule by which a     *)
(* JSON file of an earlier version stands in for a database that has        *)
(* nothing yet.  A database is                                              *)
(*   tables    the application's tables that exist,                         *)
(*   revision  the newest in the migration ledger, "empty" for a ledger     *)
(*             without one, "none" without a ledger,                        *)
(*   meta      the metadata row: "none", "ok" or "bad",                     *)
(*   rows      what the rows say: Nothing, Bad, or a value of the store.    *)
(***************************************************************************)
CONSTANTS
  Nothing, Bad,         \* no value; one that cannot be read
  Lineage               \* revisions this program knows: both, or the newest

Tables == {"meta", "rows"}

Newest == "r2"

NoDatabase == [tables |-> {}, revision |-> "none", meta |-> "none", rows |-> Nothing]

(* _schema_state.                                                            *)
SchemaState(db) ==
  IF db.tables = {}
  THEN CASE db.revision = "none" -> "empty"
         [] db.revision = "empty" -> "ledger_only"
         [] OTHER -> "refused"            \* migrated, but the tables are gone
  ELSE IF db.tables = Tables /\ db.revision \in Lineage THEN "initialized" ELSE "refused"

(* _ensure_schema: missing tables are created, older ones migrated; what the *)
(* rows say survives a migration.                                            *)
Migrated(db) == [db EXCEPT !.tables = Tables, !.revision = Newest]

(* load: Nothing, Bad for a database that is refused, or the value.          *)
DatabaseLoad(db) ==
  IF SchemaState(db) = "refused" THEN Bad
  ELSE IF SchemaState(db) /= "initialized" THEN Nothing
  ELSE IF db.meta = "none" THEN IF db.rows = Nothing THEN Nothing ELSE Bad
  ELSE IF db.meta = "bad" THEN Bad ELSE db.rows

(* A load migrates the database before it reads the rows.                    *)
AfterLoad(db) == IF SchemaState(db) = "initialized" THEN Migrated(db) ELSE db

(* save replaces every row in one transaction, unless the schema or the      *)
(* metadata is refused.                                                      *)
Savable(db) == SchemaState(db) /= "refused" /\ db.meta /= "bad"
AfterSave(db, value) == [Migrated(db) EXCEPT !.meta = "ok", !.rows = value]

(* FallbackSessionStateStore, FallbackAppSettingsStore.                      *)
WithFallback(primary, fallback) == IF primary = Nothing THEN fallback ELSE primary

(* Databases a launch may find.                                              *)
Databases(values) ==
  {NoDatabase, [NoDatabase EXCEPT !.revision = "empty"],
   [NoDatabase EXCEPT !.revision = Newest],
   [NoDatabase EXCEPT !.tables = {"meta"}, !.revision = Newest],
   [NoDatabase EXCEPT !.tables = Tables, !.revision = "r9"]}
  \cup [tables : {Tables}, revision : {"r1", Newest}, meta : {"none", "ok", "bad"},
         rows : values \cup {Nothing, Bad}]
================================================================================
