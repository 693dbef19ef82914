-------------------------- MODULE SchemaMigration --------------------------
(***************************************************************************)
(* db::init: what gateway-cp does to its database before it serves.        *)
(* Databases of earlier versions have a table of policies with config_json *)
(* alone; three columns are added to it, and default_config_json is filled *)
(* from config_json.                                                       *)
(*                                                                         *)
(* Every statement commits by itself, there is no transaction around them, *)
(* and a process can die between any two.  Starters are the processes that *)
(* start on one database: one that is restarted, or a second one that is   *)
(* started before the first is gone.                                       *)
(***************************************************************************)
EXTENDS Naturals, Sequences

CONSTANTS
  Starters,
  Keys,          \* primary keys of policies
  Texts,         \* what a configuration column may hold
  Blank,         \* the texts "null" and ""
  EmptyObject,   \* the text "{}"
  Objects,       \* texts of the JSON objects that create_policy accepts
  NoText,        \* the value of a column that does not exist
  NoRow,
  MaxDeaths      \* bound: processes that die

ASSUME MigrationConstants ==
  /\ Blank \subseteq Texts
  /\ Objects \subseteq Texts \ Blank
  /\ EmptyObject \in Texts \ Blank
  /\ NoText \notin Texts
  /\ NoRow \notin [config : Texts, default : Texts \cup {NoText}]
  /\ MaxDeaths \in Nat

VARIABLES
  tables,    \* the tables that exist
  columns,   \* those of NewColumns that table policies has
  rows,      \* table policies: key -> row or NoRow
  pc,        \* what a starter does next
  column,    \* the number of the column it does it to
  deaths

vars == <<tables, columns, rows, pc, column, deaths>>

NewColumns == <<"supported_stages_json", "config_schema_json",
                "default_config_json">>
AllColumns == {NewColumns[c] : c \in 1..3}

Rows == [config : Texts, default : Texts \cup {NoText}]

\* No database yet, or one that the previous version left.
Init ==
  /\ \/ tables = {} /\ rows = [k \in Keys |-> NoRow]
     \/ /\ tables = {"policies", "routes"}
        /\ rows \in [Keys -> [config : Texts, default : {NoText}] \cup {NoRow}]
  /\ columns = {}
  /\ pc = [p \in Starters |-> "down"]
  /\ column = [p \in Starters |-> 1]
  /\ deaths = 0

Goto(p, label) ==
  /\ pc' = [pc EXCEPT ![p] = label]
  /\ UNCHANGED <<column, deaths>>

Begin(p) ==
  /\ pc[p] = "down"
  /\ pc' = [pc EXCEPT ![p] = "create"]
  /\ column' = [column EXCEPT ![p] = 1]
  /\ UNCHANGED <<tables, columns, rows, deaths>>

\* CREATE TABLE IF NOT EXISTS policies, which has all columns when it is new.
CreatePolicies(p) ==
  /\ pc[p] = "create"
  /\ IF "policies" \in tables
       THEN UNCHANGED <<tables, columns>>
       ELSE /\ tables' = tables \cup {"policies"}
            /\ columns' = AllColumns
  /\ Goto(p, "check")
  /\ UNCHANGED rows

\* Mutant of CheckColumn: the backfill belongs to adding the last column.
CheckAndSkip(p) ==
  /\ pc[p] = "check"
  /\ IF column[p] > 3 THEN Goto(p, "backfill")
     ELSE IF NewColumns[column[p]] \notin columns THEN Goto(p, "alter")
     ELSE IF column[p] = 3 THEN Goto(p, "routes")
     ELSE /\ column' = [column EXCEPT ![p] = @ + 1]
          /\ UNCHANGED <<pc, deaths>>
  /\ UNCHANGED <<tables, columns, rows>>

\* Mutant of CheckColumn: no check.
CheckNothing(p) ==
  /\ pc[p] = "check"
  /\ Goto(p, IF column[p] > 3 THEN "backfill" ELSE "alter")
  /\ UNCHANGED <<tables, columns, rows>>

\* column_exists.
CheckColumn(p) ==
  /\ pc[p] = "check"
  /\ IF column[p] > 3 THEN Goto(p, "backfill")
     ELSE IF NewColumns[column[p]] \notin columns THEN Goto(p, "alter")
     ELSE /\ column' = [column EXCEPT ![p] = @ + 1]
          /\ UNCHANGED <<pc, deaths>>
  /\ UNCHANGED <<tables, columns, rows>>

\* Mutant of AddColumn: the last column comes without a default.
AddColumnBare(p) ==
  /\ pc[p] = "alter"
  /\ NewColumns[column[p]] \notin columns
  /\ columns' = columns \cup {NewColumns[column[p]]}
  /\ pc' = [pc EXCEPT ![p] = "check"]
  /\ column' = [column EXCEPT ![p] = @ + 1]
  /\ UNCHANGED <<tables, rows, deaths>>

\* ALTER TABLE policies ADD COLUMN ... DEFAULT.
AddColumn(p) ==
  /\ pc[p] = "alter"
  /\ NewColumns[column[p]] \notin columns
  /\ columns' = columns \cup {NewColumns[column[p]]}
  /\ rows' = IF column[p] = 3
               THEN [k \in Keys |-> IF rows[k] = NoRow THEN NoRow
                                    ELSE [rows[k] EXCEPT !.default = EmptyObject]]
               ELSE rows
  /\ pc' = [pc EXCEPT ![p] = "check"]
  /\ column' = [column EXCEPT ![p] = @ + 1]
  /\ UNCHANGED <<tables, deaths>>

\* Somebody else has added it since: the start fails.
ColumnIsThere(p) ==
  /\ pc[p] = "alter"
  /\ NewColumns[column[p]] \in columns
  /\ Goto(p, "down")
  /\ UNCHANGED <<tables, columns, rows>>

\* UPDATE policies SET default_config_json = config_json WHERE ...
Fillable(row) ==
  /\ row # NoRow
  /\ row.default \in Blank \cup {EmptyObject}
  /\ row.config \notin Blank

Backfill(p) ==
  /\ pc[p] = "backfill"
  /\ rows' = [k \in Keys |-> IF Fillable(rows[k])
                               THEN [rows[k] EXCEPT !.default = rows[k].config]
                               ELSE rows[k]]
  /\ Goto(p, "routes")
  /\ UNCHANGED <<tables, columns>>

CreateRoutes(p) ==
  /\ pc[p] = "routes"
  /\ tables' = tables \cup {"routes"}
  /\ Goto(p, "serving")
  /\ UNCHANGED <<columns, rows>>

\* db::insert_policy writes the default to both columns.
InsertPolicy(p, k, text) ==
  /\ pc[p] = "serving"
  /\ rows[k] = NoRow
  /\ rows' = [rows EXCEPT ![k] = [config |-> text, default |-> text]]
  /\ UNCHANGED <<tables, columns, pc, column, deaths>>

Die(p) ==
  /\ pc[p] # "down"
  /\ deaths < MaxDeaths
  /\ deaths' = deaths + 1
  /\ pc' = [pc EXCEPT ![p] = "down"]
  /\ UNCHANGED <<tables, columns, rows, column>>

Proceed(p) ==
  \/ Begin(p) \/ CreatePolicies(p) \/ CheckColumn(p)
  \/ AddColumn(p) \/ ColumnIsThere(p)
  \/ Backfill(p) \/ CreateRoutes(p)

Next ==
  \E p \in Starters :
    \/ Proceed(p)
    \/ \E k \in Keys, text \in Objects : InsertPolicy(p, k, text)
    \/ Die(p)

Spec == Init /\ [][Next]_vars

\* The runtime goes on with a start, and a process that ended is started again.
FairSpec == Spec /\ \A p \in Starters : WF_vars(Proceed(p))

-----------------------------------------------------------------------------
(* Properties *)

\* The types; a row has a default exactly when there is a column for it.
TypeOK ==
  /\ tables \subseteq {"policies", "routes"}
  /\ columns \subseteq AllColumns
  /\ rows \in [Keys -> Rows \cup {NoRow}]
  /\ \A k \in Keys :
       rows[k] # NoRow =>
         (rows[k].default = NoText <=> "default_config_json" \notin columns)
  /\ pc \in [Starters -> {"down", "create", "check", "alter", "backfill",
                          "routes", "serving"}]
  /\ column \in [Starters -> 1..4]
  /\ deaths \in 0..MaxDeaths

\* The default that belongs to a configuration: itself, or "{}" when there
\* was none.
Migrated(row) ==
  row.default = IF row.config \in Blank THEN EmptyObject ELSE row.config

\* A process that serves finds both tables, all columns, and in every row the
\* configuration that the policy was registered with, whatever starts died
\* before and whoever starts at the same time.
ServesMigrated ==
  (\E p \in Starters : pc[p] = "serving") =>
    /\ tables = {"policies", "routes"}
    /\ columns = AllColumns
    /\ \A k \in Keys : rows[k] # NoRow => Migrated(rows[k])

\* Every process gets to serve in the end, although starts that race for a
\* column fail.
EveryStartSucceeds == \A p \in Starters : <>[](pc[p] = "serving")
=============================================================================
