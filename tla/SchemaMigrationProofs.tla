----------------------- MODULE SchemaMigrationProofs -----------------------
(***************************************************************************)
(* That db::init leaves a migrated database to every process that serves,  *)
(* for any number of processes, rows and deaths.                           *)
(***************************************************************************)
EXTENDS SchemaMigration, TLAPS

\* How far a start is, by what it does next.
Reached(p) ==
  /\ pc[p] \notin {"down", "create"} => "policies" \in tables
  /\ pc[p] = "create" => column[p] = 1
  /\ pc[p] \in {"check", "alter"} =>
       \A c \in 1..3 : c < column[p] => NewColumns[c] \in columns
  /\ pc[p] = "alter" => column[p] <= 3
  /\ pc[p] \in {"backfill", "routes", "serving"} => columns = AllColumns
  /\ pc[p] \in {"routes", "serving"} =>
       \A k \in Keys : rows[k] # NoRow => Migrated(rows[k])
  /\ pc[p] = "serving" => "routes" \in tables

\* What a row's default may be while the migration runs.
RowSound(row) == row.default = EmptyObject \/ Migrated(row)

\* The state of the migration is what its starts have reached; what is left
\* to do in a row can be told from the row.
MigrationInv ==
  /\ TypeOK
  /\ \A p \in Starters : Reached(p)
  /\ "policies" \notin tables => \A k \in Keys : rows[k] = NoRow
  /\ "default_config_json" \in columns =>
       \A k \in Keys : rows[k] # NoRow => RowSound(rows[k])

\* The three columns by their numbers.
LEMMA TheColumns ==
  /\ NewColumns[1] = "supported_stages_json"
  /\ NewColumns[2] = "config_schema_json"
  /\ NewColumns[3] = "default_config_json"
  /\ \A c \in 1..3 : NewColumns[c] \in AllColumns
  /\ \A c \in 1..3 : NewColumns[c] = "default_config_json" <=> c = 3
  /\ "default_config_json" \in AllColumns
  /\ \A S \in SUBSET AllColumns :
       (\A c \in 1..3 : NewColumns[c] \in S) => S = AllColumns
BY DEF NewColumns, AllColumns

\* A database that is not there, or that the previous version left.
LEMMA InitMigration == Init => MigrationInv
<1> SUFFICES ASSUME Init PROVE MigrationInv
  OBVIOUS
<1>1. TypeOK
  BY TheColumns, MigrationConstants
  DEF Init, TypeOK, Rows, AllColumns
<1>2. \A p \in Starters : Reached(p)
  BY DEF Init, Reached
<1>. QED
  BY <1>1, <1>2, TheColumns DEF Init, MigrationInv

\* A step that moves one starter and leaves the database alone.
LEMMA OnlyStarter ==
  ASSUME MigrationInv, NEW p \in Starters,
         UNCHANGED <<tables, columns, rows>>,
         NEW label, pc' = [pc EXCEPT ![p] = label],
         label \in {"down", "create", "check", "alter", "backfill",
                    "routes", "serving"},
         NEW c \in 1..4, column' = [column EXCEPT ![p] = c],
         deaths' \in 0..MaxDeaths,
         Reached(p)'
  PROVE  MigrationInv'
<1>1. TypeOK'
  BY DEF MigrationInv, TypeOK
<1>2. ASSUME NEW q \in Starters, q # p PROVE Reached(q)'
  BY <1>2 DEF MigrationInv, TypeOK, Reached, Migrated
<1>. QED
  BY <1>1, <1>2 DEF MigrationInv, RowSound, Migrated

\* The same when its column stays what it is.
LEMMA OnlyLabel ==
  ASSUME MigrationInv, NEW p \in Starters,
         UNCHANGED <<tables, columns, rows, column>>,
         NEW label, pc' = [pc EXCEPT ![p] = label],
         label \in {"down", "create", "check", "alter", "backfill",
                    "routes", "serving"},
         deaths' \in 0..MaxDeaths,
         Reached(p)'
  PROVE  MigrationInv'
<1>1. column[p] \in 1..4 /\ column' = [column EXCEPT ![p] = column[p]]
  BY DEF MigrationInv, TypeOK
<1>. QED
  BY <1>1, OnlyStarter

\* Begin: nothing is reached yet.
LEMMA BeginKeeps ==
  ASSUME MigrationInv, NEW p \in Starters, Begin(p)
  PROVE  MigrationInv'
<1>1. Reached(p)'
  BY DEF Begin, MigrationInv, TypeOK, Reached
<1>2. 1 \in 1..4 /\ deaths' \in 0..MaxDeaths
  BY DEF Begin, MigrationInv, TypeOK
<1>. QED
  BY <1>1, <1>2, OnlyStarter DEF Begin

\* CreatePolicies: a new table has all columns, no row, and nobody yet who is
\* past its creation.
LEMMA CreatePoliciesKeeps ==
  ASSUME MigrationInv, NEW p \in Starters, CreatePolicies(p)
  PROVE  MigrationInv'
<1>0. /\ pc' = [pc EXCEPT ![p] = "check"]
      /\ UNCHANGED <<rows, column, deaths>>
      /\ pc \in [Starters -> {"down", "create", "check", "alter", "backfill",
                              "routes", "serving"}]
  BY DEF CreatePolicies, Goto, MigrationInv, TypeOK
<1>0a. pc[p] = "create" /\ column[p] = 1
  BY DEF CreatePolicies, MigrationInv, Reached
<1>0b. pc'[p] = "check" /\ \A q \in Starters : q # p => pc'[q] = pc[q]
  BY <1>0
<1>1. CASE "policies" \in tables
  <2>1. UNCHANGED <<tables, columns, rows>>
    BY <1>1 DEF CreatePolicies
  <2>2. Reached(p)'
    BY <1>0, <1>0a, <1>0b, <1>1, <2>1 DEF MigrationInv, Reached
  <2>. QED
    BY <1>0, <2>1, <2>2, OnlyLabel DEF MigrationInv, TypeOK
<1>2. CASE "policies" \notin tables
  <2>1. tables' = tables \cup {"policies"} /\ columns' = AllColumns
    BY <1>2 DEF CreatePolicies
  <2>2. \A k \in Keys : rows'[k] = NoRow
    BY <1>0, <1>2 DEF MigrationInv
  <2>3. TypeOK'
    BY <1>0, <2>1, <2>2 DEF MigrationInv, TypeOK
  <2>4. Reached(p)'
    BY <1>0, <1>0a, <1>0b, <2>1, TheColumns DEF Reached
  <2>5. ASSUME NEW q \in Starters, q # p PROVE Reached(q)'
    BY <1>0, <1>0a, <1>0b, <1>2, <2>5 DEF MigrationInv, Reached
  <2>. QED
    BY <2>1, <2>2, <2>3, <2>4, <2>5 DEF MigrationInv
<1>. QED
  BY <1>1, <1>2

\* CheckColumn: one column more is known to exist, or the one to add is named.
LEMMA CheckColumnKeeps ==
  ASSUME MigrationInv, NEW p \in Starters, CheckColumn(p)
  PROVE  MigrationInv'
<1>0. /\ pc[p] = "check" /\ column[p] \in 1..4 /\ column \in [Starters -> 1..4]
      /\ pc \in [Starters -> {"down", "create", "check", "alter", "backfill",
                              "routes", "serving"}]
      /\ UNCHANGED <<tables, columns, rows, deaths>>
      /\ deaths \in 0..MaxDeaths
      /\ "policies" \in tables
      /\ columns \subseteq AllColumns
      /\ \A c \in 1..3 : c < column[p] => NewColumns[c] \in columns
  BY DEF CheckColumn, Goto, MigrationInv, TypeOK, Reached
<1>1. CASE column[p] > 3
  <2>1. pc' = [pc EXCEPT ![p] = "backfill"] /\ column' = column
    BY <1>1 DEF CheckColumn, Goto
  <2>2. columns = AllColumns
    BY <1>0, <1>1, TheColumns
  <2>3. Reached(p)'
    BY <1>0, <2>1, <2>2 DEF Reached
  <2>. QED
    BY <1>0, <2>1, <2>3, OnlyLabel
<1>2. CASE column[p] <= 3 /\ NewColumns[column[p]] \notin columns
  <2>1. pc' = [pc EXCEPT ![p] = "alter"] /\ column' = column
    BY <1>0, <1>2 DEF CheckColumn, Goto
  <2>2. Reached(p)'
    BY <1>0, <1>2, <2>1 DEF Reached
  <2>. QED
    BY <1>0, <2>1, <2>2, OnlyLabel
<1>3. CASE column[p] <= 3 /\ NewColumns[column[p]] \in columns
  <2>1. pc' = pc /\ column' = [column EXCEPT ![p] = column[p] + 1]
    BY <1>0, <1>3 DEF CheckColumn
  <2>2. column[p] + 1 \in 1..4 /\ column'[p] = column[p] + 1
    BY <1>0, <1>3, <2>1
  <2>3. \A c \in 1..3 : c < column'[p] => NewColumns[c] \in columns
    BY <1>0, <1>3, <2>2
  <2>4. Reached(p)'
    BY <1>0, <2>1, <2>3 DEF Reached
  <2>5. pc' = [pc EXCEPT ![p] = "check"]
    BY <1>0, <2>1
  <2>. QED
    BY <1>0, <2>1, <2>2, <2>4, <2>5, OnlyStarter
<1>. QED
  BY <1>0, <1>1, <1>2, <1>3

\* ColumnIsThere: the start fails, the database is as it was.
LEMMA ColumnIsThereKeeps ==
  ASSUME MigrationInv, NEW p \in Starters, ColumnIsThere(p)
  PROVE  MigrationInv'
<1>1. Reached(p)'
  BY DEF ColumnIsThere, Goto, MigrationInv, TypeOK, Reached
<1>2. deaths' \in 0..MaxDeaths
  BY DEF ColumnIsThere, Goto, MigrationInv, TypeOK
<1>. QED
  BY <1>1, <1>2, OnlyLabel DEF ColumnIsThere, Goto

\* Die: a process that died has reached nothing.
LEMMA DieKeeps ==
  ASSUME MigrationInv, NEW p \in Starters, Die(p)
  PROVE  MigrationInv'
<1>1. Reached(p)'
  BY DEF Die, MigrationInv, TypeOK, Reached
<1>2. deaths' \in 0..MaxDeaths
  BY MigrationConstants DEF Die, MigrationInv, TypeOK
<1>. QED
  BY <1>1, <1>2, OnlyLabel DEF Die

\* AddColumn: the last column fills every row with "{}"; nobody can be past
\* it, and who is before it loses nothing.
LEMMA AddColumnKeeps ==
  ASSUME MigrationInv, NEW p \in Starters, AddColumn(p)
  PROVE  MigrationInv'
<1>0. /\ pc[p] = "alter" /\ column[p] \in 1..3
      /\ column \in [Starters -> 1..4]
      /\ pc \in [Starters -> {"down", "create", "check", "alter", "backfill",
                              "routes", "serving"}]
      /\ rows \in [Keys -> Rows \cup {NoRow}]
      /\ columns \subseteq AllColumns
      /\ tables' = tables /\ "policies" \in tables
      /\ \A c \in 1..3 : c < column[p] => NewColumns[c] \in columns
  BY DEF AddColumn, MigrationInv, TypeOK, Reached
<1>1. /\ NewColumns[column[p]] \in AllColumns \ columns
      /\ columns' = columns \cup {NewColumns[column[p]]}
      /\ pc' = [pc EXCEPT ![p] = "check"]
      /\ column' = [column EXCEPT ![p] = column[p] + 1]
  BY <1>0, TheColumns DEF AddColumn
<1>2. /\ pc'[p] = "check" /\ column'[p] = column[p] + 1
      /\ \A q \in Starters : q # p => pc'[q] = pc[q] /\ column'[q] = column[q]
      /\ column' \in [Starters -> 1..4]
      /\ pc' \in [Starters -> {"down", "create", "check", "alter", "backfill",
                               "routes", "serving"}]
  BY <1>0, <1>1
<1>3. Reached(p)'
  BY <1>0, <1>1, <1>2 DEF Reached
<1>4. ASSUME NEW q \in Starters, q # p PROVE Reached(q)'
  BY <1>0, <1>1, <1>2, <1>4 DEF MigrationInv, Reached
<1>5. /\ rows' \in [Keys -> Rows \cup {NoRow}]
      /\ \A k \in Keys : rows'[k] # NoRow =>
           /\ rows'[k].default = NoText <=> "default_config_json" \notin columns'
           /\ "default_config_json" \in columns' => RowSound(rows'[k])
  <2>1. CASE column[p] = 3
    <3>1. /\ rows' = [k \in Keys |->
                        IF rows[k] = NoRow THEN NoRow
                        ELSE [rows[k] EXCEPT !.default = EmptyObject]]
          /\ "default_config_json" \in columns'
      BY <1>1, <2>1, TheColumns DEF AddColumn
    <3>2. ASSUME NEW k \in Keys, rows[k] # NoRow
          PROVE  /\ rows'[k] \in Rows
                 /\ rows'[k].default = EmptyObject
      <4>1. rows[k] \in Rows
        BY <1>0, <3>2
      <4>2. rows'[k] = [rows[k] EXCEPT !.default = EmptyObject]
        BY <3>1, <3>2
      <4>. QED
        BY <4>1, <4>2, MigrationConstants DEF Rows
    <3>3. \A k \in Keys : rows[k] = NoRow => rows'[k] = NoRow
      BY <3>1
    <3>. QED
      BY <3>1, <3>2, <3>3, MigrationConstants DEF RowSound
  <2>2. CASE column[p] # 3
    <3>1. rows' = rows
      BY <2>2 DEF AddColumn
    <3>2. "default_config_json" \in columns' <=> "default_config_json" \in columns
      BY <1>0, <1>1, <2>2, TheColumns
    <3>. QED
      BY <1>0, <3>1, <3>2 DEF MigrationInv, TypeOK
  <2>. QED
    BY <2>1, <2>2
<1>6. TypeOK'
  BY <1>0, <1>1, <1>2, <1>5 DEF AddColumn, MigrationInv, TypeOK
<1>. QED
  BY <1>0, <1>3, <1>4, <1>5, <1>6 DEF MigrationInv

\* One row of the backfill: it comes out migrated, and keeps its type.
LEMMA BackfilledRow ==
  ASSUME NEW row \in Rows, RowSound(row),
         NEW filled,
         filled = IF Fillable(row) THEN [row EXCEPT !.default = row.config]
                  ELSE row
  PROVE  /\ filled \in Rows
         /\ Migrated(filled)
         /\ row.default # NoText => filled.default # NoText
<1>1. CASE Fillable(row)
  <2>1. /\ filled \in Rows /\ filled.default = row.config
        /\ filled.config = row.config
    BY <1>1 DEF Rows
  <2>2. row.config \in Texts \ Blank
    BY <1>1 DEF Fillable, Rows
  <2>. QED
    BY <2>1, <2>2, MigrationConstants DEF Migrated
<1>2. CASE ~Fillable(row)
  <2>1. filled = row
    BY <1>2
  <2>2. row # NoRow
    BY MigrationConstants DEF Rows
  <2>3. Migrated(row)
    BY <1>2, <2>2, MigrationConstants DEF Fillable, RowSound, Migrated
  <2>. QED
    BY <2>1, <2>3
<1>. QED
  BY <1>1, <1>2

\* Backfill: afterwards every row is migrated, whoever looks at it.
LEMMA BackfillKeeps ==
  ASSUME MigrationInv, NEW p \in Starters, Backfill(p)
  PROVE  MigrationInv'
<1>0. /\ pc[p] = "backfill" /\ columns = AllColumns
      /\ "policies" \in tables
      /\ pc \in [Starters -> {"down", "create", "check", "alter", "backfill",
                              "routes", "serving"}]
      /\ rows \in [Keys -> Rows \cup {NoRow}]
      /\ \A k \in Keys : rows[k] # NoRow =>
           rows[k].default # NoText /\ RowSound(rows[k])
  BY TheColumns DEF Backfill, MigrationInv, TypeOK, Reached
<1>1. /\ pc' = [pc EXCEPT ![p] = "routes"]
      /\ UNCHANGED <<tables, columns, column, deaths>>
      /\ rows' = [k \in Keys |-> IF Fillable(rows[k])
                                   THEN [rows[k] EXCEPT !.default = rows[k].config]
                                   ELSE rows[k]]
  BY DEF Backfill, Goto
<1>2. ASSUME NEW k \in Keys
      PROVE  /\ rows'[k] \in Rows \cup {NoRow}
             /\ rows[k] = NoRow <=> rows'[k] = NoRow
             /\ rows'[k] # NoRow => Migrated(rows'[k]) /\ rows'[k].default # NoText
  <2>0. rows'[k] = IF Fillable(rows[k])
                     THEN [rows[k] EXCEPT !.default = rows[k].config]
                     ELSE rows[k]
    BY <1>1
  <2>1. CASE rows[k] = NoRow
    BY <2>0, <2>1 DEF Fillable
  <2>2. CASE rows[k] # NoRow
    <3>1. rows[k] \in Rows
      BY <1>0, <2>2
    <3>2. /\ rows'[k] \in Rows /\ Migrated(rows'[k])
          /\ rows'[k].default # NoText
      BY <1>0, <2>0, <2>2, <3>1, BackfilledRow
    <3>3. rows'[k] # NoRow
      BY <3>2, MigrationConstants DEF Rows
    <3>. QED
      BY <2>2, <3>2, <3>3
  <2>. QED
    BY <2>1, <2>2
<1>3. rows' \in [Keys -> Rows \cup {NoRow}]
  BY <1>1, <1>2
<1>4. TypeOK'
  BY <1>0, <1>1, <1>2, <1>3, TheColumns DEF MigrationInv, TypeOK
<1>5. Reached(p)'
  BY <1>0, <1>1, <1>2 DEF Reached
<1>6. ASSUME NEW q \in Starters, q # p PROVE Reached(q)'
  BY <1>0, <1>1, <1>2, <1>6 DEF MigrationInv, Reached
<1>. QED
  BY <1>0, <1>1, <1>2, <1>4, <1>5, <1>6 DEF MigrationInv, RowSound

\* CreateRoutes: the second table is there for good.
LEMMA CreateRoutesKeeps ==
  ASSUME MigrationInv, NEW p \in Starters, CreateRoutes(p)
  PROVE  MigrationInv'
<1>0. /\ pc[p] = "routes"
      /\ pc' = [pc EXCEPT ![p] = "serving"]
      /\ tables' = tables \cup {"routes"}
      /\ UNCHANGED <<columns, rows, column, deaths>>
  BY DEF CreateRoutes, Goto
<1>1. TypeOK'
  BY <1>0 DEF MigrationInv, TypeOK
<1>2. Reached(p)'
  BY <1>0 DEF MigrationInv, TypeOK, Reached, Migrated
<1>3. ASSUME NEW q \in Starters, q # p PROVE Reached(q)'
  BY <1>0, <1>3 DEF MigrationInv, TypeOK, Reached, Migrated
<1>. QED
  BY <1>0, <1>1, <1>2, <1>3 DEF MigrationInv, RowSound, Migrated

\* InsertPolicy: the new row has its configuration in both columns.
LEMMA InsertPolicyKeeps ==
  ASSUME MigrationInv, NEW p \in Starters, NEW k \in Keys, NEW text \in Objects,
         InsertPolicy(p, k, text)
  PROVE  MigrationInv'
<1> DEFINE new == [config |-> text, default |-> text]
<1>0. /\ UNCHANGED <<tables, columns, pc, column, deaths>>
      /\ rows' = [rows EXCEPT ![k] = new]
      /\ rows \in [Keys -> Rows \cup {NoRow}]
      /\ columns = AllColumns /\ "policies" \in tables
  BY DEF InsertPolicy, MigrationInv, TypeOK, Reached
<1>1. new \in Rows /\ Migrated(new) /\ new.default # NoText
  BY MigrationConstants DEF Rows, Migrated
<1> HIDE DEF new
<1>2. rows'[k] = new /\ \A j \in Keys : j # k => rows'[j] = rows[j]
  BY <1>0
<1>3. TypeOK'
  BY <1>0, <1>1, <1>2, TheColumns DEF MigrationInv, TypeOK
<1>4. ASSUME NEW q \in Starters PROVE Reached(q)'
  <2>1. pc[q] \in {"routes", "serving"} =>
          \A j \in Keys : rows'[j] # NoRow => Migrated(rows'[j])
    BY <1>1, <1>2 DEF MigrationInv, Reached
  <2>. QED
    BY <1>0, <2>1 DEF MigrationInv, Reached, Migrated
<1>5. \A j \in Keys : rows'[j] # NoRow => RowSound(rows'[j])
  BY <1>0, <1>1, <1>2, TheColumns DEF MigrationInv, RowSound
<1>. QED
  BY <1>0, <1>3, <1>4, <1>5 DEF MigrationInv, RowSound, Migrated

\* Every step of every starter keeps the invariant.
LEMMA MigrationStep == MigrationInv /\ [Next]_vars => MigrationInv'
<1> SUFFICES ASSUME MigrationInv, [Next]_vars PROVE MigrationInv'
  OBVIOUS
<1>1. ASSUME NEW p \in Starters, Proceed(p) PROVE MigrationInv'
  BY <1>1, BeginKeeps, CreatePoliciesKeeps, CheckColumnKeeps, AddColumnKeeps,
     ColumnIsThereKeeps, BackfillKeeps, CreateRoutesKeeps
  DEF Proceed
<1>2. ASSUME UNCHANGED vars PROVE MigrationInv'
  BY <1>2 DEF vars, MigrationInv, TypeOK, Reached, RowSound, Migrated
<1>. QED
  BY <1>1, <1>2, InsertPolicyKeeps, DieKeeps DEF Next

\* A process that serves has reached everything.
LEMMA ServingHasReached == MigrationInv => ServesMigrated
BY DEF MigrationInv, TypeOK, Reached, ServesMigrated

\* The invariant of the migration.
LEMMA MigrationInvariant == Spec => []MigrationInv
BY InitMigration, MigrationStep, PTL DEF Spec

\* The types of the migration; a row has a default when its column is there.
THEOREM MigrationTypeCorrect == Spec => []TypeOK
<1>1. MigrationInv => TypeOK
  BY DEF MigrationInv
<1>. QED
  BY <1>1, MigrationInvariant, PTL

\* Whatever starts died or raced before, a process of gateway-cp that serves
\* finds a database that db::init has migrated completely.
THEOREM ServesMigratedHolds == Spec => []ServesMigrated
BY MigrationInvariant, ServingHasReached, PTL
=============================================================================
