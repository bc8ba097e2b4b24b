------------------------------- MODULE Storage --------------------------------
(***************************************************************************)
(* Where the event tables live.  `etiquetta serve` opens the DuckDB file,  *)
(* with a DuckLake catalog attached unless ETIQUETTA_STORAGE says duckdb,  *)
(* runs the migrations, moves the event tables into the lake (Lakeify),    *)
(* imports an older SQLite database, and only then serves.  A statement is *)
(* a step and commits by itself; the process may die between any two, and  *)
(* the next start may ask for the other storage.  `ducklake-migrate` makes *)
(* a lake beside the database while the server is down.                    *)
(*                                                                         *)
(* DuckDB, DuckLake and the SQLite scanner are external: a CREATE TABLE AS *)
(* SELECT is atomic, and ON CONFLICT needs a constraint, which the tables  *)
(* of a lake do not have.  A DuckDB file opens on one process at a time,   *)
(* so nothing else writes during a start.                                  *)
(***************************************************************************)
EXTENDS Naturals, Sequences, FiniteSets

CONSTANTS
    EventTables,    \* ducklake.EventTables
    Row,            \* the rows of the event tables
    TableOf         \* the table each belongs to

Table == {EventTables[k] : k \in 1..Len(EventTables)}

ASSUME StorageAssumption ==
    /\ EventTables \in Seq(Table)
    /\ IsFiniteSet(Row)
    /\ TableOf \in [Row -> Table]

VARIABLES
    phase,          \* how far the process has come
    storage,        \* ETIQUETTA_STORAGE of this process
    i,              \* the table it is at
    file,           \* etiquetta.duckdb: "none", "empty" or "migrated"
    main,           \* the event tables of the DuckDB file
    catalog,        \* lake/catalog.ducklake exists
    lake,           \* the event tables of the lake
    snapshot,       \* the copy etiquetta.duckdb.pre-ducklake, if there is one
    sqlite,         \* what etiquetta.db holds
    sqliteAt,       \* where that file is: "none", "db" or "bak"
    needsMigration  \* what NeedsSQLiteMigration found at the start

storeVars == <<file, main, catalog, lake, snapshot, sqlite, sqliteAt>>
storageVars == <<phase, storage, i, needsMigration, storeVars>>

\* What a name stands for in a catalog.
Content == [kind : {"absent", "view", "table"}, rows : SUBSET Row]
Absent == [kind |-> "absent", rows |-> {}]
View == [kind |-> "view", rows |-> {}]     \* left by an older build
Holding(R) == [kind |-> "table", rows |-> R]

Catalog == [Table -> Content]

StorageTypeOK ==
    /\ phase \in {"down", "open", "attach", "migrate", "lakeify", "verify", "drop", "sqlite",
                  "serve", "tool"}
    /\ storage \in {"duckdb", "ducklake"}
    /\ i \in 1..(Len(EventTables) + 1)
    /\ file \in {"none", "empty", "migrated"}
    /\ main \in Catalog
    /\ catalog \in BOOLEAN
    /\ lake \in Catalog
    /\ snapshot \in SUBSET Catalog
    /\ sqlite \in [Table -> SUBSET Row]
    /\ sqliteAt \in {"none", "db", "bak"}
    /\ needsMigration \in BOOLEAN

-------------------------------------------------------------------------------
(* The main-first search_path: a name is the table of the DuckDB file when *)
(* there is one, and else that of the lake, if it is attached.             *)

InMain(t) == main[t].kind = "table"
InLake(t) == storage = "ducklake" /\ main[t].kind = "absent" /\ lake[t].kind = "table"

\* The rows a table holds, wherever they are.
Home(t) == IF InMain(t) THEN main[t].rows ELSE lake[t].rows

\* Statements that would give the tables new rows do, where they reach a table.
Rewrite(new) ==
    /\ main' = [t \in Table |-> IF InMain(t) THEN Holding(new[t]) ELSE main[t]]
    /\ lake' = [t \in Table |-> IF InLake(t) THEN Holding(new[t]) ELSE lake[t]]

-------------------------------------------------------------------------------
AllAbsent == [t \in Table |-> Absent]

RowsOf(t) == {r \in Row : TableOf[r] = t}

\* What the tables of a database may hold.
Filling == {f \in [Table -> SUBSET Row] : \A t \in Table : f[t] \subseteq RowsOf(t)}

\* A new install, beside an SQLite database or not; a DuckDB install; or one
\* that an older build gave a lake, with views in place of the tables.
StorageInit ==
    /\ phase = "down" /\ storage = "duckdb" /\ i = 1 /\ needsMigration = FALSE
    /\ snapshot = {}
    /\ \/ /\ file = "none" /\ main = AllAbsent
          /\ catalog = FALSE /\ lake = AllAbsent
          /\ sqlite \in Filling /\ sqliteAt \in {"none", "db"}
          /\ sqliteAt = "none" => sqlite = [t \in Table |-> {}]
       \/ /\ file = "migrated" /\ \E f \in Filling : main = [t \in Table |-> Holding(f[t])]
          /\ catalog = FALSE /\ lake = AllAbsent
          /\ sqlite = [t \in Table |-> {}] /\ sqliteAt = "none"
       \/ /\ file = "migrated" /\ main = [t \in Table |-> View]
          /\ catalog = TRUE /\ \E f \in Filling : lake = [t \in Table |-> Holding(f[t])]
          /\ sqlite = [t \in Table |-> {}] /\ sqliteAt = "none"

-------------------------------------------------------------------------------
(* The start, as main and runServe do it. *)

\* The DuckDB file is copied aside once, before there is a catalog.
Start(s) ==
    /\ phase = "down" /\ phase' = "open"
    /\ storage' = s /\ i' = 1
    /\ needsMigration' = (sqliteAt = "db" /\ file = "none")
    /\ snapshot' = IF s = "ducklake" /\ ~catalog /\ file # "none" /\ snapshot = {}
                   THEN {main} ELSE snapshot
    /\ UNCHANGED <<file, main, catalog, lake, sqlite, sqliteAt>>

OpenFile ==
    /\ phase = "open"
    /\ file' = IF file = "none" THEN "empty" ELSE file
    /\ phase' = IF storage = "ducklake" THEN "attach" ELSE "migrate"
    /\ UNCHANGED <<storage, i, main, catalog, lake, snapshot, sqlite, sqliteAt, needsMigration>>

\* The boot statements of newDB, of which the first ones need the network.
Attach ==
    /\ phase = "attach" /\ phase' = "migrate"
    /\ catalog' = TRUE
    /\ UNCHANGED <<storage, i, file, main, lake, snapshot, sqlite, sqliteAt, needsMigration>>

\* Only a database without migration 1 gets its event tables.
Migrate ==
    /\ phase = "migrate"
    /\ phase' = CASE storage = "ducklake" -> "lakeify"
                  [] storage = "duckdb" /\ needsMigration -> "sqlite"
                  [] OTHER -> "serve"
    /\ main' = IF file = "migrated" THEN main ELSE [t \in Table |-> Holding({})]
    /\ file' = "migrated"
    /\ UNCHANGED <<storage, i, catalog, lake, snapshot, sqlite, sqliteAt, needsMigration>>

-------------------------------------------------------------------------------
(* Lakeify. *)

At(p) == phase = p /\ i <= Len(EventTables)

\* Variant: what the lake has of a table is good enough.
PassOver_InLake ==
    /\ At("lakeify")
    /\ lake[EventTables[i]] # Absent \/ ~InMain(EventTables[i])
    /\ main' = [main EXCEPT ![EventTables[i]] = IF @ = View THEN Absent ELSE @]
    /\ i' = i + 1
    /\ UNCHANGED <<phase, storage, file, catalog, lake, snapshot, sqlite, sqliteAt, needsMigration>>

\* Gone from the DuckDB file already, or a stale view that is dropped.
PassOver ==
    /\ At("lakeify") /\ ~InMain(EventTables[i])
    /\ main' = [main EXCEPT ![EventTables[i]] = Absent]
    /\ i' = i + 1
    /\ UNCHANGED <<phase, storage, file, catalog, lake, snapshot, sqlite, sqliteAt, needsMigration>>

\* Variant: CREATE TABLE IF NOT EXISTS.
Copy_IfMissing ==
    /\ At("lakeify") /\ InMain(EventTables[i])
    /\ lake' = [lake EXCEPT ![EventTables[i]] =
                  IF @ = Absent THEN main[EventTables[i]] ELSE @]
    /\ phase' = "verify"
    /\ UNCHANGED <<storage, i, file, main, catalog, snapshot, sqlite, sqliteAt, needsMigration>>

Copy ==
    /\ At("lakeify") /\ InMain(EventTables[i])
    /\ lake' = [lake EXCEPT ![EventTables[i]] = main[EventTables[i]]]
    /\ phase' = "verify"
    /\ UNCHANGED <<storage, i, file, main, catalog, snapshot, sqlite, sqliteAt, needsMigration>>

\* A count that differs ends the process.
Verify ==
    /\ At("verify")
    /\ Cardinality(main[EventTables[i]].rows) = Cardinality(lake[EventTables[i]].rows)
    /\ phase' = "drop"
    /\ UNCHANGED <<storage, i, storeVars, needsMigration>>

Drop ==
    /\ At("drop") /\ phase' = "lakeify"
    /\ main' = [main EXCEPT ![EventTables[i]] = Absent]
    /\ i' = i + 1
    /\ UNCHANGED <<storage, file, catalog, lake, snapshot, sqlite, sqliteAt, needsMigration>>

LakeifyDone ==
    /\ phase = "lakeify" /\ i > Len(EventTables)
    /\ phase' = IF needsMigration THEN "sqlite" ELSE "serve"
    /\ i' = 1
    /\ UNCHANGED <<storage, storeVars, needsMigration>>

-------------------------------------------------------------------------------
(* MigrateSQLite: an INSERT that fails is logged, and the file is renamed. *)

\* It fails on a table of the lake, for its ON CONFLICT, and where columns differ.
ImportTable ==
    /\ At("sqlite")
    /\ LET t == EventTables[i]
       IN  \/ InMain(t) /\ main' = [main EXCEPT ![t] = Holding(@.rows \cup sqlite[t])]
          \/ UNCHANGED main
    /\ i' = i + 1
    /\ UNCHANGED <<phase, storage, file, catalog, lake, snapshot, sqlite, sqliteAt, needsMigration>>

\* The rename may fail, and that is only logged too.
RenameSQLite ==
    /\ phase = "sqlite" /\ i > Len(EventTables) /\ phase' = "serve"
    /\ sqliteAt' \in {"bak", sqliteAt}
    /\ i' = 1
    /\ UNCHANGED <<storage, file, main, catalog, lake, snapshot, sqlite, needsMigration>>

-------------------------------------------------------------------------------
(* While the server serves; and its end, by choice or not. *)

\* The buffer loads a batch; on a name that is no table the load fails.
Load(t, S) ==
    /\ phase = "serve"
    /\ Rewrite([u \in Table |-> IF u = t THEN Home(u) \cup S ELSE Home(u)])
    /\ UNCHANGED <<phase, storage, i, file, catalog, snapshot, sqlite, sqliteAt, needsMigration>>

\* Retention, and the erasure of a visitor: one transaction over the tables.
Erase(S) ==
    /\ phase = "serve"
    /\ Rewrite([u \in Table |-> Home(u) \ S])
    /\ UNCHANGED <<phase, storage, i, file, catalog, snapshot, sqlite, sqliteAt, needsMigration>>

\* The process ends: stopped, killed, or by an error of the start.
End ==
    /\ phase # "down" /\ phase' = "down"
    /\ i' = 1
    /\ UNCHANGED <<storage, storeVars, needsMigration>>

-------------------------------------------------------------------------------
(* ducklake-migrate: Attach and MigrateFromDuckDB. *)

ToolAttach ==
    /\ phase = "down" /\ file # "none" /\ phase' = "tool"
    /\ catalog' = TRUE /\ i' = 1
    /\ UNCHANGED <<storage, file, main, lake, snapshot, sqlite, sqliteAt, needsMigration>>

\* A table the file does not have is skipped, and a view shows the lake itself.
ToolCopy ==
    /\ At("tool")
    /\ LET t == EventTables[i]
       IN  lake' = IF InMain(t) THEN [lake EXCEPT ![t] = main[t]] ELSE lake
    /\ i' = i + 1
    /\ UNCHANGED <<phase, storage, file, main, catalog, snapshot, sqlite, sqliteAt, needsMigration>>

-------------------------------------------------------------------------------
ServerStep ==
    \/ \E s \in {"duckdb", "ducklake"} : Start(s)
    \/ OpenFile \/ Attach \/ Migrate
    \/ PassOver \/ Copy \/ Verify \/ Drop \/ LakeifyDone
    \/ ImportTable \/ RenameSQLite
    \/ End

StorageNext ==
    \/ ServerStep
    \/ \E t \in Table : \E S \in SUBSET RowsOf(t) : Load(t, S)
    \/ \E S \in SUBSET Row : Erase(S)
    \/ ToolAttach \/ ToolCopy

StorageSpec == StorageInit /\ [][StorageNext]_storageVars

-------------------------------------------------------------------------------
(* What the event store of EventStore sees. *)
Rows == [t \in Table |-> Home(t)]

\* Neither the tables nor a first server that serves have been there.
FirstStart ==
    \/ file = "none"
    \/ /\ phase \in {"open", "attach", "migrate", "lakeify", "verify", "drop", "sqlite"}
       /\ needsMigration

Era == IF phase = "serve" THEN "serving" ELSE IF FirstStart THEN "new" ELSE "closed"

Store == INSTANCE EventStore WITH rows <- Rows, older <- sqlite, era <- Era

(* Whatever the storage a start is told to use, whatever was written       *)
(* between two starts, and wherever the move of a table was cut off, the   *)
(* rows of the event tables are the same before and after: Lakeify drops   *)
(* a table of the DuckDB file only for a copy as good, and never takes an  *)
(* older copy for the table, so that no start loses a row and none brings  *)
(* back one that retention or an erasure took.  The only rows a start adds *)
(* are those of the SQLite database, in the first start of a new install.  *)
NothingLost == Store!EventSpec

(* A server that uses the lake finds every event table there, and nothing  *)
(* of that name in the DuckDB file that its writes and deletes would reach *)
(* instead, or be refused by.                                              *)
LakeIsHome ==
    phase = "serve" /\ storage = "ducklake" =>
        \A t \in Table : main[t] = Absent /\ lake[t].kind = "table"

(* The DuckDB file was copied aside before a table of it goes, so that the *)
(* documented way back finds its rows.                                     *)
SnapshotFirst ==
    [][\A t \in Table :
          main[t].rows # {} /\ main'[t] = Absent
          => \E copy \in snapshot : copy[t] = main[t]]_storageVars
================================================================================
