---------------------------- MODULE StorageProofs -----------------------------
(***************************************************************************)
(* Proofs about Storage, for any event tables and rows, any sequence of    *)
(* starts and any point at which one is cut off.                           *)
(*                                                                         *)
(* That a table is dropped only for an equal copy needs that the copy and  *)
(* the table stay equal from Copy to Drop (Copied); that a server finds    *)
(* its tables in the lake, that every table is somewhere once migration 1  *)
(* has run (Placed), and that Lakeify has passed over the first i - 1.     *)
(* That only a first start adds rows needs that no other one imports.      *)
(***************************************************************************)
EXTENDS MCDatabase, DatabaseLockProofs, TLAPS

Lakeifying == {"lakeify", "verify", "drop"}

(* Before migration 1 there are no event tables; after it each has a home. *)
Placed ==
    /\ file # "migrated" => main = AllAbsent /\ lake = AllAbsent
    /\ file = "migrated" =>
          \A t \in Table : InMain(t) \/ lake[t].kind = "table"
    /\ \A t \in Table :
          /\ main[t].kind = "absent" => main[t] = Absent
          /\ lake[t].kind \in {"absent", "table"}
          /\ lake[t].kind = "absent" => lake[t].rows = {}
    /\ phase \in Lakeifying \cup {"sqlite", "serve"} => file = "migrated"

(* What Lakeify has done so far. *)
Moved ==
    /\ phase \in {"open", "attach", "migrate"} => i = 1
    /\ phase \in Lakeifying => storage = "ducklake"
    /\ phase \in Lakeifying =>
          \A k \in 1..(i - 1) : main[EventTables[k]] = Absent
    /\ phase \in {"sqlite", "serve"} /\ storage = "ducklake" =>
          \A t \in Table : main[t] = Absent

(* The copy about to replace a table is that table. *)
Copied ==
    phase \in {"verify", "drop"} =>
        /\ i <= Len(EventTables)
        /\ InMain(EventTables[i])
        /\ lake[EventTables[i]] = main[EventTables[i]]

StorageInv == StorageTypeOK /\ Placed /\ Moved /\ Copied

(* A process that imports the SQLite database made the DuckDB file. *)
Importing == phase = "sqlite" => needsMigration

-------------------------------------------------------------------------------
LEMMA Contents ==
    /\ Absent \in Content /\ View \in Content
    /\ \A R \in SUBSET Row : Holding(R) \in Content
    /\ Absent.kind = "absent" /\ Absent.rows = {} /\ View.kind = "view"
    /\ \A R : Holding(R).kind = "table" /\ Holding(R).rows = R
  BY DEF Absent, View, Holding, Content

LEMMA TablesInOrder ==
    /\ Len(EventTables) \in Nat
    /\ \A k \in 1..Len(EventTables) : EventTables[k] \in Table
    /\ \A t \in Table : \E k \in 1..Len(EventTables) : EventTables[k] = t
  BY StorageAssumption DEF Table

LEMMA HomeType ==
    ASSUME StorageTypeOK, NEW t \in Table
    PROVE  Home(t) \in SUBSET Row
  BY DEF StorageTypeOK, Home, Catalog, Content

LEMMA InitSound == StorageInit => StorageInv
<1>. SUFFICES ASSUME StorageInit PROVE StorageInv
  OBVIOUS
<1>1. AllAbsent \in Catalog /\ [t \in Table |-> View] \in Catalog
  BY Contents DEF AllAbsent, Catalog
<1>2. ASSUME NEW f \in Filling
      PROVE  /\ [t \in Table |-> Holding(f[t])] \in Catalog
             /\ \A t \in Table : [u \in Table |-> Holding(f[u])][t].kind = "table"
  <2>1. \A t \in Table : f[t] \in SUBSET Row
    BY DEF Filling
  <2>. QED BY <2>1, Contents DEF Catalog
<1>3. main \in Catalog /\ lake \in Catalog
  BY <1>1, <1>2 DEF StorageInit
<1>6. sqlite \in [Table -> SUBSET Row]
  BY DEF StorageInit, Filling
<1>7. StorageTypeOK
  <2>1. /\ phase = "down" /\ storage = "duckdb" /\ i = 1 /\ needsMigration = FALSE /\ snapshot = {}
        /\ file \in {"none", "migrated"} /\ catalog \in BOOLEAN /\ sqliteAt \in {"none", "db"}
    BY DEF StorageInit
  <2>2. snapshot \in SUBSET Catalog
    BY <2>1
  <2>3. i \in 1..(Len(EventTables) + 1)
    BY <2>1, TablesInOrder
  <2>4. needsMigration \in BOOLEAN
    BY <2>1
  <2>. QED BY <1>3, <1>6, <2>1, <2>2, <2>3, <2>4 DEF StorageTypeOK
<1>4. \A t \in Table : AllAbsent[t] = Absent
  BY DEF AllAbsent
<1>5. Placed
  <2>1. \/ file = "none" /\ main = AllAbsent /\ lake = AllAbsent
        \/ /\ file = "migrated" /\ lake = AllAbsent
           /\ \A t \in Table : main[t].kind = "table"
        \/ /\ file = "migrated" /\ main = [t \in Table |-> View]
           /\ \A t \in Table : lake[t].kind = "table"
    BY <1>2 DEF StorageInit
  <2>2. phase = "down"
    BY DEF StorageInit
  <2>3. \A t \in Table : [u \in Table |-> View][t].kind = "view"
    BY Contents
  <2>. QED BY <1>4, <2>1, <2>2, <2>3, Contents DEF Placed, InMain, Lakeifying
<1>. QED
  BY <1>7, <1>5 DEF StorageInit, StorageInv, Moved, Copied, Lakeifying

-------------------------------------------------------------------------------
(* Steps that leave the tables alone. *)
LEMMA QuietSteps ==
    ASSUME StorageInv,
           \/ \E s \in {"duckdb", "ducklake"} : Start(s)
           \/ OpenFile \/ Attach \/ Verify \/ LakeifyDone \/ RenameSQLite \/ End \/ ToolAttach
    PROVE  StorageInv' /\ UNCHANGED <<main, lake>>
<1>1. StorageTypeOK /\ Placed /\ Moved /\ Copied
  BY DEF StorageInv
<1>2. UNCHANGED <<main, lake>>
  BY DEF Start, OpenFile, Attach, Verify, LakeifyDone, RenameSQLite, End, ToolAttach, storeVars
<1>3. StorageTypeOK'
  <2>1. main \in Catalog
    BY <1>1 DEF StorageTypeOK
  <2>2. CASE \E s \in {"duckdb", "ducklake"} : Start(s)
    BY <1>1, <2>1, <2>2, TablesInOrder DEF StorageTypeOK, Start
  <2>3. CASE OpenFile
    BY <1>1, <2>3 DEF StorageTypeOK, OpenFile
  <2>4. CASE Attach
    BY <1>1, <2>4 DEF StorageTypeOK, Attach
  <2>5. CASE Verify
    BY <1>1, <2>5 DEF StorageTypeOK, Verify, At, storeVars
  <2>6. CASE LakeifyDone
    BY <1>1, <2>6, TablesInOrder DEF StorageTypeOK, LakeifyDone, storeVars
  <2>7. CASE RenameSQLite
    BY <1>1, <2>7, TablesInOrder DEF StorageTypeOK, RenameSQLite
  <2>8. CASE End
    BY <1>1, <2>8, TablesInOrder DEF StorageTypeOK, End, storeVars
  <2>9. CASE ToolAttach
    BY <1>1, <2>9, TablesInOrder DEF StorageTypeOK, ToolAttach
  <2>. QED
    BY <2>2, <2>3, <2>4, <2>5, <2>6, <2>7, <2>8, <2>9
<1>4. \A t \in Table : InMain(t)' = InMain(t)
  BY <1>2 DEF InMain
<1>5. /\ file' = "migrated" <=> file = "migrated"
      /\ phase' \in Lakeifying \cup {"sqlite", "serve"} =>
            phase \in Lakeifying \cup {"sqlite", "serve"}
  <2>1. file' = file \/ OpenFile
    BY DEF Start, Attach, Verify, LakeifyDone, RenameSQLite, End, ToolAttach, storeVars
  <2>2. file' = "migrated" <=> file = "migrated"
    BY <2>1 DEF OpenFile
  <2>3. \/ phase' \in {"down", "open", "attach", "migrate", "tool"}
        \/ phase \in {"verify", "lakeify", "sqlite"}
    BY DEF Start, OpenFile, Attach, Verify, LakeifyDone, RenameSQLite, End, ToolAttach, At
  <2>. QED BY <2>2, <2>3 DEF Lakeifying
<1>6. Placed'
  BY <1>1, <1>2, <1>4, <1>5 DEF Placed, AllAbsent
<1>7. Moved'
  <2>1. CASE phase' \notin Lakeifying \cup {"sqlite", "serve"}
    <3>1. phase' \in {"open", "attach", "migrate"} => i' = 1
      BY <1>1 DEF Moved, Start, OpenFile, Attach, Verify, LakeifyDone, RenameSQLite, End, ToolAttach
    <3>. QED BY <2>1, <3>1 DEF Moved
  <2>2. CASE Verify
    <3>1. phase = "verify" /\ phase' = "drop" /\ UNCHANGED <<storage, i>>
      BY <2>2 DEF Verify, At
    <3>. QED BY <1>1, <1>2, <3>1 DEF Moved, Lakeifying
  <2>3. CASE LakeifyDone
    <3>1. phase = "lakeify" /\ i > Len(EventTables) /\ phase' \in {"sqlite", "serve"}
      BY <2>3 DEF LakeifyDone
    <3>2. ASSUME NEW t \in Table PROVE main[t] = Absent
      <4>1. PICK k \in 1..Len(EventTables) : EventTables[k] = t
        BY TablesInOrder
      <4>2. k \in 1..(i - 1)
        BY <1>1, <3>1, <4>1, TablesInOrder DEF StorageTypeOK
      <4>. QED BY <1>1, <3>1, <4>1, <4>2 DEF Moved, Lakeifying
    <3>. QED BY <1>2, <3>1, <3>2 DEF Moved, Lakeifying
  <2>4. CASE RenameSQLite
    BY <1>1, <1>2, <2>4 DEF Moved, RenameSQLite, Lakeifying
  <2>. QED
    BY <2>1, <2>2, <2>3, <2>4
       DEF Start, OpenFile, Attach, End, ToolAttach, Lakeifying
<1>8. Copied'
  <2>1. CASE Verify
    BY <1>1, <1>2, <2>1 DEF Copied, Verify, InMain, At
  <2>2. CASE ~Verify
    BY <2>2 DEF Copied, Start, OpenFile, Attach, LakeifyDone, RenameSQLite, End, ToolAttach
  <2>. QED BY <2>1, <2>2
<1>. QED
  BY <1>2, <1>3, <1>6, <1>7, <1>8 DEF StorageInv

-------------------------------------------------------------------------------
(* Migration 1: every event table is created in the DuckDB file, which had *)
(* none.                                                                   *)
LEMMA MigrateStep ==
    ASSUME StorageInv, Migrate
    PROVE  StorageInv' /\ \A t \in Table : Home(t)' = Home(t)
<1>1. StorageTypeOK /\ Placed /\ Moved /\ Copied
  BY DEF StorageInv
<1>2. /\ phase = "migrate" /\ file' = "migrated"
      /\ phase' \in {"lakeify", "sqlite", "serve"}
      /\ phase' = "lakeify" <=> storage = "ducklake"
      /\ storage' = storage /\ lake' = lake /\ i' = i
      /\ main' = IF file = "migrated" THEN main ELSE [t \in Table |-> Holding({})]
  BY <1>1 DEF Migrate, StorageTypeOK
<1>3. UNCHANGED <<catalog, snapshot, sqlite, sqliteAt, needsMigration>>
  BY DEF Migrate
<1>4. [t \in Table |-> Holding({})] \in Catalog
  BY Contents DEF Catalog
<1>5. StorageTypeOK'
  BY <1>1, <1>2, <1>3, <1>4 DEF StorageTypeOK
<1>6. /\ \A t \in Table : InMain(t)' \/ lake'[t].kind = "table"
      /\ \A t \in Table : main'[t].kind = "absent" => main'[t] = Absent
  <2>1. CASE file = "migrated"
    BY <1>1, <1>2, <2>1 DEF Placed, InMain
  <2>2. CASE file # "migrated"
    BY <1>2, <2>2, Contents DEF InMain
  <2>. QED BY <2>1, <2>2
<1>7. Placed'
  BY <1>1, <1>2, <1>6 DEF Placed
<1>8. Moved'
  BY <1>1, <1>2 DEF Moved, Lakeifying, StorageTypeOK
<1>9. Copied'
  BY <1>2 DEF Copied
<1>10. ASSUME NEW t \in Table PROVE Home(t)' = Home(t)
  <2>1. CASE file = "migrated"
    BY <1>2, <2>1 DEF Home, InMain
  <2>2. CASE file # "migrated"
    <3>1. main[t] = Absent /\ lake[t] = Absent
      BY <1>1, <2>2 DEF Placed, AllAbsent
    <3>. QED BY <1>2, <2>2, <3>1, Contents DEF Home, InMain
  <2>. QED BY <2>1, <2>2
<1>. QED
  BY <1>5, <1>7, <1>8, <1>9, <1>10 DEF StorageInv

(* A step of Lakeify or of ducklake-migrate changes what stands for one    *)
(* table, and not the rows it has.                                         *)
LEMMA TableSteps ==
    ASSUME StorageInv, PassOver \/ Copy \/ Drop \/ ToolCopy
    PROVE  StorageInv' /\ \A t \in Table : Home(t)' = Home(t)
<1>. DEFINE u == EventTables[i]
<1>1. StorageTypeOK /\ Placed /\ Moved /\ Copied
  BY DEF StorageInv
<1>2. i \in 1..Len(EventTables) /\ u \in Table /\ i + 1 \in 1..(Len(EventTables) + 1)
  BY <1>1, TablesInOrder DEF StorageTypeOK, PassOver, Copy, Drop, ToolCopy, At
<1>3. /\ phase' \in {"lakeify", "verify", "tool"}
      /\ UNCHANGED <<storage, file, catalog, snapshot, sqlite, sqliteAt, needsMigration>>
  BY DEF PassOver, Copy, Drop, ToolCopy, At
<1>4. phase \in Lakeifying \/ ToolCopy
  BY DEF PassOver, Copy, Drop, At, Lakeifying
<1>. HIDE DEF u
<1>5. /\ main' = main \/ main' = [main EXCEPT ![u] = Absent]
      /\ lake' = lake \/ lake' = [lake EXCEPT ![u] = main[u]]
      /\ i' = i \/ i' = i + 1
  BY DEF PassOver, Copy, Drop, ToolCopy, u
<1>6. main[u] \in Content /\ main \in Catalog /\ lake \in Catalog
  BY <1>1, <1>2 DEF StorageTypeOK, Catalog
<1>7. StorageTypeOK'
  <2>1. main' \in Catalog /\ lake' \in Catalog
    BY <1>2, <1>5, <1>6, Contents DEF Catalog
  <2>2. i' \in 1..(Len(EventTables) + 1)
    BY <1>2, <1>5, TablesInOrder
  <2>. QED BY <1>1, <1>3, <2>1, <2>2 DEF StorageTypeOK
<1>8. \A t \in Table : t # u => main'[t] = main[t] /\ lake'[t] = lake[t]
  BY <1>5, <1>6 DEF Catalog
(* What happens to the table itself. *)
<1>9. CASE PassOver
  <2>1. /\ phase = "lakeify" /\ phase' = "lakeify" /\ ~InMain(u)
        /\ main' = [main EXCEPT ![u] = Absent] /\ lake' = lake /\ i' = i + 1
    BY <1>9 DEF PassOver, At, u
  <2>2. main'[u] = Absent
    BY <1>2, <1>6, <2>1 DEF Catalog
  <2>3. file = "migrated" /\ lake[u].kind = "table" /\ Home(u) = lake[u].rows
    BY <1>1, <1>2, <2>1 DEF Placed, Lakeifying, Home
  <2>4. Placed'
    BY <1>1, <1>3, <1>8, <2>1, <2>2, <2>3, Contents DEF Placed, InMain
  <2>5. \A k \in 1..((i + 1) - 1) : k \in 1..(i - 1) \/ k = i
    BY <1>2
  <2>6. Moved'
    BY <1>1, <1>3, <1>6, <2>1, <2>2, <2>5 DEF Moved, Lakeifying, u, Catalog
  <2>7. Copied'
    BY <2>1 DEF Copied
  <2>8. \A t \in Table : Home(t)' = Home(t)
    BY <1>8, <2>1, <2>2, <2>3, Contents DEF Home, InMain
  <2>. QED BY <1>7, <2>4, <2>6, <2>7, <2>8 DEF StorageInv
<1>10. CASE Copy
  <2>1. /\ phase = "lakeify" /\ phase' = "verify" /\ InMain(u)
        /\ lake' = [lake EXCEPT ![u] = main[u]] /\ main' = main /\ i' = i
    BY <1>10 DEF Copy, At, u
  <2>2. lake'[u] = main[u]
    BY <1>2, <1>6, <2>1 DEF Catalog
  <2>3. file = "migrated"
    BY <1>1, <2>1 DEF Placed, Lakeifying
  <2>4. Placed'
    BY <1>1, <1>3, <1>8, <2>1, <2>2, <2>3 DEF Placed, InMain
  <2>5. Moved'
    BY <1>1, <1>3, <2>1 DEF Moved, Lakeifying
  <2>6. Copied'
    BY <1>2, <2>1, <2>2 DEF Copied, InMain, u
  <2>7. \A t \in Table : Home(t)' = Home(t)
    BY <1>8, <2>1 DEF Home, InMain
  <2>. QED BY <1>7, <2>4, <2>5, <2>6, <2>7 DEF StorageInv
<1>11. CASE Drop
  <2>1. /\ phase = "drop" /\ phase' = "lakeify"
        /\ main' = [main EXCEPT ![u] = Absent] /\ lake' = lake /\ i' = i + 1
    BY <1>11 DEF Drop, At, u
  <2>2. main'[u] = Absent
    BY <1>2, <1>6, <2>1 DEF Catalog
  <2>3. file = "migrated" /\ InMain(u) /\ lake[u] = main[u]
    BY <1>1, <2>1 DEF Placed, Copied, Lakeifying, u
  <2>4. Placed'
    BY <1>1, <1>3, <1>8, <2>1, <2>2, <2>3, Contents DEF Placed, InMain
  <2>5. \A k \in 1..((i + 1) - 1) : k \in 1..(i - 1) \/ k = i
    BY <1>2
  <2>6. Moved'
    BY <1>1, <1>3, <1>6, <2>1, <2>2, <2>5 DEF Moved, Lakeifying, u, Catalog
  <2>7. Copied'
    BY <2>1 DEF Copied
  <2>8. \A t \in Table : Home(t)' = Home(t)
    BY <1>8, <2>1, <2>2, <2>3, Contents DEF Home, InMain
  <2>. QED BY <1>7, <2>4, <2>6, <2>7, <2>8 DEF StorageInv
<1>12. CASE ToolCopy
  <2>1. /\ phase' = "tool" /\ main' = main
        /\ lake' = IF InMain(u) THEN [lake EXCEPT ![u] = main[u]] ELSE lake
    BY <1>12 DEF ToolCopy, At, u
  <2>2. IF InMain(u) THEN lake'[u] = main[u] ELSE lake'[u] = lake[u]
    BY <1>2, <1>6, <2>1 DEF Catalog
  <2>3. file # "migrated" => ~InMain(u)
    BY <1>1, <1>2, Contents DEF Placed, AllAbsent, InMain
  <2>4. Placed'
    BY <1>1, <1>3, <1>8, <2>1, <2>2, <2>3 DEF Placed, InMain, Lakeifying, AllAbsent
  <2>5. Moved' /\ Copied'
    BY <2>1 DEF Moved, Copied, Lakeifying
  <2>6. \A t \in Table : Home(t)' = Home(t)
    BY <1>8, <2>1, <2>2 DEF Home, InMain
  <2>. QED BY <1>7, <2>4, <2>5, <2>6 DEF StorageInv
<1>. QED
  BY <1>9, <1>10, <1>11, <1>12

-------------------------------------------------------------------------------
(* The import of the SQLite database, and what a server does. *)
LEMMA ImportStep ==
    ASSUME StorageInv, ImportTable
    PROVE  /\ StorageInv' /\ UNCHANGED phase
           /\ \/ Rows' = Rows
              \/ \E u \in Table : Rows' = [Rows EXCEPT ![u] = @ \cup sqlite[u]]
<1>1. StorageTypeOK /\ Placed /\ Moved /\ Copied
  BY DEF StorageInv
<1>0. i \in 1..Len(EventTables) /\ i + 1 \in 1..(Len(EventTables) + 1)
  BY <1>1, TablesInOrder DEF StorageTypeOK, ImportTable, At
<1>2. PICK u \in Table : u = EventTables[i]
  BY <1>0, TablesInOrder
<1>. DEFINE R == main[u].rows \cup sqlite[u]
<1>3. /\ phase = "sqlite" /\ i' = i + 1
      /\ main' = main \/ (InMain(u) /\ main' = [main EXCEPT ![u] = Holding(R)])
      /\ UNCHANGED <<phase, storage, file, catalog, lake, snapshot, sqlite, sqliteAt, needsMigration>>
  BY <1>2 DEF ImportTable, At
<1>4. main[u].rows \in SUBSET Row /\ sqlite[u] \in SUBSET Row /\ R \in SUBSET Row
  BY <1>1, <1>2 DEF StorageTypeOK, Catalog, Content
<1>5. main \in Catalog /\ Holding(R) \in Content
  BY <1>1, <1>4, Contents DEF StorageTypeOK
<1>6. main' \in Catalog
  BY <1>2, <1>3, <1>5 DEF Catalog
<1>7. StorageTypeOK'
  BY <1>0, <1>1, <1>3, <1>6 DEF StorageTypeOK
<1>8. /\ \A t \in Table : t # u => main'[t] = main[t]
      /\ main'[u] = main[u] \/ (InMain(u) /\ main'[u] = Holding(R))
  BY <1>2, <1>3, <1>5 DEF Catalog
<1>9. Holding(R).kind = "table" /\ Holding(R).rows = R
  BY Contents
<1>10. \A t \in Table : main'[t].kind = main[t].kind
  BY <1>8, <1>9 DEF InMain
<1>11. \A t \in Table : InMain(t)' = InMain(t)
  BY <1>10 DEF InMain
<1>12. \A t \in Table : main'[t] = main[t] \/ InMain(t)
  BY <1>8
<1>13. file = "migrated"
  BY <1>1, <1>3 DEF Placed
<1>14. Placed'
  BY <1>1, <1>3, <1>10, <1>11, <1>12, <1>13 DEF Placed, InMain
<1>15. Moved'
  BY <1>1, <1>3, <1>12, Contents DEF Moved, Lakeifying, InMain
<1>16. Copied'
  BY <1>3 DEF Copied
<1>17. \A t \in Table : t # u => Home(t)' = Home(t)
  BY <1>3, <1>8, <1>11 DEF Home
<1>18. Home(u)' = Home(u) \/ (InMain(u) /\ Home(u)' = R)
  BY <1>2, <1>3, <1>8, <1>9, <1>11 DEF Home
<1>19. Home(u)' = Home(u) \/ Home(u)' = Home(u) \cup sqlite[u]
  BY <1>18 DEF Home
<1>20. Rows' = Rows \/ Rows' = [Rows EXCEPT ![u] = @ \cup sqlite[u]]
  BY <1>17, <1>19 DEF Rows
<1>. QED
  BY <1>2, <1>3, <1>7, <1>14, <1>15, <1>16, <1>20 DEF StorageInv

(* A statement that rewrites tables leaves each where it is, and gives it  *)
(* the new rows where it is reached.                                       *)
LEMMA RewriteStep ==
    ASSUME StorageInv, phase = "serve", NEW new \in [Table -> SUBSET Row], Rewrite(new),
           UNCHANGED <<phase, storage, i, file, catalog, snapshot, sqlite, sqliteAt, needsMigration>>
    PROVE  /\ StorageInv'
           /\ \A t \in Table :
                 Home(t)' = IF InMain(t) \/ InLake(t) THEN new[t] ELSE Home(t)
<1>1. StorageTypeOK /\ Placed /\ Moved /\ Copied
  BY DEF StorageInv
<1>2. ASSUME NEW t \in Table
      PROVE  /\ main'[t] = IF InMain(t) THEN Holding(new[t]) ELSE main[t]
             /\ lake'[t] = IF InLake(t) THEN Holding(new[t]) ELSE lake[t]
             /\ new[t] \in SUBSET Row /\ main[t] \in Content /\ lake[t] \in Content
  BY <1>1 DEF Rewrite, StorageTypeOK, Catalog
<1>3. \A R : Holding(R).kind = "table" /\ Holding(R).rows = R
  BY Contents
<1>4. main' \in Catalog /\ lake' \in Catalog
  <2>1. \A t \in Table : main'[t] \in Content /\ lake'[t] \in Content
    BY <1>2, Contents
  <2>. QED BY <2>1 DEF Rewrite, Catalog
<1>5. StorageTypeOK'
  BY <1>1, <1>4 DEF StorageTypeOK
<1>6. ASSUME NEW t \in Table
      PROVE  /\ main'[t].kind = main[t].kind /\ lake'[t].kind = lake[t].kind
             /\ main[t].kind # "table" => main'[t] = main[t]
             /\ lake[t].kind # "table" => lake'[t] = lake[t]
  BY <1>2, <1>3 DEF InMain, InLake
<1>7. file = "migrated"
  BY <1>1 DEF Placed
<1>8. Placed'
  BY <1>1, <1>6, <1>7 DEF Placed, InMain
<1>9. Moved'
  BY <1>1, <1>6, Contents DEF Moved, Lakeifying
<1>10. Copied'
  BY DEF Copied
<1>11. ASSUME NEW t \in Table
       PROVE  Home(t)' = IF InMain(t) \/ InLake(t) THEN new[t] ELSE Home(t)
  BY <1>2, <1>3, <1>6 DEF Home, InMain, InLake
<1>. QED
  BY <1>5, <1>8, <1>9, <1>10, <1>11 DEF StorageInv

-------------------------------------------------------------------------------
LEMMA SameRows ==
    ASSUME \A t \in Table : Home(t)' = Home(t)
    PROVE  Rows' = Rows
  BY DEF Rows

(* A server's batch adds rows to a table, or to none. *)
LEMMA LoadStep ==
    ASSUME StorageInv, NEW t \in Table, NEW S \in SUBSET Row, Load(t, S)
    PROVE  /\ StorageInv' /\ phase = "serve" /\ UNCHANGED phase
           /\ \E T \in SUBSET Row : Rows' = [Rows EXCEPT ![t] = @ \cup T]
<1>. DEFINE new == [u \in Table |-> IF u = t THEN Home(u) \cup S ELSE Home(u)]
<1>1. StorageTypeOK
  BY DEF StorageInv
<1>2. new \in [Table -> SUBSET Row]
  BY <1>1, HomeType
<1>3. /\ phase = "serve" /\ Rewrite(new)
      /\ UNCHANGED <<phase, storage, i, file, catalog, snapshot, sqlite, sqliteAt, needsMigration>>
  BY DEF Load
<1>4. /\ new[t] = Home(t) \cup S
      /\ \A u \in Table : u # t => new[u] = Home(u)
  OBVIOUS
<1>. HIDE DEF new
<1>5. /\ StorageInv'
      /\ \A u \in Table : Home(u)' = IF InMain(u) \/ InLake(u) THEN new[u] ELSE Home(u)
  BY <1>2, <1>3, RewriteStep
<1>6. \A u \in Table : u # t => Home(u)' = Home(u)
  BY <1>4, <1>5
<1>7. Home(t)' = Home(t) \cup {} \/ Home(t)' = Home(t) \cup S
  BY <1>4, <1>5
<1>8. PICK T \in SUBSET Row : Home(t)' = Home(t) \cup T
  BY <1>7
<1>9. Rows' = [Rows EXCEPT ![t] = @ \cup T]
  BY <1>6, <1>8 DEF Rows
<1>. QED
  BY <1>3, <1>5, <1>9

(* Retention takes rows away, and adds none. *)
LEMMA EraseStep ==
    ASSUME StorageInv, NEW S \in SUBSET Row, Erase(S)
    PROVE  /\ StorageInv' /\ phase = "serve" /\ UNCHANGED phase
           /\ Rows' \in [Table -> SUBSET Row]
           /\ \A t \in Table : Rows'[t] \subseteq Rows[t]
<1>. DEFINE new == [u \in Table |-> Home(u) \ S]
<1>1. StorageTypeOK
  BY DEF StorageInv
<1>2. new \in [Table -> SUBSET Row]
  BY <1>1, HomeType
<1>3. /\ phase = "serve" /\ Rewrite(new)
      /\ UNCHANGED <<phase, storage, i, file, catalog, snapshot, sqlite, sqliteAt, needsMigration>>
  BY DEF Erase
<1>4. \A u \in Table : new[u] \subseteq Home(u)
  OBVIOUS
<1>. HIDE DEF new
<1>5. /\ StorageInv'
      /\ \A u \in Table : Home(u)' = IF InMain(u) \/ InLake(u) THEN new[u] ELSE Home(u)
  BY <1>2, <1>3, RewriteStep
<1>6. \A u \in Table : Home(u)' \subseteq Home(u) /\ Home(u)' \in SUBSET Row
  <2>1. \A u \in Table : Home(u)' \subseteq Home(u)
    BY <1>4, <1>5
  <2>. QED BY <1>1, <2>1, HomeType
<1>. QED
  BY <1>3, <1>5, <1>6 DEF Rows

(* No start makes an old install a new one, and none writes the SQLite     *)
(* database.                                                               *)
LEMMA EraStep ==
    ASSUME StorageInv, Importing, [StorageNext]_storageVars
    PROVE  /\ Importing' /\ sqlite' = sqlite
           /\ Era' = "new" => Era = "new"
<1>1. sqlite' = sqlite
  BY DEF StorageNext, ServerStep, Start, OpenFile, Attach, Migrate, PassOver, Copy, Verify, Drop,
         LakeifyDone, ImportTable, RenameSQLite, End, Load, Erase, ToolAttach, ToolCopy,
         storageVars, storeVars
<1>2. file' = "none" => file = "none"
  BY DEF StorageNext, ServerStep, Start, OpenFile, Attach, Migrate, PassOver, Copy, Verify, Drop,
         LakeifyDone, ImportTable, RenameSQLite, End, Load, Erase, ToolAttach, ToolCopy,
         storageVars, storeVars
<1>3. phase = "serve" => file # "none"
  BY DEF StorageInv, Placed
<1>4. CASE \E s \in {"duckdb", "ducklake"} : Start(s)
  <2>1. phase = "down" /\ phase' = "open" /\ (needsMigration' => file = "none")
    BY <1>4 DEF Start
  <2>. QED BY <1>1, <1>2, <2>1 DEF Era, FirstStart, Importing
<1>5. CASE \/ OpenFile \/ Attach \/ Migrate \/ PassOver \/ Copy \/ Verify \/ Drop
           \/ LakeifyDone \/ ImportTable \/ RenameSQLite
  <2>1. /\ phase \in {"open", "attach", "migrate", "lakeify", "verify", "drop", "sqlite"}
        /\ needsMigration' = needsMigration
    BY <1>5 DEF OpenFile, Attach, Migrate, PassOver, Copy, Verify, Drop, LakeifyDone,
                ImportTable, RenameSQLite, At
  <2>2. phase' = "sqlite" => needsMigration
    BY <1>5 DEF OpenFile, Attach, Migrate, PassOver, Copy, Verify, Drop, LakeifyDone,
                ImportTable, RenameSQLite, At, Importing
  <2>. QED BY <1>1, <1>2, <2>1, <2>2 DEF Era, FirstStart, Importing
<1>6. CASE \/ End \/ ToolAttach \/ ToolCopy
           \/ \E t \in Table : \E S \in SUBSET RowsOf(t) : Load(t, S)
           \/ \E S \in SUBSET Row : Erase(S)
  <2>1. phase' \in {"down", "tool", "serve"}
    BY <1>6 DEF End, ToolAttach, ToolCopy, Load, Erase, At
  <2>. QED BY <1>1, <1>2, <1>3, <2>1 DEF Era, FirstStart, Importing
<1>7. CASE UNCHANGED storageVars
  BY <1>7 DEF storageVars, storeVars, Era, FirstStart, Importing
<1>. QED
  BY <1>4, <1>5, <1>6, <1>7 DEF StorageNext, ServerStep

(* Every step keeps the invariant, and is a step of the event store or     *)
(* none that it can see.                                                   *)
LEMMA StorageStep ==
    ASSUME StorageInv, [StorageNext]_storageVars
    PROVE  /\ StorageInv'
           /\ \/ Rows' = Rows
              \/ /\ phase = "sqlite" /\ UNCHANGED <<phase, file, needsMigration>>
                 /\ \E t \in Table : Rows' = [Rows EXCEPT ![t] = @ \cup sqlite[t]]
              \/ /\ phase = "serve" /\ UNCHANGED phase
                 /\ \E t \in Table, T \in SUBSET Row : Rows' = [Rows EXCEPT ![t] = @ \cup T]
              \/ /\ phase = "serve" /\ UNCHANGED phase
                 /\ Rows' \in [Table -> SUBSET Row]
                 /\ \A t \in Table : Rows'[t] \subseteq Rows[t]
<1>1. CASE \/ \E s \in {"duckdb", "ducklake"} : Start(s)
           \/ OpenFile \/ Attach \/ Verify \/ LakeifyDone \/ RenameSQLite \/ End \/ ToolAttach
  <2>1. StorageInv' /\ UNCHANGED <<main, lake>>
    BY <1>1, QuietSteps
  <2>2. Rows' = Rows
    BY <2>1, SameRows DEF Home, InMain
  <2>. QED BY <2>1, <2>2
<1>2. CASE Migrate
  BY <1>2, MigrateStep, SameRows
<1>3. CASE PassOver \/ Copy \/ Drop \/ ToolCopy
  BY <1>3, TableSteps, SameRows
<1>4. CASE ImportTable
  <2>1. phase = "sqlite" /\ UNCHANGED <<phase, file, needsMigration>>
    BY <1>4 DEF ImportTable, At
  <2>. QED BY <1>4, <2>1, ImportStep
<1>5. CASE \E t \in Table : \E S \in SUBSET RowsOf(t) : Load(t, S)
  <2>1. PICK t \in Table, S \in SUBSET Row : Load(t, S)
    BY <1>5 DEF RowsOf
  <2>. QED BY <2>1, LoadStep
<1>6. CASE \E S \in SUBSET Row : Erase(S)
  BY <1>6, EraseStep
<1>7. CASE UNCHANGED storageVars
  <2>1. UNCHANGED <<phase, storage, i, needsMigration, storeVars>>
    BY <1>7 DEF storageVars
  <2>2. StorageTypeOK' /\ Placed' /\ Moved' /\ Copied'
    BY <2>1 DEF StorageInv, StorageTypeOK, Placed, Moved, Copied, InMain, storeVars
  <2>3. Rows' = Rows
    BY <2>1 DEF Rows, Home, InMain, storeVars
  <2>. QED BY <2>2, <2>3 DEF StorageInv
<1>. QED
  BY <1>1, <1>2, <1>3, <1>4, <1>5, <1>6, <1>7 DEF StorageNext, ServerStep

LEMMA StorageInductive == StorageSpec => [](StorageInv /\ Importing)
<1>1. StorageInit => StorageInv /\ Importing
  BY InitSound DEF StorageInit, Importing
<1>2. StorageInv /\ Importing /\ [StorageNext]_storageVars => (StorageInv /\ Importing)'
  BY StorageStep, EraStep
<1>. QED
  BY <1>1, <1>2, PTL DEF StorageSpec

-------------------------------------------------------------------------------
(* The variables have their types. *)
THEOREM StorageTypes == StorageSpec => []StorageTypeOK
<1>1. StorageInv => StorageTypeOK
  BY DEF StorageInv
<1>. QED
  BY <1>1, StorageInductive, PTL

(* A server that uses the lake has every event table there, and no table   *)
(* or view of the DuckDB file in front of it.                              *)
THEOREM LakeServes == StorageSpec => []LakeIsHome
<1>1. StorageInv => LakeIsHome
  BY Contents DEF StorageInv, Placed, Moved, LakeIsHome, InMain
<1>. QED
  BY <1>1, StorageInductive, PTL

(* The moves between the storages implement the event store: no start, cut *)
(* off or not, loses a row, brings one back or takes an old copy for it;   *)
(* and none adds a row but the first of a new install, from the SQLite     *)
(* database.                                                               *)
THEOREM StartsKeepRows == StorageSpec => NothingLost
<1>1. StorageInit => Store!EventInit
  <2>. SUFFICES ASSUME StorageInit PROVE Store!EventInit
    OBVIOUS
  <2>1. StorageInv /\ phase = "down"
    BY InitSound DEF StorageInit
  <2>2. Rows \in [Table -> SUBSET Row] /\ sqlite \in [Table -> SUBSET Row]
    BY <2>1, HomeType DEF StorageInv, StorageTypeOK, Rows
  <2>3. Era \in {"new", "closed"} /\ (Era = "new" => file = "none")
    BY <2>1 DEF Era, FirstStart
  <2>4. ASSUME file = "none", NEW t \in Table PROVE Rows[t] = {}
    BY <2>1, <2>4, Contents DEF StorageInv, Placed, AllAbsent, Rows, Home, InMain
  <2>. QED BY <2>2, <2>3, <2>4 DEF Store!EventInit
<1>2. StorageInv /\ Importing /\ [StorageNext]_storageVars
        => [Store!EventNext]_(Store!eventStore)
  <2>. SUFFICES ASSUME StorageInv, Importing, [StorageNext]_storageVars
                PROVE  [Store!EventNext]_(Store!eventStore)
    OBVIOUS
  <2>1. sqlite' = sqlite /\ (Era' = "new" => Era = "new")
    BY EraStep
  <2>2. Era \in {"new", "closed", "serving"} /\ Era' \in {"new", "closed", "serving"}
    BY DEF Era
  <2>3. CASE Rows' = Rows
    BY <2>1, <2>2, <2>3 DEF Store!EventNext, Store!eventStore, Store!Open, Store!Close
  <2>4. CASE /\ phase = "sqlite" /\ UNCHANGED <<phase, file, needsMigration>>
             /\ \E t \in Table : Rows' = [Rows EXCEPT ![t] = @ \cup sqlite[t]]
    <3>1. Era = "new" /\ Era' = "new"
      BY <2>4 DEF Importing, Era, FirstStart
    <3>. QED BY <2>1, <2>4, <3>1 DEF Store!EventNext, Store!Import
  <2>5. CASE /\ phase = "serve" /\ UNCHANGED phase
             /\ \E t \in Table, T \in SUBSET Row : Rows' = [Rows EXCEPT ![t] = @ \cup T]
    <3>1. Era = "serving" /\ Era' = "serving"
      BY <2>5 DEF Era
    <3>. QED BY <2>1, <2>5, <3>1 DEF Store!EventNext, Store!Insert
  <2>6. CASE /\ phase = "serve" /\ UNCHANGED phase
             /\ Rows' \in [Table -> SUBSET Row]
             /\ \A t \in Table : Rows'[t] \subseteq Rows[t]
    <3>1. Era = "serving" /\ Era' = "serving"
      BY <2>6 DEF Era
    <3>. QED BY <2>1, <2>6, <3>1 DEF Store!EventNext, Store!Delete
  <2>. QED BY <2>3, <2>4, <2>5, <2>6, StorageStep
<1>. QED
  BY <1>1, <1>2, StorageInductive, PTL DEF StorageSpec, NothingLost, Store!EventSpec

-------------------------------------------------------------------------------
(* The run that explores the lock and the storage. *)
LEMMA EachSide == [LockSteps \/ StorageSteps]_<<side, vars, storageVars>>
                    => [Next]_vars /\ [StorageNext]_storageVars
  BY DEF LockSteps, StorageSteps

(* No request, job, load or compaction, and no start, tool or statement,   *)
(* leaves a value outside its type.                                        *)
THEOREM DatabaseTypes == MCSpec => []TypesOK
<1>1. MCInit => LockInv /\ StorageInv
  BY LockInitInv, InitSound DEF MCInit
<1>2. LockInv /\ [LockSteps \/ StorageSteps]_<<side, vars, storageVars>> => LockInv'
  BY EachSide, LockInductive
<1>3. StorageInv /\ [LockSteps \/ StorageSteps]_<<side, vars, storageVars>> => StorageInv'
  BY EachSide, StorageStep
<1>4. LockInv /\ StorageInv => TypesOK
  BY DEF LockInv, StorageInv, TypesOK
<1>. QED
  BY <1>1, <1>2, <1>3, <1>4, PTL DEF MCSpec
===============================================================================
