--------------------------- MODULE LifespanProofs ---------------------------
(***************************************************************************)
(* The database through any number of starts, kills and shutdowns, in      *)
(* production and in demo mode: what the migration, the scans and the seed *)
(* leave in the file, for any devices, columns, seed and bound on stops.   *)
(***************************************************************************)
EXTENDS Lifespan, TLAPS

Rows == UNION {[D -> {EmptyIp, SomeIp, NULL}] : D \in SUBSET MAC}

Empty == [m \in {} |-> NULL]

\* The rows there were, and what the rebuild of the table makes of them.
Kept(rows) == rows \in {original, Database!NullIf(original)}

\* A committed devices_v2 is only ever found beside the table it is to replace.
DiskInv ==
  /\ disk.devices_v2 # NULL => disk.devices # NULL /\ disk.devices.notnull
  /\ Database!RowsSurvive

\* What the connection sees where init_db is: the old table until it is dropped,
\* its copy from then on, and at last the table every later statement expects.
WorkInv ==
  /\ pc \in {"create v2", "copy", "drop"} =>
       work.devices # NULL /\ work.devices.notnull /\ Kept(work.devices.rows)
  /\ pc \in {"copy", "drop", "rename"} => work.devices_v2 # NULL /\ ~work.devices_v2.notnull
  /\ pc \in {"drop", "rename"} =>
       transaction /\ work.devices_v2.rows = Database!NullIf(original)
  /\ pc = "rename" => work.devices = NULL
  /\ pc \in {"create", "create syslogs", "add columns", "commit", "ready"} =>
       /\ work.devices_v2 = NULL
       /\ IF work.devices = NULL THEN original = Empty
          ELSE ~work.devices.notnull /\ Kept(work.devices.rows)
  /\ pc \in {"create syslogs", "add columns", "commit", "ready"} => work.devices # NULL
  /\ pc \in {"add columns", "commit", "ready"} => work.syslogs
  /\ pc \in {"commit", "ready"} => work.devices.columns = Column

\* Nothing is uncommitted but from the INSERT of the rebuild to the commit.
TransactionInv ==
  /\ ~transaction => work = disk
  /\ transaction => pc \in {"drop", "rename", "create", "create syslogs", "add columns", "commit"}

DatabaseInv ==
  /\ Database!TypeOK
  /\ original \in Rows
  /\ DiskInv
  /\ WorkInv
  /\ TransactionInv

\* Who runs when; the database is ready for whoever may write.
ProcessInv ==
  /\ app \in {"down", "starting", "serving", "stopping"}
  /\ mode \in {"production", "demo"}
  /\ scanning \in BOOLEAN /\ listening \in BOOLEAN
  /\ app = "down" <=> pc = "stopped"
  /\ app \in {"serving", "stopping"} => pc = "ready"
  /\ scanning \/ listening => mode = "production" /\ app \in {"serving", "stopping"}

SeedRows(n) == [m \in {Seed[i] : i \in {j \in DOMAIN Seed : j <= n}} |-> SomeIp]

\* In demo mode the file holds what the calls of the seed made so far have
\* written, and nothing else.
SeedInv ==
  mode = "demo" /\ app \in {"starting", "serving"} =>
    /\ seeded \in 0..SeedSteps
    /\ pc # "ready" => seeded = 0
    /\ app = "serving" => seeded = SeedSteps
    /\ original = SeedRows(seeded)
    /\ gone = IF seeded > Len(Seed) THEN {GoneDevice} ELSE {}
    /\ lines = IF seeded > Len(Seed) THEN seeded - Len(Seed) - 1 ELSE 0

LifespanInv == DatabaseInv /\ ProcessInv /\ SeedInv

-----------------------------------------------------------------------------
(* Tables and rows. *)

LEMMA EmptyFacts == Empty \in Rows /\ Database!NullIf(Empty) = Empty
<1>1. Empty \in [{} -> {EmptyIp, SomeIp, NULL}]
  BY DEF Empty
<1>2. {} \in SUBSET MAC
  OBVIOUS
<1>3. Database!NullIf(Empty) = Empty
  BY DEF Database!NullIf, Empty
<1> QED
  BY <1>1, <1>2, <1>3 DEF Rows

LEMMA RowsType ==
  ASSUME NEW r
  PROVE  r \in Rows <=>
           r = [m \in DOMAIN r |-> r[m]] /\ DOMAIN r \subseteq MAC
             /\ \A m \in DOMAIN r : r[m] \in {EmptyIp, SomeIp, NULL}
BY DEF Rows

LEMMA NullIfFacts ==
  ASSUME NEW r \in Rows
  PROVE  /\ Database!NullIf(r) \in Rows
         /\ Database!NullIf(Database!NullIf(r)) = Database!NullIf(r)
BY RowsType, SchemaConstants DEF Database!NullIf

LEMMA WithFacts ==
  ASSUME NEW r \in Rows, NEW m \in MAC
  PROVE  /\ With(r, m) \in Rows
         /\ Database!NullIf(With(r, m)) = With(Database!NullIf(r), m)
BY RowsType, SchemaConstants DEF Database!NullIf, With

LEMMA TableType ==
  /\ Database!TableState = [notnull : BOOLEAN, columns : SUBSET Column, rows : Rows]
  /\ NULL \notin Database!TableState
BY SchemaConstants DEF Database!TableState, TableState, Rows

LEMMA SchemaType ==
  ASSUME DatabaseInv, NEW d \in {disk, work}
  PROVE  /\ d \in [devices : Database!TableState \cup {NULL},
                   devices_v2 : Database!TableState \cup {NULL}, syslogs : BOOLEAN]
         /\ d.devices # NULL => d.devices \in Database!TableState /\ d.devices.rows \in Rows
         /\ d.devices_v2 # NULL => d.devices_v2 \in Database!TableState
BY TableType DEF DatabaseInv, Database!TypeOK, Database!Schema

-----------------------------------------------------------------------------
(* init_db. *)

LEMMA InitDatabaseInv == Database!Init => DatabaseInv
<1> SUFFICES ASSUME Database!Init PROVE DatabaseInv
  OBVIOUS
<1>1. PICK t \in Database!TableState \cup {NULL} :
        /\ disk = [devices |-> t, devices_v2 |-> NULL, syslogs |-> t # NULL]
        /\ original = IF t = NULL THEN [m \in {} |-> NULL] ELSE t.rows
  BY DEF Database!Init
<1>2. work = disk /\ transaction = FALSE /\ pc = "stopped" /\ stops = 0
  BY DEF Database!Init
<1>3. Database!TypeOK
  <2>1. disk \in Database!Schema
    <3>1. (t # NULL) \in BOOLEAN
      OBVIOUS
    <3> QED
      BY <1>1, <3>1, Zenon DEF Database!Schema
  <2>2. 0 \in 0..MaxStops
    BY SchemaConstants
  <2> QED
    BY <1>2, <2>1, <2>2, Zenon DEF Database!TypeOK
<1>4. original \in Rows
  BY <1>1, EmptyFacts, TableType DEF Empty
<1> QED
  BY <1>1, <1>2, <1>3, <1>4
     DEF DatabaseInv, DiskInv, WorkInv, TransactionInv, Database!RowsSurvive

\* A new connection, or none: it sees the disk and has no transaction.
LEMMA ConnectionDatabaseInv ==
  ASSUME DatabaseInv, pc' \in {"stopped", "check"}, stops' \in 0..MaxStops,
         Database!RollBack, UNCHANGED <<disk, original>>
  PROVE  DatabaseInv'
<1>1. work' = disk /\ transaction' = FALSE
  BY DEF Database!RollBack
<1>2. Database!TypeOK'
  BY <1>1 DEF DatabaseInv, Database!TypeOK
<1>3. DiskInv'
  BY DEF DatabaseInv, DiskInv, Database!RowsSurvive, Database!NullIf
<1> QED
  BY <1>1, <1>2, <1>3 DEF DatabaseInv, WorkInv, TransactionInv

\* Where there is no transaction, init_db looks and decides.
LEMMA CheckDatabaseInv ==
  ASSUME DatabaseInv, Database!CheckNullable
  PROVE  DatabaseInv'
<1>1. /\ pc = "check"
      /\ pc' = IF work.devices # NULL /\ work.devices.notnull THEN "create v2" ELSE "create"
      /\ UNCHANGED <<disk, work, transaction, stops, original>>
  BY DEF Database!CheckNullable
<1>2. work = disk
  BY <1>1 DEF DatabaseInv, TransactionInv
<1>3. Database!TypeOK' /\ DiskInv' /\ TransactionInv'
  BY <1>1 DEF DatabaseInv, DiskInv, TransactionInv, Database!RowsSurvive, Database!NullIf,
              Database!TypeOK
<1>4. Kept(work.devices.rows)' <=> Kept(work.devices.rows)
  BY <1>1 DEF Kept, Database!NullIf
<1>5. WorkInv'
  BY <1>1, <1>2, <1>4
     DEF DatabaseInv, WorkInv, DiskInv, Database!RowsSurvive, Kept, Empty
<1> QED
  BY <1>1, <1>3, <1>5 DEF DatabaseInv

\* A statement outside the rebuild's transaction is committed, so that what it
\* makes of the schema has to be right for a process that dies behind it.
LEMMA StatementDatabaseInv ==
  ASSUME DatabaseInv, NEW schema \in Database!Schema, Database!Execute(schema),
         pc' \in {"copy", "rename", "create", "create syslogs", "add columns"},
         transaction => pc' # "copy",
         ~transaction =>
           /\ schema.devices_v2 # NULL => schema.devices # NULL /\ schema.devices.notnull
           /\ IF schema.devices = NULL THEN original = Empty ELSE Kept(schema.devices.rows),
         WorkInv'
  PROVE  DatabaseInv'
<1>1. /\ work' = schema /\ disk' = (IF transaction THEN disk ELSE schema)
      /\ UNCHANGED <<transaction, stops, original>>
  BY DEF Database!Execute
<1>2. Database!TypeOK'
  BY <1>1 DEF DatabaseInv, Database!TypeOK
<1>3. DiskInv'
  <2>1. CASE transaction
    BY <1>1, <2>1 DEF DatabaseInv, DiskInv, Database!RowsSurvive, Database!NullIf
  <2>2. CASE ~transaction
    BY <1>1, <2>2 DEF DiskInv, Database!RowsSurvive, Database!NullIf, Kept, Empty
  <2> QED
    BY <2>1, <2>2
<1>4. TransactionInv'
  BY <1>1 DEF DatabaseInv, TransactionInv
<1> QED
  BY <1>1, <1>2, <1>3, <1>4 DEF DatabaseInv

LEMMA CreateV2DatabaseInv ==
  ASSUME DatabaseInv, Database!CreateV2
  PROVE  DatabaseInv'
<1> DEFINE schema == [work EXCEPT !.devices_v2 = Database!NewTable({})]
<1>1. /\ pc = "create v2" /\ work.devices_v2 = NULL /\ pc' = "copy"
      /\ Database!Execute(schema)
  BY DEF Database!CreateV2
<1>2. Database!NewTable({}) \in Database!TableState /\ ~Database!NewTable({}).notnull
  BY EmptyFacts, TableType DEF Database!NewTable, Empty
<1>3. work \in Database!Schema /\ transaction = FALSE
  BY <1>1 DEF DatabaseInv, Database!TypeOK, TransactionInv
<1>4. /\ schema \in Database!Schema /\ schema.devices = work.devices
      /\ schema.devices_v2 = Database!NewTable({})
  BY <1>2, <1>3 DEF Database!Schema
<1>5. Kept(work.devices.rows)' <=> Kept(work.devices.rows)
  BY <1>1, <1>4 DEF Database!Execute, Kept, Database!NullIf
<1>6. WorkInv'
  BY <1>1, <1>2, <1>4, <1>5, TableType DEF DatabaseInv, WorkInv, Database!Execute
<1> QED
  BY <1>1, <1>3, <1>4, <1>6, StatementDatabaseInv DEF DatabaseInv, WorkInv

\* The INSERT copies what it reads, with the empty addresses gone, and opens the
\* transaction that holds everything up to the commit.
LEMMA CopyDatabaseInv ==
  ASSUME DatabaseInv, Database!CopyRows
  PROVE  DatabaseInv'
<1> DEFINE copy   == Database!NullIf(work.devices.rows)
           schema == [work EXCEPT !.devices_v2.rows = copy]
<1>1. /\ pc = "copy" /\ pc' = "drop" /\ work' = schema /\ transaction' = TRUE
      /\ UNCHANGED <<disk, stops, original>>
  BY DEF Database!CopyRows, Database!ExecuteInTransaction
<1>2. /\ work.devices # NULL /\ work.devices.notnull /\ Kept(work.devices.rows)
      /\ work.devices_v2 # NULL /\ ~work.devices_v2.notnull
  BY <1>1 DEF DatabaseInv, WorkInv
<1>3. copy = Database!NullIf(original) /\ copy \in Rows
  BY <1>2, NullIfFacts DEF Kept, DatabaseInv
<1>4. work \in [devices : Database!TableState \cup {NULL},
               devices_v2 : Database!TableState \cup {NULL}, syslogs : BOOLEAN]
  BY SchemaType
<1>5. work.devices_v2 \in [notnull : BOOLEAN, columns : SUBSET Column, rows : Rows]
  BY <1>2, <1>4, TableType
<1>6. /\ schema.devices = work.devices /\ schema.devices_v2 \in Database!TableState
      /\ ~schema.devices_v2.notnull /\ schema.devices_v2.rows = copy
      /\ schema \in Database!Schema
  BY <1>2, <1>3, <1>4, <1>5, TableType DEF Database!Schema
<1>7. Database!TypeOK' /\ DiskInv' /\ TransactionInv'
  BY <1>1, <1>6 DEF DatabaseInv, Database!TypeOK, DiskInv, TransactionInv,
                    Database!RowsSurvive, Database!NullIf
<1>8. Kept(work.devices.rows)' <=> Kept(work.devices.rows)
  BY <1>1, <1>6 DEF Kept, Database!NullIf
<1>9. Database!NullIf(original)' = Database!NullIf(original)
  BY <1>1 DEF Database!NullIf
<1>10. WorkInv'
  BY <1>1, <1>2, <1>3, <1>6, <1>8, <1>9, TableType DEF WorkInv
<1> QED
  BY <1>1, <1>7, <1>10 DEF DatabaseInv

LEMMA DropDatabaseInv ==
  ASSUME DatabaseInv, Database!DropOld
  PROVE  DatabaseInv'
<1> DEFINE schema == [work EXCEPT !.devices = NULL]
<1>1. pc = "drop" /\ pc' = "rename" /\ Database!Execute(schema)
  BY DEF Database!DropOld
<1>2. work \in Database!Schema /\ transaction
  BY <1>1 DEF DatabaseInv, Database!TypeOK, WorkInv
<1>3. /\ schema \in Database!Schema /\ schema.devices = NULL
      /\ schema.devices_v2 = work.devices_v2
  BY <1>2 DEF Database!Schema
<1>4. Database!NullIf(original)' = Database!NullIf(original)
  BY <1>1 DEF Database!Execute, Database!NullIf
<1>5. WorkInv'
  BY <1>1, <1>3, <1>4 DEF DatabaseInv, WorkInv, Database!Execute
<1> QED
  BY <1>1, <1>2, <1>3, <1>5, StatementDatabaseInv

LEMMA RenameDatabaseInv ==
  ASSUME DatabaseInv, Database!RenameV2
  PROVE  DatabaseInv'
<1> DEFINE schema == [work EXCEPT !.devices = work.devices_v2, !.devices_v2 = NULL]
<1>1. pc = "rename" /\ pc' = "create" /\ Database!Execute(schema)
  BY DEF Database!RenameV2
<1>2. work \in Database!Schema /\ transaction
  BY <1>1 DEF DatabaseInv, Database!TypeOK, WorkInv
<1>3. /\ schema \in Database!Schema /\ schema.devices = work.devices_v2
      /\ schema.devices_v2 = NULL
  BY <1>2 DEF Database!Schema
<1>4. Database!NullIf(original)' = Database!NullIf(original) /\ original' = original
  BY <1>1 DEF Database!Execute, Database!NullIf
<1>5. WorkInv'
  BY <1>1, <1>3, <1>4 DEF DatabaseInv, WorkInv, Database!Execute, Kept
<1> QED
  BY <1>1, <1>2, <1>3, <1>5, StatementDatabaseInv

\* CREATE TABLE IF NOT EXISTS, of both tables.
LEMMA CreateDatabaseInv ==
  ASSUME DatabaseInv, Database!CreateDevices \/ Database!CreateSyslogs
  PROVE  DatabaseInv'
<1>1. /\ work \in Database!Schema /\ original' = original
      /\ Database!NullIf(original)' = Database!NullIf(original)
  BY DEF DatabaseInv, Database!TypeOK, Database!CreateDevices, Database!CreateSyslogs,
         Database!Execute, Database!NullIf
<1>2. CASE Database!CreateDevices
  <2> DEFINE new    == Database!NewTable(Column \ {"syslog_ip"})
             schema == [work EXCEPT !.devices = IF work.devices = NULL THEN new
                                                ELSE work.devices]
  <2>1. pc = "create" /\ pc' = "create syslogs" /\ Database!Execute(schema)
    BY <1>2 DEF Database!CreateDevices
  <2>2. new \in Database!TableState /\ ~new.notnull /\ new.rows = Empty
    BY EmptyFacts, TableType DEF Database!NewTable, Empty
  <2>3. /\ schema \in Database!Schema /\ schema.devices_v2 = work.devices_v2
        /\ schema.devices = IF work.devices = NULL THEN new ELSE work.devices
    BY <1>1, <2>2 DEF Database!Schema
  <2>4. /\ schema.devices_v2 = NULL /\ schema.devices # NULL
        /\ ~schema.devices.notnull /\ Kept(schema.devices.rows)
    BY <2>1, <2>2, <2>3, TableType DEF DatabaseInv, WorkInv, Kept
  <2>5. WorkInv'
    BY <1>1, <2>1, <2>4 DEF WorkInv, Database!Execute, Kept
  <2> QED
    BY <2>1, <2>3, <2>4, <2>5, StatementDatabaseInv
<1>3. CASE Database!CreateSyslogs
  <2> DEFINE schema == [work EXCEPT !.syslogs = TRUE]
  <2>1. pc = "create syslogs" /\ pc' = "add columns" /\ Database!Execute(schema)
    BY <1>3 DEF Database!CreateSyslogs
  <2>2. /\ schema \in Database!Schema /\ schema.devices_v2 = work.devices_v2
        /\ schema.devices = work.devices /\ schema.syslogs
    BY <1>1 DEF Database!Schema
  <2>3. /\ schema.devices_v2 = NULL /\ schema.devices # NULL
        /\ ~schema.devices.notnull /\ Kept(schema.devices.rows)
    BY <2>1, <2>2 DEF DatabaseInv, WorkInv
  <2>4. WorkInv'
    BY <1>1, <2>1, <2>2, <2>3 DEF WorkInv, Database!Execute, Kept
  <2> QED
    BY <2>1, <2>2, <2>3, <2>4, StatementDatabaseInv
<1> QED
  BY <1>2, <1>3

LEMMA AddColumnDatabaseInv ==
  ASSUME DatabaseInv, NEW c \in Column, Database!AddColumn(c)
  PROVE  /\ DatabaseInv'
         /\ work'.devices # NULL /\ work'.devices.notnull = work.devices.notnull
         /\ work.devices.columns \subseteq work'.devices.columns
<1> DEFINE schema == [work EXCEPT !.devices.columns = @ \cup {c}]
<1>1. pc = "add columns" /\ pc' = pc /\ Database!Execute(schema)
  BY DEF Database!AddColumn
<1>2. /\ work.devices_v2 = NULL /\ work.devices # NULL
      /\ ~work.devices.notnull /\ Kept(work.devices.rows) /\ work.syslogs
  BY <1>1 DEF DatabaseInv, WorkInv
<1>3. work \in [devices : Database!TableState \cup {NULL},
               devices_v2 : Database!TableState \cup {NULL}, syslogs : BOOLEAN]
  BY SchemaType
<1>4. work.devices \in [notnull : BOOLEAN, columns : SUBSET Column, rows : Rows]
  BY <1>2, <1>3, TableType
<1>5. /\ schema.devices \in Database!TableState
      /\ schema.devices.rows = work.devices.rows
      /\ schema.devices.notnull = work.devices.notnull
      /\ schema.devices.columns = work.devices.columns \cup {c}
      /\ schema.devices_v2 = NULL /\ schema.syslogs = work.syslogs
      /\ schema \in Database!Schema
  BY <1>2, <1>3, <1>4, TableType DEF Database!Schema
<1>6. /\ work' = schema /\ original' = original
      /\ Database!NullIf(original)' = Database!NullIf(original)
  BY <1>1 DEF Database!Execute, Database!NullIf
<1>7. WorkInv'
  BY <1>1, <1>2, <1>5, <1>6, TableType DEF WorkInv, Kept
<1>8. Kept(schema.devices.rows)
  BY <1>2, <1>5
<1> QED
  BY <1>1, <1>2, <1>5, <1>6, <1>7, <1>8, TableType, StatementDatabaseInv

LEMMA CommitDatabaseInv ==
  ASSUME DatabaseInv, Database!ColumnsAdded \/ Database!Commit
  PROVE  DatabaseInv'
<1>1. /\ UNCHANGED <<work, stops, original>>
      /\ Database!NullIf(original)' = Database!NullIf(original)
  BY DEF Database!ColumnsAdded, Database!Commit, Database!NullIf
<1>2. CASE Database!ColumnsAdded
  <2>1. /\ pc = "add columns" /\ pc' = "commit" /\ Column \subseteq work.devices.columns
        /\ UNCHANGED <<disk, transaction>>
    BY <1>2 DEF Database!ColumnsAdded
  <2>2. work.devices # NULL /\ work.devices \in Database!TableState
    BY <2>1, SchemaType DEF DatabaseInv, WorkInv
  <2>3. work.devices.columns = Column
    BY <2>1, <2>2, TableType
  <2> QED
    BY <1>1, <2>1, <2>3
       DEF DatabaseInv, Database!TypeOK, DiskInv, WorkInv, TransactionInv,
           Database!RowsSurvive, Kept
<1>3. CASE Database!Commit
  <2>1. pc = "commit" /\ pc' = "ready" /\ disk' = work /\ transaction' = FALSE
    BY <1>3 DEF Database!Commit
  <2>2. WorkInv' /\ TransactionInv' /\ Database!TypeOK'
    BY <1>1, <2>1 DEF DatabaseInv, Database!TypeOK, WorkInv, TransactionInv, Kept
  <2>3. DiskInv'
    BY <1>1, <2>1 DEF DatabaseInv, DiskInv, WorkInv, Database!RowsSurvive, Kept, Empty
  <2> QED
    BY <1>1, <2>2, <2>3 DEF DatabaseInv
<1> QED
  BY <1>2, <1>3

LEMMA MigrateDatabaseInv ==
  ASSUME DatabaseInv, Database!InitDb
  PROVE  DatabaseInv' /\ original' = original
<1>1. CASE Database!Connect \/ Database!CreateV2Raises
  <2>1. stops' \in 0..MaxStops
    BY <1>1 DEF Database!Connect, Database!CreateV2Raises, DatabaseInv, Database!TypeOK
  <2> QED
    BY <1>1, <2>1, ConnectionDatabaseInv DEF Database!Connect, Database!CreateV2Raises
<1>2. CASE Database!CheckNullable
  BY <1>2, CheckDatabaseInv DEF Database!CheckNullable
<1>3. CASE Database!CreateV2
  BY <1>3, CreateV2DatabaseInv DEF Database!CreateV2, Database!Execute
<1>4. CASE Database!CopyRows
  BY <1>4, CopyDatabaseInv DEF Database!CopyRows, Database!ExecuteInTransaction
<1>5. CASE Database!DropOld
  BY <1>5, DropDatabaseInv DEF Database!DropOld, Database!Execute
<1>6. CASE Database!RenameV2
  BY <1>6, RenameDatabaseInv DEF Database!RenameV2, Database!Execute
<1>7. CASE Database!CreateDevices \/ Database!CreateSyslogs
  BY <1>7, CreateDatabaseInv DEF Database!CreateDevices, Database!CreateSyslogs, Database!Execute
<1>8. ASSUME NEW c \in Column, Database!AddColumn(c)
      PROVE  DatabaseInv' /\ original' = original
  BY <1>8, AddColumnDatabaseInv DEF Database!AddColumn, Database!Execute
<1>9. CASE Database!ColumnsAdded \/ Database!Commit
  BY <1>9, CommitDatabaseInv DEF Database!ColumnsAdded, Database!Commit
<1> QED
  BY <1>1, <1>2, <1>3, <1>4, <1>5, <1>6, <1>7, <1>8, <1>9 DEF Database!InitDb

-----------------------------------------------------------------------------
(* The rest of a life: starts, writes, ends. *)

\* What a caller finds once init_db has returned.
LEMMA ReadyFacts ==
  ASSUME DatabaseInv, pc = "ready"
  PROVE  /\ Database!ReadyMeansMigrated
         /\ transaction = FALSE /\ work = disk
         /\ disk.devices \in Database!TableState /\ disk.devices.rows \in Rows
<1>1. transaction = FALSE /\ work = disk
  BY DEF DatabaseInv, TransactionInv, Database!TypeOK
<1> QED
  BY <1>1, SchemaType DEF DatabaseInv, WorkInv, Database!ReadyMeansMigrated

LEMMA WriteDatabaseInv ==
  ASSUME DatabaseInv, pc = "ready", NEW m \in MAC,
         disk' = [disk EXCEPT !.devices.rows = With(@, m)],
         work' = disk', original' = With(original, m),
         pc' \in {"ready", "stopped"}, transaction' = FALSE, stops' = stops
  PROVE  DatabaseInv'
<1>1. /\ disk.devices # NULL /\ ~disk.devices.notnull /\ disk.devices.columns = Column
      /\ disk.devices_v2 = NULL /\ disk.syslogs /\ work = disk
      /\ disk.devices \in Database!TableState /\ disk.devices.rows \in Rows
  BY ReadyFacts DEF Database!ReadyMeansMigrated
<1>2. With(disk.devices.rows, m) \in Rows /\ original' \in Rows
  BY <1>1, WithFacts DEF DatabaseInv
<1>3. With(disk.devices.rows, m) \in {With(original, m), With(Database!NullIf(original), m)}
  BY <1>1 DEF DatabaseInv, DiskInv, Database!RowsSurvive
<1>4. Database!NullIf(original)' = With(Database!NullIf(original), m)
  BY WithFacts DEF DatabaseInv, Database!NullIf
<1>5. disk \in [devices : Database!TableState \cup {NULL},
               devices_v2 : Database!TableState \cup {NULL}, syslogs : BOOLEAN]
  BY SchemaType
<1>6. disk.devices \in [notnull : BOOLEAN, columns : SUBSET Column, rows : Rows]
  BY <1>1, TableType
<1>7. /\ disk' \in Database!Schema /\ disk'.devices \in Database!TableState
      /\ disk'.devices.rows = With(disk.devices.rows, m)
      /\ ~disk'.devices.notnull /\ disk'.devices.columns = Column
      /\ disk'.devices_v2 = NULL /\ disk'.syslogs
  BY <1>1, <1>2, <1>5, <1>6, TableType DEF Database!Schema
<1>8. disk'.devices # NULL
  BY <1>7, TableType
<1>9. Database!TypeOK'
  BY <1>7 DEF DatabaseInv, Database!TypeOK
<1>10. DiskInv' /\ WorkInv' /\ TransactionInv'
  BY <1>3, <1>4, <1>7, <1>8 DEF DiskInv, WorkInv, TransactionInv, Database!RowsSurvive, Kept
<1> QED
  BY <1>2, <1>9, <1>10 DEF DatabaseInv

\* seed_demo_db starts from no file at all.
LEMMA NoDatabaseInv ==
  ASSUME DatabaseInv, disk' = NoDatabase, work' = NoDatabase, transaction' = FALSE,
         original' = [m \in {} |-> NULL], pc' = "check", stops' = stops
  PROVE  DatabaseInv'
<1>1. NoDatabase \in Database!Schema
  BY DEF NoDatabase, Database!Schema
<1>2. Database!TypeOK'
  BY <1>1 DEF DatabaseInv, Database!TypeOK
<1> QED
  BY <1>2, EmptyFacts
     DEF DatabaseInv, DiskInv, WorkInv, TransactionInv, Database!RowsSurvive, NoDatabase, Empty

LEMMA SeedType ==
  /\ Seed \in Seq(MAC) /\ Len(Seed) \in Nat \ {0} /\ DOMAIN Seed = 1..Len(Seed)
  /\ \A i \in 1..Len(Seed) : Seed[i] \in MAC
  /\ SeedSteps \in Nat /\ Len(Seed) < SeedSteps
  /\ GoneDevice \in MAC
BY LifespanConstants DEF SeedSteps, GoneDevice

LEMMA SeedRowsFacts ==
  /\ SeedRows(0) = Empty
  /\ \A n \in 0..(Len(Seed) - 1) : SeedRows(n + 1) = With(SeedRows(n), Seed[n + 1])
  /\ \A n \in Nat : n >= Len(Seed) => SeedRows(n) = [m \in DemoDevices |-> SomeIp]
<1>1. SeedRows(0) = Empty
  <2>1. {j \in DOMAIN Seed : j <= 0} = {}
    BY SeedType
  <2> QED
    BY <2>1 DEF SeedRows, Empty
<1>2. ASSUME NEW n \in 0..(Len(Seed) - 1)
      PROVE  SeedRows(n + 1) = With(SeedRows(n), Seed[n + 1])
  <2>1. {j \in DOMAIN Seed : j <= n + 1} = {j \in DOMAIN Seed : j <= n} \cup {n + 1}
    BY SeedType
  <2>2. {Seed[i] : i \in {j \in DOMAIN Seed : j <= n + 1}}
          = {Seed[i] : i \in {j \in DOMAIN Seed : j <= n}} \cup {Seed[n + 1]}
    BY <2>1
  <2> QED
    BY <2>2 DEF SeedRows, With
<1>3. ASSUME NEW n \in Nat, n >= Len(Seed)
      PROVE  SeedRows(n) = [m \in DemoDevices |-> SomeIp]
  <2>1. {j \in DOMAIN Seed : j <= n} = DOMAIN Seed
    BY <1>3, SeedType
  <2> QED
    BY <2>1 DEF SeedRows, DemoDevices
<1> QED
  BY <1>1, <1>2, <1>3

LEMMA InitLifespanInv == Init => LifespanInv
<1> SUFFICES ASSUME Init PROVE LifespanInv
  OBVIOUS
<1>1. DatabaseInv
  BY InitDatabaseInv DEF Init
<1>2. ProcessInv /\ SeedInv
  BY DEF Init, Database!Init, ProcessInv, SeedInv
<1> QED
  BY <1>1, <1>2 DEF LifespanInv

LEMMA StartLifespanInv ==
  ASSUME LifespanInv, StartProduction \/ StartDemo
  PROVE  LifespanInv'
<1>1. app = "down" /\ app' = "starting" /\ seeded' = 0 /\ UNCHANGED <<scanning, listening>>
  BY DEF StartProduction, StartDemo, Launch
<1>2. ~scanning /\ ~listening /\ scanning \in BOOLEAN /\ listening \in BOOLEAN
  BY <1>1 DEF LifespanInv, ProcessInv
<1>3. CASE StartProduction
  <2>1. mode' = "production" /\ Database!Connect
    BY <1>3 DEF StartProduction, Launch
  <2>2. DatabaseInv'
    BY <2>1, MigrateDatabaseInv DEF LifespanInv, Database!InitDb
  <2> QED
    BY <1>1, <1>2, <2>1, <2>2 DEF LifespanInv, ProcessInv, SeedInv, Database!Connect
<1>4. CASE StartDemo
  <2>1. /\ mode' = "demo" /\ pc' = "check" /\ original' = Empty
        /\ gone' = {} /\ lines' = 0
    BY <1>4 DEF StartDemo, Launch, Empty
  <2>2. DatabaseInv'
    BY <1>4, NoDatabaseInv DEF StartDemo, LifespanInv
  <2>3. ProcessInv'
    BY <1>1, <1>2, <2>1 DEF ProcessInv
  <2>4. SeedInv'
    BY <1>1, <2>1, SeedType, SeedRowsFacts DEF SeedInv
  <2> QED
    BY <2>2, <2>3, <2>4 DEF LifespanInv
<1> QED
  BY <1>3, <1>4

LEMMA InitDbLifespanInv ==
  ASSUME LifespanInv, InitDb
  PROVE  LifespanInv'
<1>1. /\ app = "starting" /\ Database!InitDb
      /\ app' = (IF pc' = "stopped" THEN "down" ELSE "starting")
      /\ UNCHANGED <<mode, scanning, listening, seeded, gone, lines>>
  BY DEF InitDb, content
<1>2. DatabaseInv' /\ original' = original
  BY <1>1, MigrateDatabaseInv DEF LifespanInv
<1>3. pc # "ready"
  BY <1>1
     DEF Database!InitDb, Database!Connect, Database!CheckNullable, Database!CreateV2,
         Database!CreateV2Raises, Database!CopyRows, Database!DropOld, Database!RenameV2,
         Database!CreateDevices, Database!CreateSyslogs, Database!AddColumn,
         Database!ColumnsAdded, Database!Commit
<1>4. ProcessInv'
  BY <1>1 DEF LifespanInv, ProcessInv
<1>5. SeedInv'
  BY <1>1, <1>2, <1>3, SeedType DEF LifespanInv, SeedInv, SeedRows
<1> QED
  BY <1>2, <1>4, <1>5 DEF LifespanInv

LEMMA SeedLifespanInv ==
  ASSUME LifespanInv, SeedDemo
  PROVE  LifespanInv'
<1>1. /\ app = "starting" /\ mode = "demo" /\ pc = "ready" /\ seeded' = seeded + 1
      /\ UNCHANGED <<app, mode, scanning, listening>>
  BY DEF SeedDemo
<1>2. /\ seeded \in 0..SeedSteps /\ original = SeedRows(seeded)
      /\ gone = IF seeded > Len(Seed) THEN {GoneDevice} ELSE {}
      /\ lines = IF seeded > Len(Seed) THEN seeded - Len(Seed) - 1 ELSE 0
  BY <1>1 DEF LifespanInv, SeedInv
<1>3. CASE seeded < Len(Seed) /\ UpsertDevice(Seed[seeded + 1])
  <2>1. seeded \in 0..(Len(Seed) - 1) /\ Seed[seeded + 1] \in MAC
    BY <1>2, <1>3, SeedType
  <2>2. /\ original' = With(original, Seed[seeded + 1]) /\ pc' = pc
        /\ gone' = gone \ {Seed[seeded + 1]} /\ lines' = lines
    BY <1>3 DEF UpsertDevice
  <2>3. transaction' = FALSE
    BY <1>1, <1>3, ReadyFacts DEF UpsertDevice, LifespanInv
  <2>4. DatabaseInv'
    BY <1>1, <1>3, <2>1, <2>3, WriteDatabaseInv DEF UpsertDevice, LifespanInv
  <2>5. original' = SeedRows(seeded + 1)
    BY <1>2, <2>1, <2>2, SeedRowsFacts
  <2>6. /\ seeded' \in 0..SeedSteps /\ ~(seeded' > Len(Seed))
        /\ gone' = {} /\ lines' = 0
    BY <1>1, <1>2, <2>1, <2>2, SeedType
  <2>7. SeedInv'
    BY <1>1, <2>2, <2>5, <2>6 DEF SeedInv
  <2> QED
    BY <1>1, <2>2, <2>4, <2>7 DEF LifespanInv, ProcessInv
<1>4. CASE \/ seeded = Len(Seed) /\ CountMissing(GoneDevice)
           \/ seeded \in Len(Seed) + 1..SeedSteps - 1 /\ InsertLine
  <2>1. UNCHANGED database /\ seeded \in Len(Seed)..(SeedSteps - 1)
    BY <1>4, SeedType DEF CountMissing, InsertLine
  <2>2. UNCHANGED <<disk, work, transaction, pc, stops, original>>
    BY <2>1 DEF database
  <2>3. DatabaseInv' /\ ProcessInv'
    BY <1>1, <2>2
       DEF LifespanInv, DatabaseInv, Database!TypeOK, DiskInv, WorkInv, TransactionInv, Kept,
           Database!RowsSurvive, Database!NullIf, ProcessInv
  <2>4. SeedRows(seeded + 1) = SeedRows(seeded)
    BY <2>1, SeedType, SeedRowsFacts
  <2>5. gone' = {GoneDevice} /\ lines' = seeded' - Len(Seed) - 1
    <3>1. CASE seeded = Len(Seed) /\ CountMissing(GoneDevice)
      BY <1>1, <1>2, <3>1, SeedType DEF CountMissing
    <3>2. CASE seeded \in Len(Seed) + 1..SeedSteps - 1 /\ InsertLine
      BY <1>1, <1>2, <3>2, SeedType DEF InsertLine
    <3> QED
      BY <1>4, <3>1, <3>2
  <2>6. SeedInv'
    BY <1>1, <1>2, <2>1, <2>2, <2>4, <2>5, SeedType DEF SeedInv, SeedRows
  <2> QED
    BY <2>3, <2>6 DEF LifespanInv
<1> QED
  BY <1>3, <1>4 DEF SeedDemo

\* Steps that leave the database alone and write nothing.
LEMMA QuietLifespanInv ==
  ASSUME LifespanInv, StartTasks(TRUE) \/ StartTasks(FALSE) \/ ServeDemo \/ Terminate
                        \/ UNCHANGED vars
  PROVE  LifespanInv'
<1>1. UNCHANGED <<disk, work, transaction, pc, stops, original, mode, seeded, gone, lines>>
  BY DEF StartTasks, ServeDemo, Terminate, vars, database, process, content
<1>2. DatabaseInv'
  BY <1>1
     DEF LifespanInv, DatabaseInv, Database!TypeOK, DiskInv, WorkInv, TransactionInv, Kept,
         Database!RowsSurvive, Database!NullIf
<1>3. ProcessInv' /\ SeedInv'
  <2>1. CASE StartTasks(TRUE) \/ StartTasks(FALSE)
    BY <1>1, <2>1 DEF StartTasks, LifespanInv, ProcessInv, SeedInv
  <2>2. CASE ServeDemo
    <3>1. /\ app = "starting" /\ mode = "demo" /\ seeded = SeedSteps /\ app' = "serving"
          /\ UNCHANGED <<scanning, listening>>
      BY <2>2 DEF ServeDemo
    <3>2. pc = "ready"
      BY <3>1, SeedType DEF LifespanInv, SeedInv
    <3> QED
      BY <1>1, <3>1, <3>2 DEF LifespanInv, ProcessInv, SeedInv, SeedRows
  <2>3. CASE Terminate
    BY <1>1, <2>3 DEF Terminate, LifespanInv, ProcessInv, SeedInv
  <2>4. CASE UNCHANGED vars
    BY <1>1, <2>4 DEF vars, process, LifespanInv, ProcessInv, SeedInv, SeedRows
  <2> QED
    BY <2>1, <2>2, <2>3, <2>4
<1> QED
  BY <1>2, <1>3 DEF LifespanInv

\* The scan loop and the syslog tasks, which a demo does not have.
LEMMA ServingLifespanInv ==
  ASSUME LifespanInv, Scan \/ Receive
  PROVE  LifespanInv'
<1>1. UNCHANGED <<app, mode, scanning, listening, seeded>>
  BY DEF Scan, Receive, process
<1>2. mode = "production" /\ pc = "ready"
  BY DEF Scan, Receive, LifespanInv, ProcessInv
<1>3. DatabaseInv' /\ pc' = pc
  <2>1. ASSUME NEW m \in MAC, UpsertDevice(m)
        PROVE  DatabaseInv' /\ pc' = pc
    <3>1. transaction' = FALSE /\ pc' = pc
      BY <1>2, <2>1, ReadyFacts DEF UpsertDevice, LifespanInv
    <3> QED
      BY <1>2, <2>1, <3>1, WriteDatabaseInv DEF UpsertDevice, LifespanInv
  <2>2. CASE UNCHANGED database
    BY <2>2
       DEF database, LifespanInv, DatabaseInv, Database!TypeOK, DiskInv, WorkInv,
           TransactionInv, Kept, Database!RowsSurvive, Database!NullIf
  <2> QED
    BY <2>1, <2>2 DEF Scan, Receive, CountMissing, InsertLine
<1> QED
  BY <1>1, <1>2, <1>3 DEF LifespanInv, ProcessInv, SeedInv

LEMMA EndLifespanInv ==
  ASSUME LifespanInv, ShutDown \/ Kill
  PROVE  LifespanInv'
<1>1. /\ app' = "down" /\ pc' = "stopped" /\ scanning' = FALSE /\ listening' = FALSE
      /\ mode' = mode /\ mode \in {"production", "demo"}
  BY DEF ShutDown, Kill, Down, Database!Stop, LifespanInv, ProcessInv
<1>2. CASE ShutDown
  <2>1. pc = "ready"
    BY <1>2 DEF ShutDown, LifespanInv, ProcessInv
  <2>2. work' = disk' /\ transaction' = FALSE /\ stops' = stops
    BY <1>2 DEF ShutDown
  <2>3. ASSUME UNCHANGED <<disk, original>>
        PROVE  DatabaseInv'
    <3>1. stops' \in 0..MaxStops /\ Database!RollBack
      BY <2>2, <2>3 DEF LifespanInv, DatabaseInv, Database!TypeOK, Database!RollBack
    <3> QED
      BY <1>1, <2>3, <3>1, ConnectionDatabaseInv DEF LifespanInv
  <2>4. ASSUME NEW m \in MAC, disk' = [disk EXCEPT !.devices.rows = With(@, m)],
               original' = With(original, m)
        PROVE  DatabaseInv'
    BY <1>1, <2>1, <2>2, <2>4, WriteDatabaseInv DEF LifespanInv
  <2>5. DatabaseInv'
    BY <1>2, <2>3, <2>4 DEF ShutDown
  <2> QED
    BY <1>1, <2>5 DEF LifespanInv, ProcessInv, SeedInv
<1>3. CASE Kill
  <2>1. /\ stops' = stops + 1 /\ stops < MaxStops
        /\ Database!RollBack /\ UNCHANGED <<disk, original>>
    BY <1>3 DEF Kill, Database!Stop
  <2>2. stops' \in 0..MaxStops
    <3>1. stops \in 0..MaxStops
      BY DEF LifespanInv, DatabaseInv, Database!TypeOK
    <3> QED
      BY <2>1, <3>1, SchemaConstants
  <2>3. DatabaseInv'
    BY <1>1, <2>1, <2>2, ConnectionDatabaseInv DEF LifespanInv
  <2> QED
    BY <1>1, <2>3 DEF LifespanInv, ProcessInv, SeedInv
<1> QED
  BY <1>2, <1>3

LEMMA NextLifespanInv == LifespanInv /\ [Next]_vars => LifespanInv'
<1> SUFFICES ASSUME LifespanInv, [Next]_vars PROVE LifespanInv'
  OBVIOUS
<1>1. CASE StartUp
  BY <1>1, InitDbLifespanInv, SeedLifespanInv, QuietLifespanInv DEF StartUp
<1> QED
  BY <1>1, StartLifespanInv, QuietLifespanInv, ServingLifespanInv, EndLifespanInv DEF Next

LEMMA LifespanInvariant == Spec => []LifespanInv
BY InitLifespanInv, NextLifespanInv, PTL DEF Spec

-----------------------------------------------------------------------------
(* The migration on its own, as migration_stuck.cfg runs it: it loses nothing *)
(* and hands over a complete schema, but may have to be finished by hand.     *)

LEMMA NextDatabaseInv == DatabaseInv /\ [Database!Next]_(Database!vars) => DatabaseInv'
<1> SUFFICES ASSUME DatabaseInv, [Database!Next]_(Database!vars) PROVE DatabaseInv'
  OBVIOUS
<1>1. CASE Database!InitDb
  BY <1>1, MigrateDatabaseInv
<1>2. CASE Database!Stop
  <2>1. /\ stops' = stops + 1 /\ stops < MaxStops /\ pc' = "stopped"
        /\ Database!RollBack /\ UNCHANGED <<disk, original>>
    BY <1>2 DEF Database!Stop
  <2>2. stops \in 0..MaxStops
    BY DEF DatabaseInv, Database!TypeOK
  <2>3. stops' \in 0..MaxStops
    BY <2>1, <2>2, SchemaConstants
  <2> QED
    BY <2>1, <2>3, ConnectionDatabaseInv
<1>3. CASE UNCHANGED Database!vars
  <2>1. UNCHANGED <<disk, work, transaction, pc, stops, original>>
    BY <1>3 DEF Database!vars
  <2> QED
    BY <2>1 DEF DatabaseInv, DiskInv, WorkInv, TransactionInv, Kept, Database!TypeOK,
                Database!RowsSurvive, Database!NullIf
<1> QED
  BY <1>1, <1>2, <1>3 DEF Database!Next

\* Wherever init_db is stopped, and however often, the committed database holds every
\* row with its address; and once it returned, the schema is complete and committed.
THEOREM MigrationIsSafe ==
  Database!Spec => [](Database!TypeOK /\ Database!RowsSurvive /\ Database!ReadyMeansMigrated)
<1>1. DatabaseInv => Database!TypeOK /\ Database!RowsSurvive /\ Database!ReadyMeansMigrated
  <2> SUFFICES ASSUME DatabaseInv
               PROVE  Database!TypeOK /\ Database!RowsSurvive /\ Database!ReadyMeansMigrated
    OBVIOUS
  <2>1. CASE pc = "ready"
    BY <2>1, ReadyFacts DEF DatabaseInv, DiskInv
  <2>2. CASE pc # "ready"
    BY <2>2 DEF DatabaseInv, DiskInv, Database!ReadyMeansMigrated
  <2> QED
    BY <2>1, <2>2
<1> QED
  BY <1>1, InitDatabaseInv, NextDatabaseInv, PTL DEF Database!Spec

\* A devices_v2 beside the table it was to replace, and init_db on its way to the
\* CREATE that raises because of it.
Stuck ==
  /\ pc \in {"stopped", "check", "create v2"}
  /\ disk.devices # NULL /\ disk.devices.notnull /\ disk.devices_v2 # NULL
  /\ work = disk /\ transaction = FALSE

\* database.py:68 commits CREATE TABLE devices_v2 on its own: a stop before the INSERT
\* that follows leaves a database of which no later start gets past that CREATE.
THEOREM StopBeforeCopySticks ==
  Database!Spec => [][Stuck \/ (pc = "copy" /\ Database!Stop) => Stuck']_(Database!vars)
<1>1. DatabaseInv /\ [Database!Next]_(Database!vars) =>
        [Stuck \/ (pc = "copy" /\ Database!Stop) => Stuck']_(Database!vars)
  <2> SUFFICES ASSUME DatabaseInv, Database!Next, Stuck \/ (pc = "copy" /\ Database!Stop)
               PROVE  Stuck'
    OBVIOUS
  <2>1. CASE pc = "copy" /\ Database!Stop
    <3>1. work = disk /\ work.devices # NULL /\ work.devices.notnull /\ work.devices_v2 # NULL
      BY <2>1 DEF DatabaseInv, WorkInv, TransactionInv
    <3> QED
      BY <2>1, <3>1 DEF Database!Stop, Database!RollBack, Stuck
  <2>2. CASE Stuck
    <3>1. CASE Database!Connect \/ Database!CheckNullable \/ Database!CreateV2Raises \/ Database!Stop
      BY <2>2, <3>1 DEF Stuck, Database!Connect, Database!CheckNullable, Database!CreateV2Raises,
                        Database!Stop, Database!RollBack
    <3>2. ~Database!CreateV2
      BY <2>2 DEF Stuck, Database!CreateV2
    <3>3. pc \in {"stopped", "check", "create v2"}
      BY <2>2 DEF Stuck
    <3> QED
      BY <3>1, <3>2, <3>3
      DEF Database!Next, Database!InitDb, Database!CopyRows, Database!DropOld, Database!RenameV2,
          Database!CreateDevices, Database!CreateSyslogs, Database!AddColumn,
          Database!ColumnsAdded, Database!Commit
  <2> QED
    BY <2>1, <2>2
<1> QED
  BY <1>1, InitDatabaseInv, NextDatabaseInv, PTL DEF Database!Spec

-----------------------------------------------------------------------------
(* What holds of every life. *)

\* However often and in whatever order the process starts, migrates, scans, seeds,
\* shuts down or is killed, the committed devices table holds every device it held
\* at first and every one written since, each with its address.
THEOREM RowsAlwaysSurvive == Spec => []RowsSurvive
<1>1. LifespanInv => RowsSurvive
  BY DEF LifespanInv, DatabaseInv, DiskInv, RowsSurvive
<1> QED
  BY <1>1, LifespanInvariant, PTL

\* The scan loop, the syslog tasks and the requests only ever run on the complete,
\* committed schema.
THEOREM WritersAlwaysFindSchema == Spec => []WritersFindSchema
<1>1. LifespanInv => WritersFindSchema
  BY ReadyFacts DEF LifespanInv, ProcessInv, WritersFindSchema
<1> QED
  BY <1>1, LifespanInvariant, PTL

\* A demo serves its seed, the whole of it and no more, whatever was in the file
\* that it removed.
THEOREM DemoAlwaysServesSeed == Spec => []DemoServesSeed
<1>1. LifespanInv => DemoServesSeed
  <2> SUFFICES ASSUME LifespanInv, app = "serving", mode = "demo"
               PROVE  /\ disk.devices.rows = [m \in DemoDevices |-> SomeIp]
                      /\ gone = {GoneDevice} /\ lines = SeedLines
    BY DEF DemoServesSeed
  <2>1. /\ original = SeedRows(SeedSteps)
        /\ gone = IF SeedSteps > Len(Seed) THEN {GoneDevice} ELSE {}
        /\ lines = IF SeedSteps > Len(Seed) THEN SeedSteps - Len(Seed) - 1 ELSE 0
    BY DEF LifespanInv, SeedInv
  <2>2. SeedRows(SeedSteps) = [m \in DemoDevices |-> SomeIp]
    BY SeedType, SeedRowsFacts
  <2>3. Database!NullIf(original) = original
    BY <2>1, <2>2, SchemaConstants DEF Database!NullIf
  <2>4. disk.devices # NULL
    BY ReadyFacts DEF LifespanInv, ProcessInv, Database!ReadyMeansMigrated
  <2>5. disk.devices.rows = original
    BY <2>3, <2>4 DEF LifespanInv, DatabaseInv, DiskInv, Database!RowsSurvive
  <2>6. SeedSteps - Len(Seed) - 1 = SeedLines
    BY LifespanConstants, SeedType DEF SeedSteps
  <2> QED
    BY <2>1, <2>2, <2>5, <2>6, SeedType
<1> QED
  BY <1>1, LifespanInvariant, PTL

\* The step of MigrationOnce.
MigrationStep ==
  work.devices # NULL /\ ~work.devices.notnull /\ pc # "stopped" /\ pc' # "stopped" =>
    /\ work'.devices # NULL
    /\ ~work'.devices.notnull
    /\ work.devices.columns \subseteq work'.devices.columns

LEMMA NextMigrationStep == LifespanInv /\ [Next]_vars => MigrationStep
<1> SUFFICES ASSUME LifespanInv, [Next]_vars,
                    work.devices # NULL, ~work.devices.notnull,
                    pc # "stopped", pc' # "stopped"
             PROVE  /\ work'.devices # NULL
                    /\ ~work'.devices.notnull
                    /\ work.devices.columns \subseteq work'.devices.columns
  BY DEF MigrationStep
<1>1. work \in Database!Schema
  BY DEF LifespanInv, DatabaseInv, Database!TypeOK
<1>2. CASE work'.devices = work.devices
  BY <1>2
<1>3. ASSUME pc = "ready", NEW m \in MAC, UpsertDevice(m)
      PROVE  /\ work'.devices # NULL
             /\ ~work'.devices.notnull
             /\ work.devices.columns \subseteq work'.devices.columns
  <2>1. work = disk
    BY <1>3, ReadyFacts DEF LifespanInv
  <2>2. work.devices \in [notnull : BOOLEAN, columns : SUBSET Column, rows : Rows]
    BY <2>1, <1>3, ReadyFacts, TableType DEF LifespanInv
  <2>3. With(disk.devices.rows, m) \in Rows
    BY <1>3, ReadyFacts, WithFacts DEF LifespanInv
  <2>4. work' = [work EXCEPT !.devices.rows = With(@, m)]
    BY <1>3, <2>1 DEF UpsertDevice
  <2>5. /\ work'.devices \in Database!TableState
        /\ work'.devices.notnull = work.devices.notnull
        /\ work'.devices.columns = work.devices.columns
    BY <1>1, <2>1, <2>2, <2>3, <2>4, TableType DEF Database!Schema
  <2> QED
    BY <2>5, TableType
<1>4. CASE Database!InitDb
  <2>1. CASE \/ Database!Connect \/ Database!CreateV2Raises
    BY <2>1 DEF Database!Connect, Database!CreateV2Raises
  <2>2. CASE Database!CheckNullable \/ Database!ColumnsAdded \/ Database!Commit
    BY <1>2, <2>2 DEF Database!CheckNullable, Database!ColumnsAdded, Database!Commit
  <2>3. CASE \/ Database!CreateV2 \/ Database!CopyRows \/ Database!CreateDevices
             \/ Database!CreateSyslogs
    <3>1. work'.devices = work.devices
      BY <1>1, <2>3
         DEF Database!CreateV2, Database!CopyRows, Database!CreateDevices,
             Database!CreateSyslogs, Database!Execute, Database!ExecuteInTransaction,
             Database!Schema
    <3> QED
      BY <1>2, <3>1
  <2>4. CASE Database!DropOld \/ Database!RenameV2
    BY <2>4 DEF Database!DropOld, Database!RenameV2, LifespanInv, DatabaseInv, WorkInv
  <2>5. ASSUME NEW c \in Column, Database!AddColumn(c)
        PROVE  /\ work'.devices # NULL
               /\ ~work'.devices.notnull
               /\ work.devices.columns \subseteq work'.devices.columns
    BY <2>5, AddColumnDatabaseInv DEF LifespanInv
  <2> QED
    BY <1>4, <2>1, <2>2, <2>3, <2>4, <2>5 DEF Database!InitDb
<1>5. CASE StartProduction \/ StartDemo
  BY <1>5 DEF StartProduction, StartDemo, Launch, LifespanInv, ProcessInv
<1>6. CASE ShutDown \/ Kill
  BY <1>6 DEF ShutDown, Kill, Database!Stop
<1>7. CASE SeedDemo
  <2>1. pc = "ready" /\ \A n : n \in DOMAIN Seed => Seed[n] \in MAC
    BY <1>7, SeedType DEF SeedDemo
  <2>2. CASE UNCHANGED database
    BY <1>2, <2>2 DEF database
  <2>3. CASE seeded < Len(Seed) /\ UpsertDevice(Seed[seeded + 1])
    <3>1. seeded \in 0..SeedSteps
      BY <1>7 DEF SeedDemo, LifespanInv, SeedInv
    <3>2. Seed[seeded + 1] \in MAC
      BY <2>3, <3>1, SeedType
    <3> QED
      BY <1>3, <2>1, <2>3, <3>2
  <2> QED
    BY <1>7, <2>2, <2>3 DEF SeedDemo, CountMissing, InsertLine
<1>8. CASE Scan
  <2>1. pc = "ready"
    BY <1>8 DEF Scan, LifespanInv, ProcessInv
  <2>2. CASE UNCHANGED database
    BY <1>2, <2>2 DEF database
  <2> QED
    BY <1>3, <1>8, <2>1, <2>2 DEF Scan, CountMissing
<1>9. CASE UNCHANGED database
  BY <1>2, <1>9 DEF database
<1> QED
  BY <1>4, <1>5, <1>6, <1>7, <1>8, <1>9
     DEF Next, StartUp, InitDb, StartTasks, ServeDemo, Receive, InsertLine, Terminate, vars

\* The table is rebuilt at most once: no start but a demo's, which replaces the file,
\* drops a table that may hold NULL addresses, or any of its columns.
THEOREM MigratesOnce == Spec => MigrationOnce
<1>1. LifespanInv /\ [Next]_vars => [MigrationStep]_vars
  BY NextMigrationStep
<1> QED
  BY <1>1, LifespanInvariant, PTL DEF Spec, MigrationOnce, MigrationStep
=============================================================================
