-------------------------- MODULE SchemaMigration --------------------------
(***************************************************************************)
(* init_db of src/database.py, statement by statement, on a database that  *)
(* any earlier version may have left, with the process stopping between    *)
(* any two statements.  sqlite3 runs a CREATE, DROP or ALTER outside a     *)
(* transaction on its own, while an INSERT opens a transaction that holds  *)
(* whatever follows it until the commit.                                   *)
(***************************************************************************)
EXTENDS Schema

VARIABLES
  disk,         \* what is committed
  work,         \* what the connection sees
  transaction,  \* a transaction is open
  pc,           \* the statement init_db is at, "stopped", or "ready" once it returned
  stops,        \* stops so far
  original      \* History: the rows there were at first, and those added since

vars == <<disk, work, transaction, pc, stops, original>>

TypeOK ==
  /\ disk \in Schema
  /\ work \in Schema
  /\ transaction \in BOOLEAN
  /\ pc \in {"stopped", "check", "create v2", "copy", "drop", "rename",
             "create", "create syslogs", "add columns", "commit", "ready"}
  /\ stops \in 0..MaxStops

\* No database yet, one from before the address could be NULL, or a later one.
Init ==
  /\ \E t \in TableState \cup {NULL} :
       /\ t # NULL => /\ t.notnull => t.columns = {}
                      /\ t.notnull => \A m \in DOMAIN t.rows : t.rows[m] # NULL
       /\ disk = [devices |-> t, devices_v2 |-> NULL, syslogs |-> t # NULL]
       /\ original = IF t = NULL THEN [m \in {} |-> NULL] ELSE t.rows
  /\ work = disk
  /\ transaction = FALSE
  /\ pc = "stopped"
  /\ stops = 0

\* A statement that only runs on its own or in an open transaction ...
Execute(schema) ==
  /\ work' = schema
  /\ disk' = IF transaction THEN disk ELSE schema
  /\ UNCHANGED <<transaction, stops, original>>

\* ... and one that opens a transaction first.
ExecuteInTransaction(schema) ==
  /\ work' = schema
  /\ transaction' = TRUE
  /\ UNCHANGED <<disk, stops, original>>

\* The connection is gone: an open transaction is rolled back.
RollBack == work' = disk /\ transaction' = FALSE

Connect ==
  /\ pc = "stopped"
  /\ pc' = "check"
  /\ RollBack
  /\ UNCHANGED <<disk, stops, original>>

\* Faulty variant, to test the properties with: the constraint is not looked at.
CheckNullable_Always ==
  /\ pc = "check"
  /\ pc' = IF work.devices # NULL THEN "create v2" ELSE "create"
  /\ UNCHANGED <<disk, work, transaction, stops, original>>

CheckNullable ==
  /\ pc = "check"
  /\ pc' = IF work.devices # NULL /\ work.devices.notnull THEN "create v2" ELSE "create"
  /\ UNCHANGED <<disk, work, transaction, stops, original>>

CreateV2 ==
  /\ pc = "create v2"
  /\ work.devices_v2 = NULL
  /\ Execute([work EXCEPT !.devices_v2 = NewTable({})])
  /\ pc' = "copy"

\* The CREATE has no IF NOT EXISTS: it raises, init_db with it, and the server
\* does not start.
CreateV2Raises ==
  /\ pc = "create v2"
  /\ work.devices_v2 # NULL
  /\ pc' = "stopped"
  /\ RollBack
  /\ UNCHANGED <<disk, stops, original>>

\* INSERT INTO devices_v2 SELECT ..., NULLIF(ip, '')
NullIf(rows) == [m \in DOMAIN rows |-> IF rows[m] = EmptyIp THEN NULL ELSE rows[m]]

\* Faulty variant, to test the properties with: a connection that commits by itself.
CopyRows_Autocommit ==
  /\ pc = "copy"
  /\ Execute([work EXCEPT !.devices_v2.rows = NullIf(work.devices.rows)])
  /\ pc' = "drop"

CopyRows ==
  /\ pc = "copy"
  /\ ExecuteInTransaction([work EXCEPT !.devices_v2.rows = NullIf(work.devices.rows)])
  /\ pc' = "drop"

DropOld ==
  /\ pc = "drop"
  /\ Execute([work EXCEPT !.devices = NULL])
  /\ pc' = "rename"

RenameV2 ==
  /\ pc = "rename"
  /\ Execute([work EXCEPT !.devices = work.devices_v2, !.devices_v2 = NULL])
  /\ pc' = "create"

\* CREATE TABLE IF NOT EXISTS devices: every added column but syslog_ip.
CreateDevices ==
  /\ pc = "create"
  /\ Execute([work EXCEPT !.devices = IF work.devices = NULL
                                      THEN NewTable(Column \ {"syslog_ip"})
                                      ELSE work.devices])
  /\ pc' = "create syslogs"

\* The same for syslogs and its index.
CreateSyslogs ==
  /\ pc = "create syslogs"
  /\ Execute([work EXCEPT !.syslogs = TRUE])
  /\ pc' = "add columns"

AddColumn(c) ==
  /\ pc = "add columns"
  /\ c \in Column \ work.devices.columns
  /\ Execute([work EXCEPT !.devices.columns = @ \cup {c}])
  /\ UNCHANGED pc

\* Faulty variant, to test the properties with: waits for columns it has not committed.
ColumnsAdded_Committed ==
  /\ pc = "add columns"
  /\ disk.devices # NULL /\ Column \subseteq disk.devices.columns
  /\ pc' = "commit"
  /\ UNCHANGED <<disk, work, transaction, stops, original>>

ColumnsAdded ==
  /\ pc = "add columns"
  /\ Column \subseteq work.devices.columns
  /\ pc' = "commit"
  /\ UNCHANGED <<disk, work, transaction, stops, original>>

\* Faulty variant, to test the properties with: db.commit() is missing.
Commit_Missing ==
  /\ pc = "commit"
  /\ transaction' = FALSE
  /\ pc' = "ready"
  /\ UNCHANGED <<disk, work, stops, original>>

Commit ==
  /\ pc = "commit"
  /\ disk' = work
  /\ transaction' = FALSE
  /\ pc' = "ready"
  /\ UNCHANGED <<work, stops, original>>

\* The process is killed or restarted.
Stop ==
  /\ pc # "stopped"
  /\ stops < MaxStops
  /\ stops' = stops + 1
  /\ pc' = "stopped"
  /\ RollBack
  /\ UNCHANGED <<disk, original>>

InitDb ==
  \/ Connect
  \/ CheckNullable
  \/ CreateV2
  \/ CreateV2Raises
  \/ CopyRows
  \/ DropOld
  \/ RenameV2
  \/ CreateDevices
  \/ CreateSyslogs
  \/ \E c \in Column : AddColumn(c)
  \/ ColumnsAdded
  \/ Commit

Next == InitDb \/ Stop

Spec == Init /\ [][Next]_vars

\* The container's restart policy starts the process again whenever it ended,
\* and init_db runs on.
FairSpec == Spec /\ WF_vars(InitDb)

-----------------------------------------------------------------------------
(* Properties. *)

\* At every moment, whatever the process dies of, the committed database holds
\* all the devices it held at first, in its devices table, with their addresses.
RowsSurvive ==
  IF disk.devices = NULL THEN original = [m \in {} |-> NULL]
  ELSE disk.devices.rows \in {original, NullIf(original)}

\* Once init_db returned, the devices table has every column, and an address in
\* it may be NULL; that is committed, and no half-made table is left behind.
ReadyMeansMigrated ==
  pc = "ready" =>
    /\ disk = work
    /\ disk.devices # NULL /\ ~disk.devices.notnull /\ disk.devices.columns = Column
    /\ disk.devices_v2 = NULL
    /\ disk.syslogs

\* database.py: the migration rebuilds the table when ip still is NOT NULL; it
\* does so in the end, however often the process was stopped meanwhile.
MigrationCompletes == <>(disk.devices # NULL /\ ~disk.devices.notnull)
=============================================================================
