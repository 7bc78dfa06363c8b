------------------------------ MODULE Lifespan ------------------------------
(***************************************************************************)
(* lifespan of src/main.py: what a start of the process does before it     *)
(* serves, in production (init_db, the syslog port, the scan task) and in  *)
(* demo mode (src/demo_seed.py deletes the database and fills a new one),  *)
(* what writes the database while it serves, how it shuts down, and what   *)
(* is left when it is killed anywhere.  Starts may change mode between     *)
(* them: all of them use the file at DB_PATH.                              *)
(***************************************************************************)
EXTENDS Schema, Sequences

CONSTANTS
  Seed,         \* the devices of the demo, the "gone" one last
  SeedLines,    \* its syslog lines
  MaxLines      \* syslog lines that are modelled

ASSUME LifespanConstants ==
  /\ Seed \in Seq(MAC) /\ Seed # <<>>
  /\ SeedLines \in Nat /\ MaxLines \in Nat /\ SeedLines <= MaxLines

VARIABLES
  disk, work, transaction, pc, stops, original,   \* see SchemaMigration
  app,          \* "down", "starting", "serving" or "stopping"
  mode,         \* DEMO_MODE of this start
  scanning,     \* the scan task exists
  listening,    \* the UDP transport is open
  seeded,       \* what the seed has done so far
  gone,         \* devices with a disappearance count above 0
  lines         \* rows of the syslogs table

database == <<disk, work, transaction, pc, stops, original>>
process  == <<app, mode, scanning, listening, seeded>>
content  == <<gone, lines>>
vars     == <<database, process, content>>

Database == INSTANCE SchemaMigration

DemoDevices == {Seed[i] : i \in DOMAIN Seed}
GoneDevice  == Seed[Len(Seed)]
SeedSteps   == Len(Seed) + 1 + SeedLines

TypeOK ==
  /\ Database!TypeOK
  /\ app \in {"down", "starting", "serving", "stopping"}
  /\ mode \in {"production", "demo"}
  /\ scanning \in BOOLEAN /\ listening \in BOOLEAN
  /\ seeded \in 0..SeedSteps
  /\ gone \subseteq MAC
  /\ lines \in 0..MaxLines

Init ==
  /\ Database!Init
  /\ app = "down"
  /\ mode = "production"
  /\ scanning = FALSE /\ listening = FALSE
  /\ seeded = 0
  /\ gone = {}
  /\ lines = 0

-----------------------------------------------------------------------------
(* Starting. *)

Launch(m) ==
  /\ app = "down"
  /\ app' = "starting"
  /\ mode' = m
  /\ seeded' = 0
  /\ UNCHANGED <<scanning, listening>>

StartProduction ==
  /\ Launch("production")
  /\ Database!Connect
  /\ UNCHANGED content

NoDatabase == [devices |-> NULL, devices_v2 |-> NULL, syslogs |-> FALSE]

\* Faulty variant, to test the properties with: the old file stays.
StartDemo_KeepsFile ==
  /\ Launch("demo")
  /\ Database!Connect
  /\ UNCHANGED content

\* seed_demo_db removes the file, whatever it holds, and calls init_db.
StartDemo ==
  /\ Launch("demo")
  /\ pc' = "check"
  /\ disk' = NoDatabase
  /\ work' = NoDatabase
  /\ transaction' = FALSE
  /\ original' = [m \in {} |-> NULL]
  /\ gone' = {}
  /\ lines' = 0
  /\ UNCHANGED stops

InitDb ==
  /\ app = "starting"
  /\ Database!InitDb
  /\ app' = IF pc' = "stopped" THEN "down" ELSE "starting"
  /\ UNCHANGED <<mode, scanning, listening, seeded, content>>

\* The port may be refused (PermissionError, OSError): that is logged, and the
\* server runs on without syslog.
StartTasks(bound) ==
  /\ app = "starting" /\ mode = "production"
  /\ pc = "ready"
  /\ listening' = bound
  /\ scanning' = TRUE
  /\ app' = "serving"
  /\ UNCHANGED <<database, mode, seeded, content>>

-----------------------------------------------------------------------------
(* Writing.  Every call opens the file, and commits what it did. *)

With(rows, m) == [k \in DOMAIN rows \cup {m} |-> IF k = m THEN SomeIp ELSE rows[k]]

UpsertDevice(m) ==
  /\ disk' = [disk EXCEPT !.devices.rows = With(@, m)]
  /\ work' = disk'
  /\ original' = With(original, m)
  /\ gone' = gone \ {m}
  /\ UNCHANGED <<transaction, pc, stops, lines>>

CountMissing(m) ==
  /\ gone' = gone \cup {m}
  /\ UNCHANGED <<database, lines>>

InsertLine ==
  /\ lines < MaxLines
  /\ lines' = lines + 1
  /\ UNCHANGED <<database, gone>>

\* One call of seed_demo_db: the devices, the count of the gone one, the lines.
SeedDemo ==
  /\ app = "starting" /\ mode = "demo"
  /\ pc = "ready"
  /\ \/ seeded < Len(Seed) /\ UpsertDevice(Seed[seeded + 1])
     \/ seeded = Len(Seed) /\ CountMissing(GoneDevice)
     \/ seeded \in Len(Seed) + 1..SeedSteps - 1 /\ InsertLine
  /\ seeded' = seeded + 1
  /\ UNCHANGED <<app, mode, scanning, listening>>

ServeDemo ==
  /\ app = "starting" /\ mode = "demo"
  /\ seeded = SeedSteps
  /\ app' = "serving"
  /\ UNCHANGED <<database, mode, scanning, listening, seeded, content>>

\* The calls of a scan cycle, and of the syslog tasks.
Scan ==
  /\ app = "serving"
  /\ scanning
  /\ \/ \E m \in MAC : UpsertDevice(m)
     \/ \E m \in DOMAIN disk.devices.rows : CountMissing(m)
  /\ UNCHANGED process

Receive ==
  /\ listening
  /\ InsertLine
  /\ UNCHANGED process

-----------------------------------------------------------------------------
(* Stopping. *)

\* SIGTERM: lifespan resumes after its yield and cancels the scan task.
Terminate ==
  /\ app = "serving"
  /\ app' = "stopping"
  /\ UNCHANGED <<database, mode, scanning, listening, seeded, content>>

Down ==
  /\ app' = "down"
  /\ scanning' = FALSE
  /\ listening' = FALSE
  /\ UNCHANGED <<mode, seeded>>

\* The cancelled task ends where it awaits; the thread of a database call in
\* progress may still commit it.  Then the transport is closed.
ShutDown ==
  /\ app = "stopping"
  /\ Down
  /\ pc' = "stopped"
  /\ \/ UNCHANGED <<disk, original>>
     \/ /\ scanning
        /\ \E m \in MAC : /\ disk' = [disk EXCEPT !.devices.rows = With(@, m)]
                          /\ original' = With(original, m)
  /\ work' = disk'
  /\ transaction' = FALSE
  /\ UNCHANGED <<stops, content>>

\* The process is killed, or a call of its start raises.
Kill ==
  /\ app # "down"
  /\ Down
  /\ Database!Stop
  /\ UNCHANGED content

-----------------------------------------------------------------------------

StartUp ==
  \/ InitDb
  \/ \E bound \in BOOLEAN : StartTasks(bound)
  \/ SeedDemo
  \/ ServeDemo

Next ==
  \/ StartProduction
  \/ StartDemo
  \/ StartUp
  \/ Scan
  \/ Receive
  \/ Terminate
  \/ ShutDown
  \/ Kill

Spec == Init /\ [][Next]_vars

\* The awaits of a start are database calls and a bind: they end.
FairSpec == Spec /\ WF_vars(StartUp)

-----------------------------------------------------------------------------
(* Properties. *)

\* Whatever the process dies of, and however starts follow one another, the file
\* holds the devices it held and those written since; only a start in demo mode
\* gives them up.
RowsSurvive == Database!RowsSurvive

\* No scan, no syslog insert and no request finds a schema other than the
\* complete and committed one.
WritersFindSchema ==
  app \in {"serving", "stopping"} \/ scanning \/ listening =>
    pc = "ready" /\ Database!ReadyMeansMigrated

\* No start rebuilds a table whose address may be NULL, or drops columns of it,
\* unless a demo replaces the file: the rebuild copies six columns only, and
\* what the later ones hold, operators' notes among it, would be lost.
MigrationOnce ==
  [][work.devices # NULL /\ ~work.devices.notnull /\ pc # "stopped" /\ pc' # "stopped" =>
       /\ work'.devices # NULL
       /\ ~work'.devices.notnull
       /\ work.devices.columns \subseteq work'.devices.columns]_vars

\* What a demo serves is the whole seed and nothing but the seed, whatever the
\* file held, and wherever the starts before were cut short.
DemoServesSeed ==
  app = "serving" /\ mode = "demo" =>
    /\ disk.devices.rows = [m \in DemoDevices |-> SomeIp]
    /\ gone = {GoneDevice}
    /\ lines = SeedLines

\* Every start comes to serve, unless it is killed, or an earlier one left a
\* devices_v2 behind; in demo mode even then.
StartComesUp ==
  \A n \in 0..MaxStops :
    (app = "starting" /\ stops = n /\ (mode = "demo" \/ disk.devices_v2 = NULL))
      ~> (app = "serving" \/ stops > n)
=============================================================================
