# NetCensus in TLA+

NetCensus is a single Python process (FastAPI, asyncio, aiosqlite) that asks
seven sources which devices are on the network, merges their answers into one
SQLite table keyed by MAC address, alerts a webhook about arrivals and
departures, receives syslog over UDP, and serves a dashboard. This directory
holds a model of it: TLA+ modules translated from the code, TLC configurations
that check them on small instances, and theorems proved with TLAPS for every
value of the constants. Paths such as `main.py:226` are relative to `src/src/`
unless they start otherwise.

1. [The system](#1-the-system)
2. [The modules](#2-the-modules)
3. [What is checked](#3-what-is-checked)
4. [What is proved](#4-what-is-proved)
5. [Where the code and its documentation disagree](#5-where-the-code-and-its-documentation-disagree)
6. [What the models leave out](#6-what-the-models-leave-out)
7. [Plan](#7-plan)

## 1. The system

### Components

| component | code | state | operations |
|---|---|---|---|
| scan loop and merge | `main.py` `_scan_loop`, `_run_scan_once` | locals of one cycle: the snapshot, the sources' maps, `seen_macs`, `_ip_to_mac`, `_host_net_containers` | snapshot, gather, four merge loops, host-network merge, count of absences, comparison, webhooks, purge, sleep |
| device table | `database.py` | table `devices`, one row per MAC | `upsert_device`, `set_hostname_if_unset`, `merge_host_containers`, `update_disappearance_counts`, `set_device_alias`, `set_custom_type`, `set_device_notes`, `set_device_syslog_ip` |
| alerts and webhook | `main.py` `_run_scan_once` (end), `_fire_webhook` | nothing kept: the event is the difference between two snapshots | `device_discovered`, `device_gone` |
| operator API | `main.py` PUT handlers | none of its own | four PUTs, each one `UPDATE` |
| source health | `main.py` `_source_health`, `_record_source`, `/api/health` | in memory: per source the last answer and its time | record, derive a status, roll up |
| schema migration | `database.py` `init_db` | the schema itself | rebuild with nullable `ip`, create, add columns, commit |
| syslog pipeline | `syslog_server.py`, `insert_syslog`, `purge_old_syslogs` | table `syslogs`, the running tasks | receive, parse, resolve the source, insert, purge |
| source queries | `opnsense.py`, `identifiers.py`, `nmap_scanner.py`, `snmp_scanner.py` | the map each query builds | HTTP, Docker socket, and two subprocesses, each with a timeout; host by host, Proxmox hosts all at once |
| Proxmox poll | `identifiers.py` `_fetch_one` | the result so far, position in the listing | nodes, then per node and kind of guest a listing, and per guest its configuration and addresses |
| SQLite connections | `database.py` | the database file and its locks | connect, execute, fetch, commit, close: one connection for each call, and 5 s for a lock |
| application lifespan | `main.py` `lifespan` | scan task, syslog transport | start in order or as a demo, cancel and close at shutdown |
| read endpoints, export | `main.py`, `database.py` | none | `get_all_devices` with filters and pages, `get_logs_for_ip`, `search_syslogs`, the export |
| demo seed | `demo_seed.py` | none of its own: it replaces the database | remove the file, `init_db`, devices, the "gone" one's count, log lines |
| scapy scanner | `scanner.py` | - | code nothing calls |
| dashboard | `src/frontend/index.html` | `allDevices`, `activeDevice`, `selectedMacs`, the log pane, the search box and its timer, the refresh timer and its failures | fetch, open, close, search, save, bulk change, refresh |
| deployment | `Dockerfile`, `docker-compose.yml`, `start.sh` | - | build and restart policy |

### How they interact

The scan loop is one asyncio task. Within a cycle it awaits the seven sources
together, then makes its database calls one after the other; each call opens a
connection of its own and commits, so a cycle is a *sequence of committed
transactions*, not one. Between any two of them the event loop may run a PUT
handler, a reader, or a syslog insert. Nothing is kept between cycles but the
table: whether a device is new, or has just become absent for long enough, is
found by comparing the table before the cycle with the table after it. The
health records and the syslog tasks live in memory only and die with the
process.

### What is hard

* **Cycles cut short.** Any database call may raise, any source may raise
  (`asyncio.gather` has no `return_exceptions`), the process may be killed. All
  that was committed stays, all else goes, and the next cycle starts from the
  table alone.
* **Counting absences.** An alert fires on `==` between a counter that sightings
  reset and only *counted* cycles raise. Alerts must not repeat in later cycles
  or after a restart.
* **Merging.** Four loops exclude one another's keys to avoid double work, a
  fifth does not; three sources offer an address for the same MAC; later upserts
  overwrite earlier ones.
* **Operators against scans.** A PUT may commit between an upsert and the
  hostname call of the same device.
* **Migrations.** sqlite3 commits DDL on its own outside a transaction and holds
  it inside one, and an `INSERT` opens one: which statements of `init_db` are
  atomic together depends on the path taken.
* **Waiting for locks.** Every call has a connection and a thread of its own. A SELECT
  holds its lock from its execute to its fetch, a write from its statement to the end of
  its commit, and who waits for more than five seconds raises in the middle of a call.
* **Reading what moves.** Pages are cut from a list ordered by `last_seen`, which every
  scan reorders; logs are ordered by stamps that devices wrote.
* **Starting over.** A start may follow any other that was cut short anywhere, and of
  either mode; a demo deletes the file the others fill.
* **Polling what moves.** A Proxmox poll is dozens of requests to a cluster whose
  guests migrate, start and stop meanwhile.
* **Answers that cross.** Each handler of the dashboard goes on after its await with
  whatever the page holds by then: another panel, a newer list, another search.
* **Time.** Health is a comparison of ages; syslog stamps have no year.

`PROJECT.json` lists these hazards at their lines, with the properties that would
catch each of them going wrong.

### What makes each part correct

* *merge*: presence is what the sources say, and the row of a device is what the
  source with the highest priority says, whatever the order of the upserts.
* *table*: rows are never deleted, addresses and names never forgotten, and
  values set by the operator are never overwritten by a scan.
* *alerts*: at most one announcement for a device, at most one report for an
  absence, none of them wrong; and, when nothing fails, none of them missing.
* *queries*: a host that fails costs its own answer only; of two hosts that know a
  MAC the later configured one wins; every gather ends.
* *Proxmox poll*: what is reported was true during the poll, and a guest that stays
  where it is does get reported.
* *dashboard*: the page comes to show what the server holds, and the logs of the
  device whose panel is open.
* *health*: green only on fresh answers of this process; a steady source stays ok; after
  an outage green comes back.
* *migration*: no stop loses a row; a server that serves has the full schema.
* *lifespan*: nothing writes before the schema is complete, and a start that is let run
  comes to serve; a demo serves its seed and nothing else.
* *connections*: whatever the locks do, a call takes effect as a whole or not at all, and
  ends; no calls wait for one another in a circle.
* *lists*: a client that follows the pages misses no device that stays.
* *syslog*: an entry has the date and the device it came with, is stored, is among those
  shown while it is new, and is not purged before its time.

## 2. The modules

```
DeviceTable ── Discovery ── ScanCycle ── ScanAlerts ── ScanCycleProofs, MCScanCycle
      │           │                          └─ INSTANCE AlertContract
      │        Sources ── SourcesProofs, MCSources
DeviceTableTheorems, extended by ScanCycleProofs
ProxmoxPoll ── ProxmoxPollProofs, MCProxmoxPoll
Dashboard ── MCDashboard
SourceHealth ── SourceHealthProofs, MCSourceHealth
Schema ── SchemaMigration ── MCSchemaMigration
      └── Lifespan ── LifespanProofs, MCLifespan
             └─ INSTANCE SchemaMigration
DeviceList ── Registry
         └── SqliteStore ── SqliteStoreProofs, MCSqliteStore
                 └─ INSTANCE Registry WITH table <- disk
Syslog ── SyslogProofs, MCSyslog
```

| module | models |
|---|---|
| `DeviceTable` | the rows of `devices` and each SQL statement that writes them, as an operator from table to table. `UpsertDevice` is the `INSERT ... ON CONFLICT`, `Coalesce` its `CASE WHEN excluded...`, `SetHostnameIfUnset` the `AND alias IS NULL`, `UpdateDisappearanceCounts` both branches of the counter |
| `Discovery` | what the sources return (`Observation`: seven maps, the Docker one split into containers with a MAC and host-network containers) and what each merge loop makes of it: its keys (`LoopKeys`), its upsert (`...Sighting`) and the name it offers (`Hostname`) |
| `ScanCycle` | the cycle: one action per database call or await, what may cut it short, the PUTs between its calls |
| `AlertContract` | an abstract specification of alerting: rounds that may be abandoned, sightings, counts, announcements, reports; no sources, table, or failures |
| `ScanAlerts` | the refinement mapping from `ScanCycle` to `AlertContract` (`INSTANCE AlertContract WITH round <- Round, ...`) |
| `SourceHealth` | `_source_enabled`, `_record_source` after each gather, with the time gathers, merges and sleeps take, restarts, and the statuses and rollup of `/api/health` |
| `Schema` | the tables as far as `init_db` looks at them |
| `Lifespan` | both branches of `lifespan` around `init_db`, the seed, the scan and the syslog transport as writers of the file, SIGTERM and kills. It is a composition: its `InitDb` is a step of `SchemaMigration`, on the same variables |
| `DeviceList` | what a list depends on (the order of the last upserts, detected and custom types), `get_all_devices` as `Page`, and a client that walks through the pages |
| `Registry` | an abstract specification of the calls of `database.py`: each takes effect at once, or raises and has done nothing |
| `SqliteStore` | the same calls step by step on SQLite's locks, shown to implement `Registry` |
| `SchemaMigration` | `init_db` statement by statement, with what is committed (`disk`), what the connection sees (`work`) and whether a transaction is open |
| `Syslog` | datagrams, one insert task for each, purge, the two log queries, with a calendar in days; device clocks and the network are its environment |
| `Sources` | the gather that `ScanCycle` takes as one step: six walks over configured hosts (`at`, `found`), the Proxmox hosts side by side (`partials`), how each reply is turned into entries (`Adds`: `ArpAdds`, `DockerAdds`, ...) and these into a map (`Collect`), what happens to a query when a host fails, a tool is missing, or a reply raises. `obs` is an `Observation` of `Discovery` |
| `ProxmoxPoll` | `_fetch_one`: one action per request of the poll of one Proxmox host, next to `Migrates` and `StartsOrStops`, the cluster's own steps |
| `Dashboard` | the page as handlers cut at their awaits, with the requests under way (`fetches`, `reads`, `puts`) and the server's table reduced to the fields the page edits |
| `DeviceTableTheorems`, and the seven modules whose names end in `Proofs` | lemmas and theorems, see section 4 |
| `MC...` | the finite values TLC uses |

### ScanCycle and the code

The variable `phase` is the program counter of `_run_scan_once`; `pre`, `obs`,
`seen`, `hostnet` are its locals `pre_scan_devices`, the gathered maps,
`seen_macs`, `_host_net_containers`. `todo` and `current` stand for the position
in a `for` loop, `existing` for the metadata that `merge_host_containers` has read
and not yet written.

| action | code |
|---|---|
| `StartScan` | `pre_scan_devices = {...}` from `get_all_devices` |
| `Gather` | `asyncio.gather` and the folding of nmap and SNMP into `arp_map` |
| `MergeArp`, `MergeProxmox`, `MergeNdp`, `MergeDocker` | the `upsert_device` of each loop body |
| `NameDevice` | the rest of the body: `set_hostname_if_unset`, `seen_macs.add` |
| `NextLoop` | the end of a loop |
| `CollectHostNet` | `_ip_to_mac` and the grouping of host-network containers |
| `ReadHostMetadata`, `WriteHostMetadata` | the SELECT and the UPDATE of `merge_host_containers`: other calls may run in between |
| `CountMissing` | `update_disappearance_counts` |
| `CompareSnapshots`, `FireWebhook` | the comparison, and the webhooks one by one |
| `FinishScan` | return |
| `SourceRaises`, `DatabaseRaises` | an exception ends the cycle; `_scan_loop` logs it and sleeps |
| `Stop`, `Start` | kill, shutdown or restart: the locals go, the table stays |
| `PutAlias`, `PutOperatorColumn` | the PUT handlers, `404` for an unknown MAC |

`discovered`, `gone` and `manual` are history variables: the events fired, and what
the operator last set. They exist for the properties and no guard reads them.

Without a webhook the second `get_all_devices` is not called; the step is then a
local one, and `DatabaseRaises` is not enabled there. The order in which a `for`
loop visits a dict is the sources' own and is left open (`\E m \in MAC`).

### Lifespan, SqliteStore and the code

In `Lifespan` `app` is where `lifespan` stands: before its `yield` ("starting"), at it
("serving"), or after it ("stopping"). `disk`, `work`, `transaction` and `pc` are those of
`SchemaMigration`.

| action | code |
|---|---|
| `StartProduction`, `StartDemo` | the branch on `DEMO_MODE`; the latter goes on to `os.remove` and the `connect` of `init_db` |
| `InitDb` | a statement of `init_db`; if it raises, the process ends |
| `StartTasks(bound)` | `start_syslog_server`, which is refused the port when `~bound`, and `create_task(_scan_loop())` |
| `SeedDemo`, `ServeDemo` | one call of `seed_demo_db`; its return |
| `Scan`, `Receive` | a call of a scan cycle, of a syslog task: only what they do to rows |
| `Terminate`, `ShutDown` | SIGTERM; the `finally` branch, with a call whose thread still commits |
| `Kill` | the process ends anywhere, its open transaction is rolled back |

In `SqliteStore` a call is in a `stage`, and the stage says what its connection holds:
"reading" SHARED, "reserved" RESERVED, "committing" PENDING. `request` is what it is to do.

| action | code |
|---|---|
| `Submit`, `Ask` | a writer, or the client of `/api/devices`, calls; `aiosqlite.connect` |
| `Select`, `FetchAll`, `FetchMetadata` | `execute` of a SELECT, and the fetch that lets go of the lock |
| `Execute`, `Commit`, `Publish` | `execute` of a write, `commit` taking PENDING, and its end once the readers are gone |
| `TimeOut` | `sqlite3.OperationalError: database is locked`, after the default 5 s |
| `Kill` | the process ends; the next one rolls the journal back |

`walk` is the client: its parameters, its offset, what it got, and as history which devices
stayed and whether the list changed.

### Sources, ProxmoxPoll, Dashboard and the code

In `Sources` a request with its timeout is one step: `HostAnswers` adds what the
reply holds to the query's map, `HostFails` stands for everything the query catches
and goes on from, `ToolMissing` for `FileNotFoundError`, `QueryRaises` for what
nobody catches (the lines are in section 5). OPNsense is the one host of three walks.
`NoEntries` is the empty dict. `Updated` is a dict after a sequence of updates: of a
loop over a reply (`Collect`), each with at most one entry, and of `ProxmoxMap`, each with the
map of one host; of two values for a key the later one stays.

In `ProxmoxPoll` the variables `left`, `node`, `type`, `listed`, `cur` are the
position in the nested loops. The status comes from the listing, the MAC addresses
from the configuration, the address from the agent: three replies of three moments.
`true`, `stayed` and `lost` are history.

In `Dashboard` an async function is two actions, up to its `await` and from it on:

| action | code |
|---|---|
| `Tick`, `Refresh`, `Init` / `FetchReturns`, `FetchFails` | `fetchDevices`, called by the timer, the button and at boot |
| `AskFor` (in `OpenPanel`, `ReloadLogs`, `Tick`, `TypeQuery`, `SaveReturns`), `SearchFires` / `ReadReturns`, `ReadFails` | `fetchLogs` and `searchLogs` |
| `Save` / `SaveReturns` | `saveAlias`, `saveType`, `saveNotes`, `saveSyslogIp`: one body but for the field, and the reload of the logs |
| `BulkRetype` / `BulkReturns`, `BulkThrows` | `bulkRetype`, before and after `Promise.all` |
| `ServerLists`, `PutApplied`, `PutRejected`, `PutLost` | the server's side of a request, and broken connections |
| `Check` | a row's checkbox; select-all and clear are several of it |

### Variants

Operators whose comment starts with *Faulty variant* (`Departures_EveryCycle`,
`UpdatedRow_NoReset`, ...) are not part of the model. Each is the definition after
it with a plausible bug in it, such as `>=` for `==`, a lost `WHERE` clause, or a
missing commit. Put in the place of the definition they make one property fail,
which shows that the property depends on that code. `PROJECT.json` pairs them
under "mutants": every property of every passing run has one.

## 3. What is checked

Run a configuration with `tlc -config <run>.cfg <module>`. Each module's `TypeOK` gives the
types of its variables; it is checked where a proof rests on it, or where it relates several
of them.

### Runs that pass

**`scan_alerts`** (`MCScanCycle`, about 360,000 states). Two MACs, threshold 2;
sources and database calls that raise, stops at any point.
`PresenceMatchesSources`: after the count the devices with no missed cycle are
exactly those some source showed, so the loops' exclusions leave nobody out.
`AlertsJustified`, `AtMostOneAlert`, `GoneMeansMissing`: no alert is wrong or
repeated, over any number of cycles, failures and restarts. `KeepsContract`: the
cycle implements `AlertContract`. `NothingForgotten`: no step deletes a row, or an
address or a name in one. `CycleEnds`: every cycle ends.

**`scan_merge`** (376,000 states, under two minutes). Nothing, or one device shown by
any combination of sources, each with an address of its own, next to a Docker host;
cycles follow one another with any two combinations, and none is cut short.
`MergePriority`: the merged row is the one computed from the priorities directly
(`ExpectedIp`, `ExpectedType`, `ExpectedMetadata`), not from the order of the upserts.
`HostContainersAttributed`: host-network containers reach a device that has their
host's address and survive the other metadata writes, also when two MACs claim that
address. Without failures alerts must not be missing either: `ArrivalsAnnounced`,
`DeparturesReported`, and `AbsenceReported`, that an absence that lasts is reported in
the end. With failures the first of them does not hold, see section 5.

**`scan_operator`** (660,000 states). PUTs of each column, empty text included,
between any two calls of cycles that may fail or be killed.
`OperatorValuesPersist`: the row holds what the operator last set.

**`health`** (94,000 states). Docker, and OPNsense with its three sources.
`GreenMeansRecent`: the rollup is "ok" only if each configured source returned something
within two intervals, in this process; `SteadySourcesOk`: a source that answers each cycle
never turns stale if a cycle takes no longer than the interval, even when merges fail.
That condition is tight: a gather and a merge may each vary, so two records can be an
interval plus one whole cycle apart. `Recovers`: once every configured source answers each
time and the process stays up, the rollup turns "ok" for good, whatever happened before.

**`lifespan`** (62,000 states). Any earlier database, two kills, starts of either mode one
after the other, the scan and the syslog writing in between. `RowsSurvive`: the committed
`devices` table has all rows at every moment, between `DROP` and `RENAME` and after a
commit that a shutdown did not wait for; only a demo start gives them up.
`WritersFindSchema`: nothing scans, receives or serves before the schema is complete and
committed. `MigrationOnce`: a table that is migrated is never rebuilt, which would empty
its later columns. `DemoServesSeed`: a demo serves exactly the seed, whatever the starts
before it left. `StartComesUp`: a start that is not killed comes to serve, with or without
the syslog port, unless an earlier one left a `devices_v2` behind (section 5).

**`sqlite_store`** (85,000 states). A scan that upserts a known and a new device and merges
containers, an operator who sets and clears a type, and a client that lists by type, in
pages of two or at once. `CallsAreAtomic`: every behaviour is one of `Registry`, so no
list mixes two moments, and a call that timed out or was killed has done nothing. `SomeCallProceeds`:
while calls wait, another can go on; the cursor of `merge_host_containers` closed before its
UPDATE is what this needs. `CallsEnd`: each call returns or raises. `WalkComplete`: a device that
matched all along and was not seen meanwhile is on some page, though other devices arrive,
move to the front or start to match, as long as none ceases to, and without changes the pages
are the list.

**`syslog`** (750,000 states, about two minutes). Two messages, two devices, a relay, the turn of a
year, clocks that are right, a day behind, or missing. `YearResolved`: the guessed year is the
device's; `FiledUnderOrigin`: the entry is under the device it came from, unless a relay
hides it and the HOSTNAME is no address; `RecentShown`: a log query leaves out no message for one
sent before it, less what clocks and delays account for; `FreshKept`: the purge takes nothing sent
within the retention, less the clock's lag; `ReceivedIsStored`: a received message is
stored unless its insert raises or the process stops.

**`sources`** (123,000 states, about two and a half minutes). Two hosts for each of
SNMP, Docker and Proxmox, one for the others; replies that overlap, and hold entries to
be skipped. `LastHostWins`: each of four sources returns for a MAC what the last
configured host that knows it said, whatever the order in time and whoever else failed.
`NeighboursUsable`: a device is a neighbour exactly when one of its entries is not
link-local. `GatherEnds`: the gather ends, however many hosts fail.

**`proxmox_poll`** (1.2 million states, over two minutes). Two nodes, two virtual
machines, and a container that shares a MAC address with one of them.
`RecordsWereTrue`: the reported node and status of a guest held together at some moment
of the poll, and an address is reported only of one that ran. `StayersReported`: a guest
that does not migrate, and about which no request failed, is reported on its node,
whatever fails or moves around it.

**`dashboard`** (205,000 states). Saves, bulk changes, searches and panels opened one
after the other, in any order with refreshes and up to two failures, where two in a row
stop the polling; the operator may leave a panel before its save is answered.
`Converges`: in the end the page shows what the server holds, or polling has given up.
`LogsConverge`: the logs of a panel left open become those of its device and stay so.
Deadlock checking is off, since polling may stop for good.

### Bounds, and why they are enough

* Two MACs: the merge treats MACs one by one, except where two share an address
  (`IpToMac`), which two show. In `scan_operator` one MAC is enough, as PUTs and
  upserts concern one row. The theorems of section 4 are for any number.
* `MaxCount` caps `disappearance_count`, unbounded in the code. The counter is only
  compared with `Threshold` by `==`; above it all values behave alike, and
  `ScanConstants` asks for `Threshold < MaxCount`.
* `Threshold` is 2 in the alert runs (1 would merge "missed once" with "reported";
  3 adds nothing but a step) and 1 where alerts do not matter.
* `PresenceObservations` has a device shown by nobody, by one source, by two, and by
  different sources in turn. `MergeObservations` has all 32 combinations of five
  sources for one device (NDP goes with Proxmox: it alone sets `ipv6`) and none; DHCP names are in `NamingObservations`, as they matter to names only.
* Events per device are counted up to 2: enough to see a second one.
* `health`: an interval of 3 ticks, a cycle of up to 3; ages stop just above the
  threshold of 6.
* `lifespan`: two kills (shutdowns are not counted), since one may leave something behind and a second hit the
  start that deals with it; two of the eight columns, one that `CREATE TABLE` has
  and one (`syslog_ip`) that it has not. One device of a real network next to two of the
  demo; one log line more than the seed has.
* `sqlite_store`: three connections, since a circle of locks takes two and a third can be
  in its way. Three devices are a full page and one more; two steps of a fetch (the first
  row, the rest) are enough for a commit to come between.
* `sources`: two hosts show who wins and who is lost; a reply holds up to five
  entries, the ones a loop must skip before or after one it must keep.
* `proxmox_poll`: `MaxChanges` is 2 during a poll: a guest that leaves and comes back, or
  one that migrates while another stops. Three guests on two nodes have two in
  one listing.
* `dashboard`: `MaxActs` is 3, closing a panel not counted (check, change, check again;
  open, save, close, open another). The timer sends only while no request of its kind is
  under way (`MaxSent` is 1); the button sends another, enough for an old list to arrive
  after a newer one. `Limit` is 2 for 5: failures are counted and reset one by one. The
  page is opened on devices of which nothing was edited, one without an address.
* `syslog`: years of three months of two days, retention of two days, the last day of one
  year and two of the next, delays of a day. A reply holds one entry, so that two compete
  for it.

### Fairness

* `WF(ScanStep)`: each await of a cycle ends. HTTP calls, subprocesses and the
  webhook have timeouts, SQLite's lock wait is 5 s, and the sleep is finite.
* `WF(Start)`: `restart: unless-stopped` in `docker-compose.yml`.
* `WF(InitDb)` in `migration_stuck`: the same, and statements do not block.
* `WF(StartUp)` in `lifespan`: what a start awaits are database calls and a bind, which end;
  that a process which ended is started again is not assumed.
* `WF` of each call in `sqlite_store`: its connection has a thread of its own, and the busy
  timeout ends every wait.
* `WF(Cycle)` in `health`: time passes, and a cycle's awaits end within their limits.
* `WF` of the walks' and of the Proxmox hosts' steps in `sources`: 10 s for OPNsense, 5 s
  for Docker and for Proxmox (the client's default), 120 s for nmap, 15 s for snmpwalk,
  after which the host has failed. That each query goes on is justified by this; it is
  enough to assume that some walk does as long as one can, and some Proxmox host. (An httpx timeout bounds each read, not the whole
  reply: a host that trickles its reply for ever is not covered.)
* `WF` of answers and timers in `dashboard`: a browser's request is answered or fails, and
  `setInterval` fires while the page is open. That a particular list request is answered is
  not assumed, only that some step of those under way happens.
* `WF` of the insert tasks in `syslog`: asyncio runs each task that is ready.

No fairness is assumed of the sources' answers, the operator, failures, or the network.

## 4. What is proved

TLAPS checks the proofs for every value of the constants that meets the modules'
assumptions. Sets of MACs, addresses, names, observations, guests, datagrams and connections
are arbitrary, and may be infinite; so are the thresholds, intervals, delays and bounds.
What the assumptions say:

* scan cycle: `TableConstants` (NULL is no value of any column; the empty text is a name),
  `SourceConstants` (NULL is no ARP entry), `ScanConstants` (`Threshold` is positive and
  below `MaxCount`; what sources may answer, what may fail and what the operator may write
  are arbitrary sets);
* `SourcesConstants`: what a host may reply is a list of well-formed entries (`Reply`), one
  with a field that is missing, empty or no address included, or for Proxmox a map that
  `ProxmoxPoll` may return; the empty text is no address;
* `ProxmoxConstants`, `HealthConstants`, `SchemaConstants`, `LifespanConstants`,
  `RegistryConstants`, `SyslogConstants`: the types of the constants, the interval and the
  calendar not empty, an earlier day before a later one, a seed of at least one device, and
  that NULL is not one of the values it stands apart from.

| theorem | states |
|---|---|
| `ScanCycleProofs` | |
| `TypeCorrect` | `Spec => []TypeOK` |
| `PresenceCorrect` | `Spec => []PresenceMatchesSources` |
| `MergeHasPriority` | `Spec => []MergePriority` |
| `HostContainersAreAttributed` | `Spec => []HostContainersAttributed` |
| `AlertsAreJustified` | `Spec => []AlertsJustified` |
| `AlertsAtMostOnce` | `Spec => []AtMostOneAlert` |
| `GoneIsMissing` | `Spec => []GoneMeansMissing` |
| `ArrivalsAreAnnounced` | `Spec => [](Failures = {} => ArrivalsAnnounced)` |
| `DeparturesAreReported` | `Spec => [](Failures = {} => DeparturesReported)` |
| `CompletedCyclesAlert` | `Spec => CompletedCycleAlerts` |
| `OperatorValuesKept` | `Spec => []OperatorValuesPersist` |
| `NothingIsForgotten` | `Spec => NothingForgotten` |
| `ImplementsContract` | `Spec => KeepsContract`, the refinement of `AlertContract` |
| `SourcesProofs` | |
| `TypeCorrect` | `Spec => []TypeOK` of `Sources`: what a gather returns is an `Observation` |
| `LastHostWinsAlways` | `Spec => []LastHostWins` |
| `NeighboursAreUsable` | `Spec => []NeighboursUsable` |
| `ProxmoxPollProofs` | |
| `PollTypes` | `Spec => []TypeOK` of `ProxmoxPoll` |
| `ReportedWasTrue` | `Spec => []RecordsWereTrue` |
| `StayersAreReported` | `Spec => []StayersReported` |
| `SourceHealthProofs` | |
| `GreenIsRecent` | `Spec => []GreenMeansRecent` |
| `SteadySourcesAreOk` | `Spec => []SteadySourcesOk` |
| `LifespanProofs` | |
| `RowsAlwaysSurvive` | `Spec => []RowsSurvive` |
| `WritersAlwaysFindSchema` | `Spec => []WritersFindSchema` |
| `DemoAlwaysServesSeed` | `Spec => []DemoServesSeed` |
| `MigratesOnce` | `Spec => MigrationOnce` |
| `MigrationIsSafe` | `Database!Spec => [](Database!TypeOK /\ Database!RowsSurvive /\ Database!ReadyMeansMigrated)` |
| `StopBeforeCopySticks` | a stop between the first `CREATE` and the copy of the rows is `Stuck`, and `Stuck` stays |
| `SqliteStoreProofs` | |
| `StoreIsTyped` | `Spec => []TypeOK` of `SqliteStore` |
| `NoCircleOfLocks` | `Spec => []SomeCallProceeds` |
| `WalksAreComplete` | `Spec => []WalkComplete` |
| `CallsImplementRegistry` | `Spec => CallsAreAtomic`, the refinement of `Registry` |
| `SyslogProofs` | |
| `YearsAreResolved` | `Spec => [](ClocksAreBehind => YearResolved)` |
| `FreshEntriesAreKept` | `Spec => FreshKept`, if `ClocksAreBehind` |
| `RecentEntriesAreShown` | `Spec => [](ClocksAreBehind => RecentShown)` |
| `EntriesAreFiledUnderOrigin` | `Spec => [](NamesAreOwn => FiledUnderOrigin)` |
| `ReceivedIsNeverForgotten` | `Spec => []NoneForgotten` |

**Layers.** `DeviceTableTheorems` has a lemma for every SQL statement: the type of
the table it returns, which rows it touches, which columns of them it keeps, and what it
writes to the others. `ScanCycleProofs` uses these and never expands a row again. Six
invariants are proved, each from some of those before:

1. `TypeInv` is `TypeOK` and `LoopsTyped`: a loop visits only keys of its own map.
   Without it nothing says that the entry a loop body reads exists, so that what it
   upserts is a row.
2. `MergeInv` makes `PresenceMatchesSources` inductive. That property speaks of the
   end of the merge; what holds on the way is `Covered` (the keys of a finished loop
   are seen, those of the running one are seen, current or still to visit, and nothing
   unobserved is seen), `SeenPresent` (what is seen has a row with counter 0) and
   `ArrivalsSeen` (a row the snapshot has not is one of this cycle's). At
   `CountMissing` nothing is left to visit, so *observed* and *seen* coincide, and the
   counter separates the two.
3. `AlertInv` links the history of alerts with the table: a device that is not
   registered was never announced, nor was one that the snapshot of the running cycle
   has not; one that was reported has missed at least `Threshold` counted cycles; right
   after a count, a device whose counter *is* `Threshold` was not reported yet; and
   reports are only pending for devices at that value. The third and the fourth are
   where `==` matters: the count takes a device already reported past the threshold, so
   it is at `Threshold` once between two sightings.
4. `TimelyInv`, for the alerts that must not be missing: between cycles who is registered
   has been announced (`ArrivalsInv`), and who has missed `Threshold` cycles has been reported,
   or is about to be by the count that took the counter *to* the threshold
   (`DeparturesInv`). It needs that nothing fails and that there is a webhook: the run
   `arrival_lost` shows that one failure loses an alert for good. The theorems therefore have
   the hypothesis `Failures = {}`, which is what the run `scan_merge` checks them under; the
   properties themselves ask for the webhook.
5. `RowsInv`, for what the merge writes. A device is a key of at most one of the three
   network loops (`LoopsAreDisjoint`), and possibly of Docker's, which comes last. So a row
   that no loop has come to says what the snapshot said (`GatherRows`, `LoopRow`), one
   that a network loop has come to what the observation says *without Docker*
   (`Undocked`), and one that Docker's loop has come to what all of it says. The four
   lemmas `ArpSays`, `ProxmoxSays`, `NdpSays` and `DockerSays` compare what each loop body
   writes with `ExpectedIp`, `ExpectedType` and `ExpectedMetadata`. Of the host-network pass
   `HostsInv` says that the metadata it has read is still what the row holds when it
   writes: PUTs come in between, but write other columns.
6. `CountsInv`, for the same two alerts where anything may fail. Until the count
   each counter is what the snapshot held (`pre`) or 0; so a counter that the count takes to
   the threshold or past it from below is *at* the threshold when the comparison looks for
   that value. While the webhooks are called, each such device is reported or pending, and so
   is each that the snapshot did not hold. So a cycle that reaches its end
   has announced each device it added and reported each absence it counted up to the
   threshold (`CompletedCycleAlerts`): the alerts that `arrival_lost` shows to be lost are
   those of the cycle that was cut short, and failures elsewhere cost none. TLC
   has checked the property on the values of `scan_alerts`.

`AtMostOneAlert` is not inductive by itself: nothing in it stops the next cycle from
announcing a device again. `OperatorValuesPersist` is inductive with the types:
every scan statement keeps operator columns and an alias that is not NULL.

**Refinement.** A phase is mapped to a round, the counters to missed rounds, and what
was upserted so far (`seen` and `current`) to the sightings. Each action is shown to
be a step of the contract or a stutter: an upsert is a `Sight`, the count is a `Count`
(the counters that stay are those of the sighted), a webhook an `Announce` or a
`Report` (`AlertInv` gives their guards), and exceptions and stops a `Close`.

**The queries.** All dictionaries of `Sources` are built by `Updated`, and two lemmas are what
the proofs need of it. `UpdatedSettles`: for a key the result has the value of the last update
that has one, and what the map held before if none has; `UpdatedType` bounds the values.
`FoundInv` says, for each MAC, that a walk has found what the last host that told of it said
(`LastHostWins` halfway through the hosts, and for all six walks; for the neighbours the value
that one reply gives is then looked at by itself); `ToldInv` links the replies told with the position of the walk and
with the answers of the Proxmox hosts; `ObsInv` carries both through the merge. They hold whichever
walks have failed, because a failed host adds nothing and moves the walk on. `TypeCorrect` is what
`ScanCycle` takes for granted of its inputs: its `Gather` takes any member of a set of
`Observation`s.

**The Proxmox poll.** `ProxmoxConstants` leaves nodes, guests, interfaces and the number
of changes arbitrary. `RecordsWereTrue` becomes inductive with `ListingInv`: what was
listed and not yet looked at, and the guest that is being asked for its address, *was*
true with the node now visited, and the latter was listed as running. The lists are empty
whenever the node changes, and all that is true now is on record, which is what a new
listing needs. `StayersInv` divides the guests that stayed and about which nothing failed
into three: the poll has not come to their node, or to the list of their kind there
(`Ahead`); they are on the list or in hand (`InHand`); or they are reported. Every request
takes a guest from one of these to the next or leaves it.

**Health.** `AnsweredInv`: a recorded answer is never younger than the real one.
`SteadyInv` bounds the age of the record of a steady source by the phase: a record made at
the end of a gather lives through a merge (`timer`), a sleep (`MergeLimit` more) and the
next gather (`Interval` more), which stays within the two intervals if a gather and a merge
fit into one.

**Lifespan.** `LifespanInv` says for each statement of `init_db` what its connection sees
(`WorkInv`), what is committed (`DiskInv`: a `devices_v2` is only found beside the table it is
to replace) and whether a transaction is open (`TransactionInv`: only from the `INSERT` of
the rebuild on). A rollback then goes back to a table with all rows from wherever the process
ends. `SeedInv` gives what the demo's file holds after each call of the seed. `DatabaseInv`, the
part of it about the file, is invariant for `SchemaMigration` alone as well, which gives
`MigrationIsSafe`. `Stuck` is the other side of that: `devices_v2` beside a table that still
is to be replaced, with nothing that a start can do before it raises.

**The store.** `WriterInv` has at most one call that holds RESERVED, whose draft is its
request applied to what is committed: the write lock is what keeps an update from being
lost. `CursorInv` says that a client between `execute` and `fetchall` has read a page of the
table as it still is, because its SHARED lock keeps commits out. The refinement follows: a
write takes effect at `Publish`, a read at its fetch, and all other steps are stutters.
`WalkInv` carries the client: a device that stayed is on a page it got or further back in the
list than its offset. That the latter is stable is the heart of it (`ComesNoEarlier`): an
upsert moves *its* device to the front and brings none of the others forward, as the number
of rows before a device can only grow as long as none ceases to match.

**Syslog.** `SyslogInv` has for every entry a day on which its datagram was parsed, at most
`MaxDelay` after it was sent. Two theorems have a condition, because the property depends on
what devices write. `ClocksAreBehind`: no clock is ahead, and none is behind, with the
delay, by more than a year less a month; a clock that is ahead is the counterexample of
section 5, and one that is a year behind has no year to be guessed from. `NamesAreOwn`: a
HOSTNAME that looks like an address is the device's. The values of the run `syslog` satisfy
both. `NoneForgotten` is the safety half of `ReceivedIsStored`, inductive as it stands: a
message in the hand-over is with its task or in the table, and what remains for
fairness is that tasks end.

**Where proving changed the model.** `Timestamp` of `Syslog` had been a `CASE` whose guards
overlapped; TLC takes the first that holds, but TLA+ leaves the choice open, so nothing could
be proved about a datagram without a stamp. It is an `IF` now, in the order of the code.
`Chosen` of `DeviceList` is a recursive function where it had been `SelectSeq`, of which
the provers know nothing; the tables of `Sources` are built by one such function, `Updated`,
where they had been folds. `Sources` did not say of which type replies are, nor that the empty
text is no address: without the latter an entry without one could be a neighbour. The assumptions that NULL is no table, record or request were found
missing in `Schema`, `ProxmoxPoll` and `DeviceList`. `GatherRows` was missing from `RowsInv`:
the operator may write between the snapshot and the first loop.

**Induction.** The library's induction rules take an operator as a parameter and cannot be
used here. Where a fact about all prefixes of a list is needed (`Chosen`, `Updated`, the newest
of a set of entries, the first routable address) the proofs take the least counterexample,
which exists because `<` on the naturals is well-founded (`WFMin`).

**Not proved, only model-checked:** the liveness properties (`CycleEnds`,
`AbsenceReported`, `StartComesUp`, `CallsEnd`, `Recovers`, `ReceivedIsStored`, `GatherEnds`,
`Converges`, `LogsConverge`), which are out of the prover's reach, and with them all of
`Dashboard`, whose properties are of that kind. All invariants and action properties
of the passing runs are proved, `YearResolved`, `RecentShown`, `FreshKept`, `FiledUnderOrigin`,
`ArrivalsAnnounced` and `DeparturesReported` under the conditions given above.

## 5. Where the code and its documentation disagree

Each of these two is a run that is expected to end in a counterexample.

* **`arrival_lost`**: `src/ARCHITECTURE.md:63` says that a device seen for the first
  time fires `device_discovered`. Upserts are committed as the cycle goes, the
  announcement is made at its end and only for MACs the snapshot of *that* cycle did
  not have (`main.py:393`): if the cycle is cut short in between, the device is never
  announced. The contract, which allows silence, still holds.
* **`migration_stuck`**: the migration of `database.py:68` does not survive a stop
  between `CREATE TABLE devices_v2`, which is committed at once, and the final
  commit: each later start raises on that `CREATE`. No row is lost (`MigrationIsSafe`), but
  no later start gets any further either, however often it is tried (`StopBeforeCopySticks`).

Seen while modelling, without a run of their own:

* `src/ARCHITECTURE.md:118` says that the turn of the year is handled correctly. From
  December to January it is; a device whose clock is a little ahead, already in January
  while the server is in December, is dated a year back, and the next purge deletes its
  entries. With `Skew` `{0, 1}` `YearResolved` fails; the `syslog` run has clocks that are
  right or behind.
* `main.py:597` offers `offset` "for pagination", over a list that each scan reorders. A
  device seen between two requests moves to a page already read: a walk may miss devices
  that are there all the time, and return others twice. `WalkComplete` says which are safe.
* `src/ARCHITECTURE.md:37` says that each source is fenced. Most catch their own errors,
  but `opnsense.py:97`, `:101` (JSON of another shape) and `snmp_scanner.py:65` (a port
  that is no number) are outside a handler, and `gather` then ends the cycle for all
  seven: `SourceRaises`, `QueryRaises`, `GatherRaises`.
* The docstring at `main.py:745` says that "unknown" means no scan has completed since
  startup. A source that returns nothing stays "unknown" after any number of scans
  (`main.py:176`).
* `src/README.md:49` says that Docker hosts are queried in parallel. They are asked one
  after the other (`identifiers.py:153`), so one that does not answer delays all behind
  it. (Proxmox hosts are asked in parallel, the nodes behind one host are not.)
* The comment at `opnsense.py:104` lists multicast entries among those skipped; line 105
  tests for broadcast and zero only.
* After the await `saveAlias` changes the device of the panel that is open *now*
  (`src/frontend/index.html:983`). With another one open, that device is shown with the
  wrong alias until the next refresh, and its panel until it is closed; with none open,
  the save is reported as failed. The other three saves do the same (`SaveReturns`).
* Clearing the search box is to "revert to showing current device's logs"
  (`index.html:1233`), but a search under way is not cancelled, and its answer stays
  under the device until the next refresh.
* Opening a device without an address is to show no logs (`index.html:897`), but the
  branch does not clear the list, and the logs of the device shown before stay until the
  next refresh.
* `src/ARCHITECTURE.md:41` says that ARP, Proxmox or Docker decide what is in the
  registry; a MAC seen only by NDP is upserted too (`main.py:321`), and so are those
  of nmap and SNMP.
* `src/ARCHITECTURE.md:55` and `syslog_server.py:169` describe HOSTNAME as used for
  messages relayed from 127.0.0.1; the code believes any HOSTNAME that looks like an
  address, from any sender (`syslog_server.py:159`).
* `src/ARCHITECTURE.md:86` and `:120` speak of one async connection; each call opens
  one.
* `main.py:743` says a source is "ok" if it returned results within two intervals; an
  answer is dropped unrecorded if another source raised in the same gather. The model
  has it (`GatherRaises`), and `SteadySourcesOk` excludes it.
* A guest that migrates during a poll from a node not visited yet to one visited before
  is in no listing, and is counted missing (`identifiers.py:296`). `StayersReported` is
  stated for those that stay.
* `bulkRetype` does not look at the status of its answers, and changes on the page what is
  selected when they are in, not what it asked for (`index.html:1135`); `Converges` has it
  corrected by the next refresh.
* The timed refresh replaces the results of a search by the device's logs while the text
  stays in the box (`index.html:1292`).
* The docstring at `identifiers.py:75` says that the result of `query_docker` is keyed by
  the container's IP address; it is keyed by MAC.
* A query that times out leaves its `nmap` or `snmpwalk` process behind
  (`nmap_scanner.py:53`, `snmp_scanner.py:82`), and when one query raises, the others go on
  unobserved while the next cycle starts.
* A departure is never reported when the cycle fails between the count, which is
  committed, and the comparison: the counter has passed the threshold by then.
* `host_network_containers` of an untagged bare-metal host stay when it runs none any
  more, because an empty `base_meta` is passed as NULL. `ExpectedMetadata` describes
  the code as it is.

## 6. What the models leave out

* *Data.* `vendor`, `scan_count`, `first_seen` and `last_seen` are not modelled: no
  decision of the scan reads them. Metadata is kept by the keys the scan writes.
  Texts are model values, with the empty one apart since it clears a column.
* *Threshold 0* and below: `ScanConstants` excludes them. With 0 every present device
  would match at each cycle.
* *Webhook failures*: `_fire_webhook` swallows them, so a failed delivery equals a
  successful one for the rest of the system.
* *The cycle's purge* of old syslogs is an action of `Syslog`, not of `ScanCycle`;
  the two tables share nothing.
* *Syslog*: severity and the filterlog summary. `NoStamp` is "-", a stamp that does not
  parse and one that falls on a 29 February of no leap year alike. Ties among equal stamps
  are left open. `MaxDelay` bounds how long a datagram or a task lasts.
* *SQLite*: in `ScanCycle`, `Syslog` and `Lifespan` a call of one statement is atomic, which
  `SqliteStore` justifies; the time a lock takes is not counted, and any wait may time out.
  One process has the file open: a second one, or another tool, is not modelled.
* *Lists*: of the filters only the type; `search` and `since` select by other columns in the
  same WHERE clause. The CSV of the export, and what JSON makes of metadata.
* *Source queries*: an address or a MAC is a value, and how texts are matched and
  normalised (`_ROW_RE`, `_normalise_mac`, `_parse_mac`) is not modelled. Processes that
  outlive a timeout, and queries that outlive a gather, are not counted.
* *Proxmox poll*: a guest's name, MAC addresses and kind do not change during a poll.
* *Dashboard*: the health dots, the table's filter, the CSV export, markup and formatting;
  devices that appear or go while the page is open; other browsers.
* *Lifespan*: a `SYSLOG_PORT` out of range raises from the bind another exception than
  those caught, and the start ends as after a kill. uvicorn's own socket is bound outside
  `lifespan`. The names and metadata of the seed's rows are left out.
* *Configuration*: the environment is read once, as constants of the modules; how its JSON
  is parsed is not modelled.
* *Not modelled at all*: the scapy scanner (called by nothing), build and deployment files.

## 7. Plan

The modules follow this order: the table and the scan cycle first, since they hold the
program's purpose; then alerts and their contract; then health, migration and syslog, which
are independent of them; then the queries below the cycle and the dashboard above it; then
what all of them stand on, the database's locks and the process that starts and stops. What
is left:

1. The composition of `Sources` with `SourceHealth` in time: the sum of the timeouts as
   the length of a gather, which `GatherLimit` takes as given.
2. The health dots and the table's filter of the dashboard.
