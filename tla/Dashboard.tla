----------------------------- MODULE Dashboard -----------------------------
(***************************************************************************)
(* The browser's side (frontend/index.html): the list of devices with its  *)
(* timed refresh, the panel of one device with its logs, and the edits the *)
(* operator saves.  Requests and their answers cross: each handler runs up *)
(* to its await, and goes on later with whatever the page holds then.      *)
(***************************************************************************)
EXTENDS Integers, FiniteSets, Bags

CONSTANTS
  Device,
  IP,
  Ip,          \* a device's address, NULL if it is not known
  Field,       \* what the operator may edit of a device
  Values,      \* what each field may hold
  Stored,      \* what the server may hold when the page is opened
  Query,       \* texts to search the logs for
  NULL,
  ERROR,       \* what the log pane shows after a request that failed
  Limit,       \* MAX_CONSECUTIVE_FAILURES
  MaxActs,     \* bound on what the operator does, closing panels aside
  MaxFaults,   \* bound on requests that fail
  MaxSent      \* bound on the requests of a kind under way when the timer fires

Details == {r \in [Field -> UNION {Values[f] : f \in Field}] : \A f \in Field : r[f] \in Values[f]}

ASSUME DashboardConstants ==
  /\ Ip \in [Device -> IP \cup {NULL}]
  /\ Field \subseteq {"alias", "type", "notes", "syslog_ip"}
  /\ DOMAIN Values = Field
  /\ "syslog_ip" \in Field => Values["syslog_ip"] \subseteq IP \cup {NULL}
  /\ Stored \subseteq [Device -> Details]
  /\ NULL \notin IP \cup Query
  /\ Limit \in Nat \ {0}
  /\ {MaxActs, MaxFaults, MaxSent} \subseteq Nat

VARIABLES
  stored,     \* the server's devices
  shown,      \* allDevices, NULL while there are none
  active,     \* activeDevice, NULL while the panel is closed
  selected,   \* selectedMacs
  pane,       \* whose logs, or which search, the log pane lists; NULL for nothing
  query,      \* the text in the search box, NULL for none
  debounce,   \* logSearchTimer is set
  timer,      \* "boot", "on", or "off" once it is cleared
  fails,      \* consecutiveFailures
  fetches,    \* GET /api/devices under way; list is the answer, once made
  reads,      \* GET /api/logs under way, by what they ask for
  puts,       \* PUT requests under way, as the handler that waits for them
  acts,       \* what the operator has done
  faults      \* requests that failed

list   == <<stored, shown, timer, fails, fetches>>
logs   == <<pane, query, debounce, reads>>
vars   == <<list, active, selected, logs, puts, acts, faults>>

Fetch == [boot : BOOLEAN, list : [Device -> Details] \cup {NULL}]

\* waiting: devices whose PUT has no answer; ok: "ok", "status" or "network".
Put == [id : 1..MaxActs, bulk : BOOLEAN, field : Field, value : UNION {Values[f] : f \in Field},
        waiting : SUBSET Device, ok : {"ok", "status", "network"}]

TypeOK ==
  /\ stored \in [Device -> Details]
  /\ shown \in [Device -> Details] \cup {NULL}
  /\ active \in [mac : Device, details : Details] \cup {NULL}
  /\ selected \subseteq Device
  /\ pane \in IP \cup Query \cup {NULL, ERROR}
  /\ query \in Query \cup {NULL}
  /\ debounce \in BOOLEAN /\ (debounce => query # NULL)
  /\ timer \in {"boot", "on", "off"}
  /\ fails \in 0..MaxFaults
  /\ BagToSet(fetches) \subseteq Fetch
  /\ BagToSet(reads) \subseteq IP \cup Query \cup {NULL}
  /\ puts \subseteq Put
  /\ acts \in 0..MaxActs /\ faults \in 0..MaxFaults

Sent(boot) == [boot |-> boot, list |-> NULL]

Init ==
  /\ stored \in Stored
  /\ shown = NULL /\ active = NULL /\ selected = {}
  /\ pane = NULL /\ query = NULL /\ debounce = FALSE
  /\ timer = "boot" /\ fails = 0
  /\ fetches = SetToBag({Sent(TRUE)})
  /\ reads = EmptyBag /\ puts = {}
  /\ acts = 0 /\ faults = 0

Acts == acts < MaxActs /\ acts' = acts + 1

Fault == faults < MaxFaults /\ faults' = faults + 1

-----------------------------------------------------------------------------
(* The list and its refresh. *)

ServerLists(f) ==
  /\ f.list = NULL
  /\ fetches' = (fetches (-) SetToBag({f})) (+) SetToBag({[f EXCEPT !.list = stored]})
  /\ UNCHANGED <<stored, shown, timer, fails, active, selected, logs, puts, acts, faults>>

\* fetchDevices().then(startAutoRefresh)
Booted(f) == IF f.boot THEN "on" ELSE timer

FetchReturns(f) ==
  /\ f.list # NULL
  /\ fetches' = fetches (-) SetToBag({f})
  /\ shown' = f.list
  /\ fails' = 0
  /\ timer' = Booted(f)
  /\ UNCHANGED <<stored, active, selected, logs, puts, acts, faults>>

\* Faulty variant, to test the properties with: the first failure stops the timer.
FetchFails_StopAtOnce(f) ==
  /\ Fault
  /\ fetches' = fetches (-) SetToBag({f})
  /\ fails' = fails + 1
  /\ timer' = IF f.boot THEN "on" ELSE "off"
  /\ UNCHANGED <<stored, shown, active, selected, logs, puts, acts>>

\* clearInterval: the timer stays off, even if a later refresh succeeds.
FetchFails(f) ==
  /\ Fault
  /\ fetches' = fetches (-) SetToBag({f})
  /\ fails' = fails + 1
  /\ timer' = IF ~f.boot /\ timer = "on" /\ fails + 1 >= Limit THEN "off" ELSE Booted(f)
  /\ UNCHANGED <<stored, shown, active, selected, logs, puts, acts>>

\* btn-refresh
Refresh ==
  /\ Acts
  /\ fetches' = fetches (+) SetToBag({Sent(FALSE)})
  /\ UNCHANGED <<stored, shown, timer, fails, active, selected, logs, puts, faults>>

-----------------------------------------------------------------------------
(* The log pane. *)

\* syslog_ip || ip
LogAddress(device) ==
  IF "syslog_ip" \in Field /\ device.details["syslog_ip"] # NULL
  THEN device.details["syslog_ip"] ELSE Ip[device.mac]

\* fetchLogs and searchLogs up to the await: the pane is cleared.
AskFor(what) ==
  /\ reads' = reads (+) SetToBag({what})
  /\ pane' = NULL
  /\ UNCHANGED <<query, debounce>>

\* ... and after it.  Nothing is logged for an address that is not known.
ReadReturns(what) ==
  /\ reads' = reads (-) SetToBag({what})
  /\ pane' = what
  /\ UNCHANGED <<list, active, selected, query, debounce, puts, acts, faults>>

ReadFails(what) ==
  /\ Fault
  /\ reads' = reads (-) SetToBag({what})
  /\ pane' = ERROR
  /\ UNCHANGED <<list, active, selected, query, debounce, puts, acts>>

\* The overlay keeps the table from being clicked while the panel is open.
OpenPanel(d) ==
  /\ Acts
  /\ shown # NULL /\ active = NULL
  /\ active' = [mac |-> d, details |-> shown[d]]
  /\ LET address == LogAddress(active')
     IN  IF address # NULL THEN AskFor(address) ELSE UNCHANGED logs
  /\ UNCHANGED <<list, selected, puts, faults>>

ClosePanel ==
  /\ active # NULL
  /\ active' = NULL
  /\ UNCHANGED <<list, selected, logs, puts, acts, faults>>

\* The search box: a text is searched for after a pause, none reverts to the device.
TypeQuery(q) ==
  /\ Acts
  /\ q # query
  /\ query' = q
  /\ debounce' = (q # NULL)
  /\ IF q = NULL /\ active # NULL
     THEN reads' = reads (+) SetToBag({LogAddress(active)}) /\ pane' = NULL
     ELSE UNCHANGED <<reads, pane>>
  /\ UNCHANGED <<list, active, selected, puts, faults>>

SearchFires ==
  /\ debounce
  /\ debounce' = FALSE
  /\ reads' = reads (+) SetToBag({query})
  /\ pane' = NULL
  /\ UNCHANGED <<list, active, selected, query, puts, acts, faults>>

\* log-refresh
ReloadLogs ==
  /\ Acts
  /\ active # NULL
  /\ AskFor(LogAddress(active))
  /\ UNCHANGED <<list, active, selected, puts, faults>>

\* Faulty variant, to test the properties with: the timer leaves the logs alone.
Tick_DevicesOnly ==
  /\ timer = "on"
  /\ BagCardinality(fetches) < MaxSent
  /\ fetches' = fetches (+) SetToBag({Sent(FALSE)})
  /\ UNCHANGED <<stored, shown, timer, fails, active, selected, logs, puts, acts, faults>>

\* setInterval
Tick ==
  /\ timer = "on"
  /\ BagCardinality(fetches) < MaxSent /\ BagCardinality(reads) < MaxSent
  /\ fetches' = fetches (+) SetToBag({Sent(FALSE)})
  /\ IF active # NULL THEN AskFor(LogAddress(active)) ELSE UNCHANGED logs
  /\ UNCHANGED <<stored, shown, timer, fails, active, selected, puts, acts, faults>>

-----------------------------------------------------------------------------
(* Edits: saveAlias, saveType, saveNotes, saveSyslogIp and bulkRetype. *)

Puts(bulk, macs, field, value) ==
  puts' = puts \cup {[id |-> acts', bulk |-> bulk, field |-> field, value |-> value,
                      waiting |-> macs, ok |-> "ok"]}

Save(field, value) ==
  /\ Acts
  /\ active # NULL
  /\ Puts(FALSE, {active.mac}, field, value)
  /\ UNCHANGED <<list, active, selected, logs, faults>>

\* A row's checkbox, under the overlay while the panel is open.
Check(d) ==
  /\ Acts
  /\ active = NULL /\ shown # NULL
  /\ selected' = IF d \in selected THEN selected \ {d} ELSE selected \cup {d}
  /\ UNCHANGED <<list, active, logs, puts, faults>>

BulkRetype(value) ==
  /\ Acts
  /\ active = NULL /\ selected # {}
  /\ Puts(TRUE, selected, "type", value)
  /\ UNCHANGED <<list, active, selected, logs, faults>>

Answered(p, d, ok) ==
  puts' = (puts \ {p}) \cup
            {[p EXCEPT !.waiting = @ \ {d}, !.ok = IF p.ok = "network" THEN p.ok ELSE ok]}

Stores(p, d) == stored' = [stored EXCEPT ![d][p.field] = p.value]

PutApplied(p, d) ==
  /\ d \in p.waiting
  /\ Stores(p, d)
  /\ Answered(p, d, p.ok)
  /\ UNCHANGED <<shown, timer, fails, fetches, active, selected, logs, acts, faults>>

\* An error status: nothing is stored.
PutRejected(p, d) ==
  /\ Fault
  /\ d \in p.waiting
  /\ Answered(p, d, "status")
  /\ UNCHANGED <<list, active, selected, logs, acts>>

\* The connection breaks, before the server has stored it or after.
PutLost(p, d) ==
  /\ Fault
  /\ d \in p.waiting
  /\ Stores(p, d) \/ UNCHANGED stored
  /\ Answered(p, d, "network")
  /\ UNCHANGED <<shown, timer, fails, fetches, active, selected, logs, acts>>

Done(p) == puts' = puts \ {p} /\ UNCHANGED <<stored, timer, fails, fetches, acts, faults>>

\* After the await it is the device of the panel open now that changes; when
\* there is none, activeDevice.mac throws, and the save is reported as failed.
SaveReturns(p) ==
  /\ ~p.bulk /\ p.waiting = {}
  /\ Done(p)
  /\ UNCHANGED selected
  /\ IF p.ok = "ok" /\ active # NULL
     THEN /\ shown' = [shown EXCEPT ![active.mac][p.field] = p.value]
          /\ active' = [active EXCEPT !.details[p.field] = p.value]
          /\ IF p.field = "syslog_ip" THEN AskFor(LogAddress(active')) ELSE UNCHANGED logs
     ELSE UNCHANGED <<shown, active, logs>>

\* Promise.all: any answer will do, and those selected by now are changed here.
BulkReturns(p) ==
  /\ p.bulk /\ p.waiting = {} /\ p.ok # "network"
  /\ Done(p)
  /\ shown' = [d \in Device |-> IF d \in selected THEN [shown[d] EXCEPT ![p.field] = p.value]
                                ELSE shown[d]]
  /\ selected' = {}
  /\ UNCHANGED <<active, logs>>

\* A request that rejects ends the handler; the server gets the others all the same.
BulkThrows(p) ==
  /\ p.bulk /\ p.waiting = {} /\ p.ok = "network"
  /\ Done(p)
  /\ UNCHANGED <<shown, selected, active, logs>>

-----------------------------------------------------------------------------

FetchStep(f) == ServerLists(f) \/ FetchReturns(f) \/ FetchFails(f)

ReadStep(what) == ReadReturns(what) \/ ReadFails(what)

PutStep(p) ==
  \/ \E d \in Device : PutApplied(p, d) \/ PutRejected(p, d) \/ PutLost(p, d)
  \/ SaveReturns(p) \/ BulkReturns(p) \/ BulkThrows(p)

Fetching == \E f \in BagToSet(fetches) : FetchStep(f)
Reading  == \E what \in BagToSet(reads) : ReadStep(what)
Putting  == \E p \in puts : PutStep(p)

Operator ==
  \/ Refresh \/ ClosePanel \/ ReloadLogs
  \/ \E d \in Device : OpenPanel(d) \/ Check(d)
  \/ \E q \in Query \cup {NULL} : TypeQuery(q)
  \/ \E field \in Field : \E value \in Values[field] : Save(field, value)
  \/ "type" \in Field /\ \E value \in Values["type"] : BulkRetype(value)

Next == Fetching \/ Reading \/ Putting \/ Tick \/ SearchFires \/ Operator

Spec == Init /\ [][Next]_vars

\* Timers fire, and every request is answered or fails.
FairSpec ==
  /\ Spec
  /\ WF_vars(Fetching) /\ WF_vars(Reading) /\ WF_vars(Putting)
  /\ WF_vars(Tick) /\ WF_vars(SearchFires)

-----------------------------------------------------------------------------
(* Properties. *)

\* Unless polling gives up after Limit failures in a row, the list comes to show
\* what the server holds and keeps showing it, whichever answers crossed the
\* saves, and whatever a save or a bulk change has put in the wrong place.
Converges == <>[](shown = stored) \/ <>(fails >= Limit)

\* The logs of a panel left open come to be those of its device and stay so (or
\* nothing while they load), and do appear, though searches and the logs of
\* devices looked at before may answer later.
LogsConverge ==
  \/ <>(fails >= Limit)
  \/ []<>(active = NULL)
  \/ /\ <>[](active # NULL /\ pane \in {NULL, LogAddress(active)})
     /\ []<>(active # NULL /\ pane = LogAddress(active))
=============================================================================
