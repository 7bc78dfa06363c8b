----------------------------- MODULE ScanCycle -----------------------------
(***************************************************************************)
(* The scan loop of src/main.py: one discovery cycle, its database calls   *)
(* one by one, the alerts that end it, the failures and restarts that cut  *)
(* it short, and the operator's PUT requests that run between its calls.   *)
(***************************************************************************)
EXTENDS Discovery

CONSTANTS
  Threshold,        \* ALERT_DISAPPEARANCE_THRESHOLD
  Observations,     \* what the sources may answer in one cycle
  OperatorTexts,    \* texts the operator may PUT
  AlertWebhook,     \* ALERT_WEBHOOK_URL is set
  Failures          \* what may go wrong: "source" or "database" calls raise, "stop" ends the process

ASSUME ScanConstants ==
  /\ Threshold \in Nat \ {0}
  /\ Threshold < MaxCount
  /\ Observations \subseteq Observation
  /\ OperatorTexts \subseteq Name
  /\ AlertWebhook \in BOOLEAN
  /\ Failures \subseteq {"source", "database", "stop"}

VARIABLES
  devices,      \* the devices table, the only thing a restart keeps
  phase,        \* where the scan loop is
  pre,          \* pre_scan_devices
  obs,          \* the sources' answers
  todo,         \* what the running loop has still to visit
  current,      \* the MAC between the two database calls of a loop body
  existing,     \* the metadata merge_host_containers has read
  seen,         \* seen_macs
  hostnet,      \* _host_net_containers
  alerts,       \* webhooks still to fire, from the comparison with pre
  \* History, for the properties:
  discovered,   \* device_discovered events fired for a MAC, up to 2
  gone,         \* device_gone events fired since a MAC was last seen, up to 2
  manual        \* the last text the operator PUT in each column

locals  == <<pre, obs, todo, current, existing, seen, hostnet, alerts>>
history == <<discovered, gone, manual>>
vars    == <<devices, phase, locals, history>>

Loops   == {"arp", "proxmox", "ndp", "docker"}
Busy    == Loops \cup {"gather", "hostnet", "snapshot", "alert"}
Column  == OperatorColumn \cup {"alias"}
Alert   == {"device_discovered", "device_gone"} \X MAC

TypeOK ==
  /\ devices \in Table
  /\ phase \in Busy \cup {"idle", "down"}
  /\ pre \in Table
  /\ obs \in Observation
  /\ todo \subseteq MAC
  /\ current \in MAC \cup {NULL}
  /\ existing \in Metadata \cup {NULL}
  /\ seen \subseteq MAC
  /\ hostnet \in [MAC -> SUBSET Container]
  /\ alerts \subseteq Alert
  /\ discovered \in [MAC -> 0..2]
  /\ gone \in [MAC -> 0..2]
  /\ manual \in [MAC -> [Column -> Name \cup {NULL}]]

NoContainers == [m \in MAC |-> {}]

Init ==
  /\ devices = EmptyTable
  /\ phase = "down"
  /\ pre = EmptyTable
  /\ obs = NothingObserved
  /\ todo = {}
  /\ current = NULL
  /\ existing = NULL
  /\ seen = {}
  /\ hostnet = NoContainers
  /\ alerts = {}
  /\ discovered = [m \in MAC |-> 0]
  /\ gone = [m \in MAC |-> 0]
  /\ manual = [m \in MAC |-> [c \in Column |-> NULL]]

\* _run_scan_once returns, raises or is cancelled: its locals go.
DropLocals ==
  /\ pre' = EmptyTable
  /\ obs' = NothingObserved
  /\ todo' = {}
  /\ current' = NULL
  /\ existing' = NULL
  /\ seen' = {}
  /\ hostnet' = NoContainers
  /\ alerts' = {}

Twice(n) == IF n < 2 THEN n + 1 ELSE n

-----------------------------------------------------------------------------
(* The cycle, one action per database call or loop step. *)

StartScan ==
  /\ phase = "idle"
  /\ phase' = "gather"
  /\ pre' = devices
  /\ UNCHANGED <<devices, obs, todo, current, existing, seen, hostnet, alerts, history>>

Gather ==
  /\ phase = "gather"
  /\ \E o \in Observations :
       /\ obs' = o
       /\ todo' = LoopKeys("arp", o)
  /\ phase' = "arp"
  /\ UNCHANGED <<devices, pre, current, existing, seen, hostnet, alerts, history>>

\* Faulty variant, to test the properties with: the loop does not advance.
Upsert_Stuck(m, sighting) ==
  /\ current = NULL
  /\ m \in todo
  /\ devices' = UpsertDevice(devices, m, sighting)
  /\ current' = m
  /\ gone' = [gone EXCEPT ![m] = 0]
  /\ UNCHANGED <<phase, pre, obs, todo, existing, seen, hostnet, alerts, discovered, manual>>

\* The upsert_device call of a loop body.
Upsert(m, sighting) ==
  /\ current = NULL
  /\ m \in todo
  /\ devices' = UpsertDevice(devices, m, sighting)
  /\ todo' = todo \ {m}
  /\ current' = m
  /\ gone' = [gone EXCEPT ![m] = 0]
  /\ UNCHANGED <<phase, pre, obs, existing, seen, hostnet, alerts, discovered, manual>>

MergeArp(m)     == phase = "arp" /\ Upsert(m, ArpSighting(obs, m))
MergeProxmox(m) == phase = "proxmox" /\ Upsert(m, ProxmoxSighting(obs, m))
MergeNdp(m)     == phase = "ndp" /\ Upsert(m, NdpSighting(obs, m))
MergeDocker(m)  == phase = "docker" /\ Upsert(m, DockerSighting(obs, m))

\* Faulty variant, to test the properties with: seen_macs.add only for a named device.
NameDevice_SeenIfNamed ==
  /\ phase \in Loops
  /\ current # NULL
  /\ LET hostname == Hostname(phase, obs, current)
     IN  IF hostname = NULL THEN UNCHANGED <<devices, seen>>
         ELSE /\ devices' = SetHostnameIfUnset(devices, current, hostname)
              /\ seen' = seen \cup {current}
  /\ current' = NULL
  /\ UNCHANGED <<phase, pre, obs, todo, existing, hostnet, alerts, history>>

\* The rest of a loop body: set_hostname_if_unset when there is a name, then seen_macs.add.
NameDevice ==
  /\ phase \in Loops
  /\ current # NULL
  /\ LET hostname == Hostname(phase, obs, current)
     IN  devices' = IF hostname = NULL THEN devices
                    ELSE SetHostnameIfUnset(devices, current, hostname)
  /\ seen' = seen \cup {current}
  /\ current' = NULL
  /\ UNCHANGED <<phase, pre, obs, todo, existing, hostnet, alerts, history>>

LoopDone == todo = {} /\ current = NULL

EnterLoop(from, to) ==
  /\ phase = from
  /\ LoopDone
  /\ phase' = to
  /\ todo' = LoopKeys(to, obs)
  /\ UNCHANGED <<devices, pre, obs, current, existing, seen, hostnet, alerts, history>>

NextLoop ==
  \/ EnterLoop("arp", "proxmox")
  \/ EnterLoop("proxmox", "ndp")
  \/ EnterLoop("ndp", "docker")

\* Faulty variant, to test the properties with: a host already seen is taken for merged.
CollectHostNet_SkipSeen ==
  /\ phase = "docker"
  /\ LoopDone
  /\ \E owner \in IpToMac(obs) : hostnet' = HostNetContainers(obs, owner)
  /\ todo' = {m \in MAC : hostnet'[m] # {}} \ seen
  /\ phase' = "hostnet"
  /\ UNCHANGED <<devices, pre, obs, current, existing, seen, alerts, history>>

CollectHostNet ==
  /\ phase = "docker"
  /\ LoopDone
  /\ \E owner \in IpToMac(obs) : hostnet' = HostNetContainers(obs, owner)
  /\ todo' = {m \in MAC : hostnet'[m] # {}}
  /\ phase' = "hostnet"
  /\ UNCHANGED <<devices, pre, obs, current, existing, seen, alerts, history>>

\* merge_host_containers reads the metadata of a host (the row is there: the
\* host is in arp_map, so the first loop upserted it) ...
ReadHostMetadata(m) ==
  /\ phase = "hostnet"
  /\ current = NULL
  /\ m \in todo
  /\ devices[m] # NULL
  /\ existing' = devices[m].metadata
  /\ todo' = todo \ {m}
  /\ current' = m
  /\ UNCHANGED <<devices, phase, pre, obs, seen, hostnet, alerts, history>>

\* ... and writes it back with the containers of this cycle.
WriteHostMetadata ==
  /\ phase = "hostnet"
  /\ current # NULL
  /\ devices' = MergeHostContainers(devices, current, existing, hostnet[current])
  /\ seen' = seen \cup {current}
  /\ current' = NULL
  /\ existing' = NULL
  /\ UNCHANGED <<phase, pre, obs, todo, hostnet, alerts, history>>

CountMissing ==
  /\ phase = "hostnet"
  /\ LoopDone
  /\ devices' = UpdateDisappearanceCounts(devices, seen)
  /\ phase' = "snapshot"
  /\ UNCHANGED <<locals, history>>

\* Faulty variant, to test the properties with: a device that comes back counts as new.
Discoveries_Returning ==
  {m \in Registered(devices) :
     pre[m] = NULL \/ (pre[m].disappearance_count >= Threshold
                         /\ devices[m].disappearance_count = 0)}

\* Faulty variant, to test the properties with: >= instead of =.
Departures_EveryCycle ==
  {m \in Registered(devices) :
     pre[m] # NULL /\ devices[m].disappearance_count >= Threshold}

\* Faulty variant, to test the properties with: one cycle early.
Departures_Early ==
  {m \in Registered(devices) :
     pre[m] # NULL /\ devices[m].disappearance_count + 1 = Threshold}

\* Faulty variant, to test the properties with: > instead of =.
Departures_Late ==
  {m \in Registered(devices) :
     pre[m] # NULL /\ devices[m].disappearance_count > Threshold}

\* get_all_devices again, compared with the snapshot from before the cycle.
Discoveries == {m \in Registered(devices) : pre[m] = NULL}
Departures  == {m \in Registered(devices) :
                  pre[m] # NULL /\ devices[m].disappearance_count = Threshold}

CompareSnapshots ==
  /\ phase = "snapshot"
  /\ alerts' = IF AlertWebhook
               THEN ({"device_discovered"} \X Discoveries) \cup ({"device_gone"} \X Departures)
               ELSE {}
  /\ phase' = "alert"
  /\ UNCHANGED <<devices, pre, obs, todo, current, existing, seen, hostnet, history>>

\* Faulty variant, to test the properties with: the loop ends with the first alert.
FireWebhook_First(event, m) ==
  /\ phase = "alert"
  /\ <<event, m>> \in alerts
  /\ alerts' = {}
  /\ discovered' = IF event = "device_discovered"
                   THEN [discovered EXCEPT ![m] = Twice(@)] ELSE discovered
  /\ gone' = IF event = "device_gone" THEN [gone EXCEPT ![m] = Twice(@)] ELSE gone
  /\ UNCHANGED <<devices, phase, pre, obs, todo, current, existing, seen, hostnet, manual>>

\* _fire_webhook never raises: a delivery that fails is logged and forgotten.
FireWebhook(event, m) ==
  /\ phase = "alert"
  /\ <<event, m>> \in alerts
  /\ alerts' = alerts \ {<<event, m>>}
  /\ discovered' = IF event = "device_discovered"
                   THEN [discovered EXCEPT ![m] = Twice(@)] ELSE discovered
  /\ gone' = IF event = "device_gone" THEN [gone EXCEPT ![m] = Twice(@)] ELSE gone
  /\ UNCHANGED <<devices, phase, pre, obs, todo, current, existing, seen, hostnet, manual>>

FinishScan ==
  /\ phase = "alert"
  /\ alerts = {}
  /\ phase' = "idle"
  /\ DropLocals
  /\ UNCHANGED <<devices, history>>

-----------------------------------------------------------------------------
(* What cuts a cycle short. *)

Abandon ==
  /\ phase' = "idle"
  /\ DropLocals
  /\ UNCHANGED <<devices, history>>

\* asyncio.gather is called without return_exceptions: one source that raises
\* ends the cycle.  _scan_loop logs it and sleeps.
SourceRaises == "source" \in Failures /\ phase = "gather" /\ Abandon

\* No database call of the cycle has a handler; a locked or full database
\* raises.  Only the webhook swallows its exceptions.
DatabaseRaises ==
  /\ "database" \in Failures
  /\ phase \in Loops \cup {"hostnet"} \/ (phase = "snapshot" /\ AlertWebhook)
  /\ Abandon

\* The process is killed, or shut down: lifespan cancels the scan task.
Stop ==
  /\ "stop" \in Failures
  /\ phase # "down"
  /\ phase' = "down"
  /\ DropLocals
  /\ UNCHANGED <<devices, history>>

\* lifespan: init_db, then the scan loop, which starts with a scan.
Start ==
  /\ phase = "down"
  /\ phase' = "idle"
  /\ UNCHANGED <<devices, locals, history>>

-----------------------------------------------------------------------------
(* The operator's PUT requests; a MAC that is not registered gets a 404. *)

Put(m, c, text, table) ==
  /\ phase # "down"
  /\ devices[m] # NULL
  /\ devices' = table
  /\ manual' = [manual EXCEPT ![m][c] = text]
  /\ UNCHANGED <<phase, locals, discovered, gone>>

PutAlias(m, text) == Put(m, "alias", text, SetDeviceAlias(devices, m, text))

PutOperatorColumn(m, c, text) == Put(m, c, text, SetOperatorColumn(devices, m, c, text))

-----------------------------------------------------------------------------

ScanStep ==
  \/ StartScan
  \/ Gather
  \/ \E m \in MAC : MergeArp(m)
  \/ \E m \in MAC : MergeProxmox(m)
  \/ \E m \in MAC : MergeNdp(m)
  \/ \E m \in MAC : MergeDocker(m)
  \/ NameDevice
  \/ NextLoop
  \/ CollectHostNet
  \/ \E m \in MAC : ReadHostMetadata(m)
  \/ WriteHostMetadata
  \/ CountMissing
  \/ CompareSnapshots
  \/ \E a \in alerts : FireWebhook(a[1], a[2])
  \/ FinishScan

Operator ==
  \E m \in MAC, text \in OperatorTexts :
    \/ PutAlias(m, text)
    \/ \E c \in OperatorColumn : PutOperatorColumn(m, c, text)

Next == ScanStep \/ SourceRaises \/ DatabaseRaises \/ Stop \/ Start \/ Operator

\* Every await of the cycle ends (each source, the webhook and SQLite's lock
\* wait have a timeout), the sleep between cycles ends, and the container's
\* restart policy starts a stopped process again.
Fairness == WF_vars(ScanStep) /\ WF_vars(Start)

Spec == Init /\ [][Next]_vars

FairSpec == Spec /\ Fairness

-----------------------------------------------------------------------------
(* Properties of the merge. *)

Observed(o, m) ==
  \/ o.arp[m] # NULL
  \/ o.nmap[m] # NULL
  \/ o.snmp[m] # NULL
  \/ o.proxmox[m] # NULL
  \/ o.ndp[m] # NULL
  \/ o.docker[m] # NULL

Counted == phase \in {"snapshot", "alert"}

\* Once a cycle has counted, a device is registered with no missed cycle exactly
\* when some source showed it: the five merge loops, which exclude one
\* another's MACs, skip nobody and count nobody twice as missing.
PresenceMatchesSources ==
  Counted =>
    \A m \in MAC : Observed(obs, m) <=>
                     (devices[m] # NULL /\ devices[m].disappearance_count = 0)

Was(m, column, default) == IF pre[m] = NULL THEN default ELSE pre[m][column]

\* Docker's address, else OPNsense's, nmap's, SNMP's, the guest agent's, and
\* with none of them the one already stored.
ExpectedIp(o, m) ==
  IF o.docker[m] # NULL THEN o.docker[m].ip
  ELSE IF o.arp[m] # NULL THEN o.arp[m].ip
  ELSE IF o.nmap[m] # NULL THEN o.nmap[m]
  ELSE IF o.snmp[m] # NULL THEN o.snmp[m]
  ELSE IF o.proxmox[m] # NULL /\ o.proxmox[m].ip # NULL THEN o.proxmox[m].ip
  ELSE Was(m, "ip", NULL)

ExpectedType(o, m) ==
  IF o.docker[m] # NULL THEN "docker-container"
  ELSE IF o.proxmox[m] # NULL THEN o.proxmox[m].type
  ELSE "bare-metal"

\* Docker's record replaces all metadata; otherwise the guest's record and the
\* segment do, and with neither the stored metadata stays.
ExpectedMetadata(o, m) ==
  LET fresh == [GuestMetadata(o, m) EXCEPT
                  !.vlan = IF o.arp[m] = NULL THEN NULL ELSE o.arp[m].intf]
  IN  IF o.docker[m] # NULL THEN [EmptyMetadata EXCEPT !.container = o.docker[m].container]
      ELSE IF fresh # EmptyMetadata THEN fresh
      ELSE Was(m, "metadata", NULL)

\* A merged row holds what the source with the highest priority says, whatever
\* the order in which the loops overwrote it; host-network containers are added
\* to the metadata and disturb nothing else; and a device no source showed keeps
\* the row it had.
MergePriority ==
  Counted =>
    \A m \in MAC :
      IF Observed(obs, m)
      THEN /\ devices[m].ip = ExpectedIp(obs, m)
           /\ devices[m].ipv6 = Coalesce(obs.ndp[m], Was(m, "ipv6", NULL))
           /\ devices[m].device_type = ExpectedType(obs, m)
           /\ devices[m].metadata =
                IF hostnet[m] = {} THEN ExpectedMetadata(obs, m)
                ELSE MergedMetadata(ExpectedMetadata(obs, m), hostnet[m])
      ELSE pre[m] # NULL => \A c \in {"ip", "ipv6", "device_type", "metadata"} :
                               devices[m][c] = pre[m][c]

\* Every host-network container whose daemon's address is in the ARP map is
\* listed on a device that has that address, and stays listed through the
\* metadata writes of the other loops.
HostContainersAttributed ==
  Counted =>
    \A c \in Keys(obs.hostnet) :
      LET hosts == {m \in Keys(ArpMap(obs)) : ArpMap(obs)[m].ip = obs.hostnet[c]}
      IN  hosts # {} =>
            \E m \in hosts :
              devices[m].metadata # NULL /\ c \in devices[m].metadata.hostnet

-----------------------------------------------------------------------------
(* Properties of the alerts. *)

\* A pending device_discovered is for a device that a source showed in this
\* very cycle and that was never announced; a pending device_gone is for one
\* that no source showed and whose absence was not reported yet.
AlertsJustified ==
  /\ \A m \in MAC : <<"device_discovered", m>> \in alerts =>
                        Observed(obs, m) /\ discovered[m] = 0
  /\ \A m \in MAC : <<"device_gone", m>> \in alerts =>
                        ~Observed(obs, m) /\ gone[m] = 0

\* Over any number of cycles, failures and restarts a device is announced once,
\* and reported gone once between two sightings.
AtMostOneAlert == \A m \in MAC : discovered[m] <= 1 /\ gone[m] <= 1

\* A device that was reported gone and not seen since has missed at least
\* Threshold counted cycles.
GoneMeansMissing ==
  \A m \in MAC : gone[m] > 0 =>
    devices[m] # NULL /\ devices[m].disappearance_count >= Threshold

\* Between cycles every registered device has been announced.
ArrivalsAnnounced ==
  AlertWebhook /\ phase = "idle" => \A m \in Registered(devices) : discovered[m] = 1

\* Between cycles every device at or past the threshold has been reported.
DeparturesReported ==
  AlertWebhook /\ phase = "idle" =>
    \A m \in Registered(devices) :
      devices[m].disappearance_count >= Threshold => gone[m] = 1

\* A cycle that gets to its end has announced each device it added, and reported each
\* whose absence it counted up to the threshold, whatever failed in the cycles before it
\* and whatever the operator did meanwhile.
CompletedCycleAlerts ==
  [][FinishScan /\ AlertWebhook =>
       \A m \in Registered(devices) :
         IF pre[m] = NULL THEN discovered[m] = 1
         ELSE pre[m].disappearance_count < Threshold
                /\ devices[m].disappearance_count >= Threshold => gone[m] = 1]_vars

\* A registered device that no source shows any more is reported gone in the end.
AbsenceReported ==
  \A m \in MAC : (devices[m] # NULL /\ []~Observed(obs, m)) ~> gone[m] = 1

\* A cycle that has started ends: by finishing, by an exception, or with the process.
CycleEnds == phase \in Busy ~> phase \in {"idle", "down"}

-----------------------------------------------------------------------------
(* Properties of the table over time. *)

\* What the operator last PUT is what the row holds, whatever scans, failures
\* and restarts came after it or ran at the same time.
OperatorValuesPersist ==
  \A m \in MAC, c \in Column :
    manual[m][c] # NULL =>
      /\ devices[m] # NULL
      /\ IF c = "alias" THEN devices[m].alias = manual[m][c]
         ELSE devices[m].operator[c] = Cleared(manual[m][c])

\* No step deletes a device or forgets an address or a name it had.
NothingForgotten ==
  [][\A m \in Registered(devices) :
       /\ devices'[m] # NULL
       /\ \A c \in {"ip", "ipv6", "alias"} : devices[m][c] # NULL => devices'[m][c] # NULL]_vars
=============================================================================
