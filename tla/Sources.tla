------------------------------ MODULE Sources ------------------------------
(***************************************************************************)
(* The seven source queries that _run_scan_once gathers (opnsense.py,      *)
(* identifiers.py, nmap_scanner.py, snmp_scanner.py): what each makes of   *)
(* the replies it gets, host by host, how it goes on after a host that     *)
(* fails, and how the answers come together as one Observation.            *)
(***************************************************************************)
EXTENDS Discovery, Sequences

CONSTANTS
  NoDevice,       \* the broadcast and the all-zero MAC address
  Malformed,      \* a text that is no MAC address, as in an incomplete entry
  LinkLocal,      \* IPv6 addresses that start with fe80:
  IpShaped,       \* names that look like an IPv4 address
  Host,           \* hosts, daemons, subnets that can be asked
  Hosts,          \* those configured for each source, in order; none disables it
  DaemonIp,       \* the address in a Docker host's URL, NULL for a socket
  Replies,        \* what a host of each source may reply
  PENDING,        \* a Proxmox host has not replied yet
  Failures        \* "host" does not answer, "tool" is not installed, "raise": nobody catches

\* The sources that ask one host after the other (OPNsense is the one host of
\* three of them); Proxmox asks all of its hosts at the same time.
Walk   == {"arp", "dhcp", "ndp", "nmap", "snmp", "docker"}
Tool   == {"nmap", "snmp"}
Source == Walk \cup {"proxmox"}

\* What a reply lists: entries of JSON, elements of XML, lines of a table.
Listed(s) ==
  CASE s = "arp"     -> [mac : MAC \cup {Malformed}, ip : IP \cup {EmptyText},
                         intf : Segment \cup {NULL}]
    [] s = "dhcp"    -> [mac : MAC \cup {Malformed}, hostname : Name]
    [] s = "ndp"     -> [mac : MAC \cup {Malformed}, ip : IPv6 \cup {EmptyText}]
    [] s = "nmap"    -> [up : BOOLEAN, mac : MAC \cup {EmptyText}, ip : IP \cup {EmptyText}]
    [] s = "snmp"    -> [mac : MAC \cup {Malformed}, ip : IP]
    [] s = "docker"  -> [container : Container, name : Name, hostmode : BOOLEAN,
                         networks : Seq([mac : MAC \cup {EmptyText}, ip : IP \cup {EmptyText}])]

\* The poll of a Proxmox host is the subject of ProxmoxPoll.
Reply(s) == IF s = "proxmox" THEN [MAC -> ProxmoxInfo \cup {NULL}] ELSE Seq(Listed(s))

ASSUME SourcesConstants ==
  /\ NoDevice \subseteq MAC
  /\ Malformed \notin MAC
  /\ EmptyText \notin MAC \cup IP \cup IPv6
  /\ LinkLocal \subseteq IPv6
  /\ IpShaped \subseteq Name
  /\ Hosts \in [Source -> Seq(Host)]
  /\ DaemonIp \in [Host -> IP \cup {NULL}]
  /\ DOMAIN Replies = Source
  /\ \A s \in Source : \A reply \in Replies[s] : reply \in Reply(s)
  /\ PENDING # NULL /\ {NULL, PENDING} \cap Replies["proxmox"] = {}
  /\ Failures \subseteq {"host", "tool", "raise"}

-----------------------------------------------------------------------------
(* Dictionaries.  An assignment d[k] = v is an update with one entry.        *)

\* dict.update: what the newer map has replaces.
Update(map, newer) == [k \in DOMAIN map |-> Coalesce(newer[k], map[k])]

\* The map once each of newer has been used, in order, to update it.
UpdatedUpTo(map, newer) ==
  LET upTo[n \in 0..Len(newer)] == IF n = 0 THEN map ELSE Update(upTo[n - 1], newer[n])
  IN  upTo

Updated(map, newer) == UpdatedUpTo(map, newer)[Len(newer)]

NoEntries   == [m \in MAC |-> NULL]
NoHostnet   == [c \in Container |-> NULL]
Only(m, v)  == [NoEntries EXCEPT ![m] = v]

-----------------------------------------------------------------------------
(* What one entry of a reply adds to the map built so far. *)

OpnsenseMac(m) == m \in MAC \ NoDevice

ArpAdds(e) ==
  IF OpnsenseMac(e.mac) /\ e.ip # EmptyText
  THEN Only(e.mac, [ip |-> e.ip, intf |-> e.intf]) ELSE NoEntries

DhcpAdds(e) ==
  IF e.mac \in MAC /\ e.hostname \notin IpShaped \cup {EmptyText}
  THEN Only(e.mac, e.hostname) ELSE NoEntries

NdpAdds(e) ==
  IF OpnsenseMac(e.mac) /\ e.ip \notin LinkLocal \cup {EmptyText}
  THEN Only(e.mac, e.ip) ELSE NoEntries

NmapAdds(e) ==
  IF e.up /\ e.mac # EmptyText /\ e.ip # EmptyText THEN Only(e.mac, e.ip) ELSE NoEntries

SnmpAdds(e) == IF e.mac \in MAC THEN Only(e.mac, e.ip) ELSE NoEntries

\* The networks of a container that have both an IP and a MAC address.
Usable(c) == {k \in DOMAIN c.networks : c.networks[k].ip # EmptyText /\ c.networks[k].mac # EmptyText}

\* A container is found under its first usable network.
DockerAdds(c) ==
  IF c.hostmode \/ Usable(c) = {} THEN NoEntries
  ELSE LET first == c.networks[CHOOSE k \in Usable(c) : \A l \in Usable(c) : k <= l]
       IN  Only(first.mac, [container |-> c.container, name |-> c.name, ip |-> first.ip])

\* One in the host's network has the daemon's address, if the daemon's URL has one.
HostnetAdds(daemon, c) ==
  IF c.hostmode THEN [NoHostnet EXCEPT ![c.container] = DaemonIp[daemon]] ELSE NoHostnet

Adds(s, e) ==
  CASE s = "arp"    -> ArpAdds(e)
    [] s = "dhcp"   -> DhcpAdds(e)
    [] s = "ndp"    -> NdpAdds(e)
    [] s = "nmap"   -> NmapAdds(e)
    [] s = "snmp"   -> SnmpAdds(e)
    [] s = "docker" -> DockerAdds(e)

\* Faulty variant, to test the properties with: an entry to be skipped ends the loop.
Collect_Break(s, map, reply) ==
  Updated(map, [i \in DOMAIN reply |-> IF \E j \in 1..i : Adds(s, reply[j]) = NoEntries
                                       THEN NoEntries ELSE Adds(s, reply[i])])

\* The loop over a reply: of two entries for a key the later one stays.
Collect(s, map, reply) == Updated(map, [i \in DOMAIN reply |-> Adds(s, reply[i])])

NoContainers == [macs |-> NoEntries, hostnet |-> NoHostnet]

\* _fetch_one for one daemon.
DockerTable(daemon, containers) ==
  [macs    |-> Collect("docker", NoEntries, containers),
   hostnet |-> Updated(NoHostnet, [i \in DOMAIN containers |-> HostnetAdds(daemon, containers[i])])]

DockerUpdate(map, newer) ==
  [macs |-> Update(map.macs, newer.macs), hostnet |-> Update(map.hostnet, newer.hostnet)]

Nothing(s) == IF s = "docker" THEN NoContainers ELSE NoEntries

Add(s, map, host, reply) ==
  IF s = "docker" THEN DockerUpdate(map, DockerTable(host, reply)) ELSE Collect(s, map, reply)

-----------------------------------------------------------------------------

VARIABLES
  phase,      \* "idle", "gather", or "merge" while the cycle uses the answers
  at,         \* the position of the host each walk asks
  found,      \* the result of each walk so far
  partials,   \* the result of each Proxmox host, PENDING or NULL if it failed
  obs,        \* what gather returned
  told        \* History: which host has replied what in this gather

vars == <<phase, at, found, partials, obs, told>>

Finished(s) == at[s] > Len(Hosts[s])

ProxmoxHosts == 1..Len(Hosts["proxmox"])

\* What a source returns, as a cycle takes it: a component of an Observation.
Value(s) ==
  CASE s = "arp"     -> ArpEntry
    [] s = "dhcp"    -> Name
    [] s = "ndp"     -> IPv6
    [] s = "docker"  -> DockerInfo
    [] s = "proxmox" -> ProxmoxInfo
    [] OTHER         -> IP

Map(s) == [MAC -> Value(s) \cup {NULL}]

Result(s) ==
  IF s = "docker" THEN [macs : Map(s), hostnet : [Container -> IP \cup {NULL}]] ELSE Map(s)

TypeOK ==
  /\ phase \in {"idle", "gather", "merge"}
  /\ DOMAIN at = Walk
  /\ \A s \in Walk : at[s] \in 1..(Len(Hosts[s]) + 1)
  /\ DOMAIN found = Walk
  /\ \A s \in Walk : found[s] \in Result(s)
  /\ DOMAIN partials = ProxmoxHosts
  /\ \A i \in ProxmoxHosts : partials[i] \in Replies["proxmox"] \cup {NULL, PENDING}
  /\ obs \in Observation

Forget ==
  /\ at' = [s \in Walk |-> 1]
  /\ found' = [s \in Walk |-> Nothing(s)]
  /\ partials' = [i \in ProxmoxHosts |-> PENDING]
  /\ obs' = NothingObserved
  /\ told' = {}

Init ==
  /\ phase = "idle"
  /\ at = [s \in Walk |-> 1]
  /\ found = [s \in Walk |-> Nothing(s)]
  /\ partials = [i \in ProxmoxHosts |-> PENDING]
  /\ obs = NothingObserved
  /\ told = {}

Gather ==
  /\ phase = "idle"
  /\ phase' = "gather"
  /\ UNCHANGED <<at, found, partials, obs, told>>

CanAsk(s) == phase = "gather" /\ ~Finished(s)

HostAnswers(s) ==
  /\ CanAsk(s)
  /\ \E reply \in Replies[s] :
       /\ found' = [found EXCEPT ![s] = Add(s, found[s], Hosts[s][at[s]], reply)]
       /\ told' = told \cup {<<s, at[s], reply>>}
  /\ at' = [at EXCEPT ![s] = @ + 1]
  /\ UNCHANGED <<phase, partials, obs>>

\* Faulty variant, to test the properties with: after a failure the walk starts over.
HostFails_StartOver(s) ==
  /\ "host" \in Failures
  /\ CanAsk(s)
  /\ at' = [at EXCEPT ![s] = 1]
  /\ UNCHANGED <<phase, found, partials, obs, told>>

\* No connection, an error status, a timeout, an exit code, a reply that cannot
\* be read, or a Docker listing that raises half-way: the query goes on with the
\* next host, or returns what it has.
HostFails(s) ==
  /\ "host" \in Failures
  /\ CanAsk(s)
  /\ at' = [at EXCEPT ![s] = @ + 1]
  /\ UNCHANGED <<phase, found, partials, obs, told>>

\* FileNotFoundError, of the first call if of any: the query returns {} at once.
ToolMissing(s) ==
  /\ "tool" \in Failures
  /\ CanAsk(s)
  /\ s \in Tool
  /\ at[s] = 1
  /\ at' = [at EXCEPT ![s] = Len(Hosts[s]) + 1]
  /\ UNCHANGED <<phase, found, partials, obs, told>>

\* A thread of the executor for each Proxmox host.
ProxmoxAnswers(i) ==
  /\ phase = "gather"
  /\ partials[i] = PENDING
  /\ \E reply \in Replies["proxmox"] :
       /\ partials' = [partials EXCEPT ![i] = reply]
       /\ told' = told \cup {<<"proxmox", i, reply>>}
  /\ UNCHANGED <<phase, at, found, obs>>

\* gather(return_exceptions=True), here: one host that raises costs its own map only.
ProxmoxFails(i) ==
  /\ "host" \in Failures
  /\ phase = "gather"
  /\ partials[i] = PENDING
  /\ partials' = [partials EXCEPT ![i] = NULL]
  /\ UNCHANGED <<phase, at, found, obs, told>>

Answer(i) == IF partials[i] = NULL THEN NoEntries ELSE partials[i]

\* Faulty variant, to test the properties with: the first host wins.
ProxmoxMap_FirstWins ==
  Updated(NoEntries, [i \in ProxmoxHosts |-> Answer(Len(Hosts["proxmox"]) + 1 - i)])

\* zip(nodes, partials): the order of the configuration, not that of the replies.
ProxmoxMap == Updated(NoEntries, [i \in ProxmoxHosts |-> Answer(i)])

Gathered ==
  /\ phase = "gather"
  /\ \A s \in Walk : Finished(s)
  /\ \A i \in ProxmoxHosts : partials[i] # PENDING
  /\ phase' = "merge"
  /\ obs' = [arp |-> found["arp"], proxmox |-> ProxmoxMap, docker |-> found["docker"].macs,
             hostnet |-> found["docker"].hostnet, dhcp |-> found["dhcp"], ndp |-> found["ndp"],
             nmap |-> found["nmap"], snmp |-> found["snmp"]]
  /\ UNCHANGED <<at, found, partials, told>>

\* JSON of an unexpected shape, an address that is no URL, a port that is no
\* number.  gather raises at once; what the other queries return is lost.
QueryRaises(s) ==
  /\ "raise" \in Failures
  /\ phase = "gather"
  /\ s \in {"arp", "dhcp", "ndp", "snmp"}
  /\ ~Finished(s)
  /\ phase' = "idle"
  /\ Forget

CycleEnds ==
  /\ phase = "merge"
  /\ phase' = "idle"
  /\ Forget

WalkStep(s)    == HostAnswers(s) \/ HostFails(s) \/ ToolMissing(s)
ProxmoxStep(i) == ProxmoxAnswers(i) \/ ProxmoxFails(i)

Next ==
  \/ Gather
  \/ \E s \in Walk : WalkStep(s) \/ QueryRaises(s)
  \/ \E i \in ProxmoxHosts : ProxmoxStep(i)
  \/ Gathered
  \/ CycleEnds

Spec == Init /\ [][Next]_vars

\* Every request has a timeout, after which it counts as failed: 10 s for
\* OPNsense, 5 s for Docker, the client's own for Proxmox, 120 s for nmap, 15 s
\* for snmpwalk.  So each query goes on; that some query does, as long as one can,
\* is enough here.  The cycle that uses the answers ends (ScanCycle!CycleEnds).
FairSpec ==
  /\ Spec
  /\ WF_vars(\E s \in Walk : WalkStep(s))
  /\ WF_vars(\E i \in ProxmoxHosts : ProxmoxStep(i))
  /\ WF_vars(Gathered)

-----------------------------------------------------------------------------
(* Properties. *)

\* The map a host's reply makes when it is the only one.
Alone(s, reply) == IF s = "proxmox" THEN reply ELSE Collect(s, NoEntries, reply)

\* For each MAC a source returns what the last host of its configuration said
\* that said anything of it, however the replies were ordered in time; a host
\* that fails takes nothing away from the others.
LastHostWins ==
  phase = "merge" =>
    \A s \in {"nmap", "snmp", "docker", "proxmox"}, m \in MAC :
      LET tells == {t \in told : t[1] = s /\ Alone(s, t[3])[m] # NULL}
      IN  IF tells = {} THEN obs[s][m] = NULL
          ELSE \E t \in tells :
                 /\ \A u \in tells : u[2] <= t[2]
                 /\ obs[s][m] = Alone(s, t[3])[m]

\* A device is known as a neighbour exactly when some entry gives it an address
\* that is no link-local one, and under such an address: neither the order of its
\* entries nor another device's entry can hide it.
NeighboursUsable ==
  phase = "merge" =>
    \A m \in MAC :
      LET usable == {ip \in IPv6 \ LinkLocal :
                       \E t \in told : /\ t[1] = "ndp"
                                       /\ \E k \in DOMAIN t[3] : t[3][k] = [mac |-> m, ip |-> ip]}
      IN  IF m \in NoDevice \/ usable = {} THEN obs.ndp[m] = NULL ELSE obs.ndp[m] \in usable

\* However many hosts do not answer, the gather comes to an end.
GatherEnds == phase = "gather" ~> phase # "gather"
=============================================================================
