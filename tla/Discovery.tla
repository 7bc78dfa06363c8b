----------------------------- MODULE Discovery -----------------------------
(***************************************************************************)
(* What one cycle of _run_scan_once (src/main.py) learns from its seven    *)
(* sources, and how each of its merge loops turns that into an upsert.     *)
(***************************************************************************)
EXTENDS DeviceTable

ArpEntry == [ip : IP, intf : Segment \cup {NULL}]

GuestType == {"vm", "lxc"}

ProxmoxInfo == [guest : Guest, type : GuestType, name : Name, ip : IP \cup {NULL}]

DockerInfo == [container : Container, name : Name, ip : IP]

\* NULL is no entry of a source's map.
ASSUME SourceConstants == NULL \notin ArpEntry

\* The seven maps asyncio.gather returns, NULL standing for "not in the map".
\* docker_map is split: containers with a MAC of their own, and host-network
\* containers with the address of the daemon they run on.
Observation ==
  [arp     : [MAC -> ArpEntry \cup {NULL}],
   proxmox : [MAC -> ProxmoxInfo \cup {NULL}],
   docker  : [MAC -> DockerInfo \cup {NULL}],
   hostnet : [Container -> IP \cup {NULL}],
   dhcp    : [MAC -> Name \cup {NULL}],
   ndp     : [MAC -> IPv6 \cup {NULL}],
   nmap    : [MAC -> IP \cup {NULL}],
   snmp    : [MAC -> IP \cup {NULL}]]

NothingObserved ==
  [arp     |-> [m \in MAC |-> NULL],
   proxmox |-> [m \in MAC |-> NULL],
   docker  |-> [m \in MAC |-> NULL],
   hostnet |-> [c \in Container |-> NULL],
   dhcp    |-> [m \in MAC |-> NULL],
   ndp     |-> [m \in MAC |-> NULL],
   nmap    |-> [m \in MAC |-> NULL],
   snmp    |-> [m \in MAC |-> NULL]]

Keys(map) == {k \in DOMAIN map : map[k] # NULL}

-----------------------------------------------------------------------------

\* Faulty variant, to test the properties with: nmap and SNMP replace ARP entries.
ArpMap_FoldedWins(o) ==
  [m \in MAC |->
     LET folded == Coalesce(o.nmap[m], o.snmp[m])
     IN  IF folded # NULL THEN [ip |-> folded, intf |-> NULL] ELSE o.arp[m]]

\* arp_map once nmap and SNMP are folded in: ARP beats nmap beats SNMP, and a
\* folded entry has no interface.
ArpMap(o) ==
  [m \in MAC |->
     LET folded == Coalesce(o.nmap[m], o.snmp[m])
     IN  IF o.arp[m] # NULL THEN o.arp[m]
         ELSE IF folded # NULL THEN [ip |-> folded, intf |-> NULL]
         ELSE NULL]

\* The MACs each merge loop iterates over.
LoopKeys(loop, o) ==
  CASE loop = "arp"     -> Keys(ArpMap(o))
    [] loop = "proxmox" -> Keys(o.proxmox) \ Keys(ArpMap(o))
    [] loop = "ndp"     -> Keys(o.ndp) \ (Keys(ArpMap(o)) \cup Keys(o.proxmox))
    [] loop = "docker"  -> Keys(o.docker)

GuestMetadata(o, m) ==
  IF o.proxmox[m] = NULL THEN EmptyMetadata
  ELSE [EmptyMetadata EXCEPT !.guest = o.proxmox[m].guest]

\* `metadata=base_meta or None`: an empty dict is passed as NULL.
ArpSighting(o, m) ==
  LET entry == ArpMap(o)[m]
      base_meta == [GuestMetadata(o, m) EXCEPT !.vlan = entry.intf]
  IN  [ip          |-> entry.ip,
       ipv6        |-> o.ndp[m],
       device_type |-> IF o.proxmox[m] = NULL THEN "bare-metal" ELSE o.proxmox[m].type,
       metadata    |-> IF base_meta = EmptyMetadata THEN NULL ELSE base_meta]

ProxmoxSighting(o, m) ==
  [ip          |-> o.proxmox[m].ip,
   ipv6        |-> o.ndp[m],
   device_type |-> o.proxmox[m].type,
   metadata    |-> GuestMetadata(o, m)]

NdpSighting(o, m) ==
  [ip |-> NULL, ipv6 |-> o.ndp[m], device_type |-> "bare-metal", metadata |-> NULL]

DockerSighting(o, m) ==
  [ip          |-> o.docker[m].ip,
   ipv6        |-> NULL,
   device_type |-> "docker-container",
   metadata    |-> [EmptyMetadata EXCEPT !.container = o.docker[m].container]]

\* The hostname a loop offers to set_hostname_if_unset, NULL when it makes no call.
Hostname(loop, o, m) ==
  CASE loop = "docker" -> o.docker[m].name
    [] loop = "ndp"    -> o.dhcp[m]
    [] OTHER           -> IF o.proxmox[m] # NULL THEN o.proxmox[m].name ELSE o.dhcp[m]

\* The values _ip_to_mac can have: of the MACs with one address, the last in
\* the order of arp_map wins, and that order is the sources' own.
IpToMac(o) ==
  {owner \in [IP -> MAC \cup {NULL}] :
     \A ip \in IP :
       LET holders == {m \in Keys(ArpMap(o)) : ArpMap(o)[m].ip = ip}
       IN  IF holders = {} THEN owner[ip] = NULL ELSE owner[ip] \in holders}

\* _host_net_containers: a container whose host has no ARP entry is skipped.
HostNetContainers(o, owner) ==
  [m \in MAC |-> {c \in Keys(o.hostnet) : owner[o.hostnet[c]] = m}]
=============================================================================
