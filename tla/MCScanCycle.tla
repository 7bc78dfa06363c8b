---------------------------- MODULE MCScanCycle ----------------------------
(* Finite instances of the scan cycle: what the sources may answer. *)
EXTENDS ScanAlerts

CONSTANTS m1, m2, ip1, ip2, ip3, ip4, v6, lan, c1, c2, g1, n1, n2, empty

Arp(macs, ip)    == [m \in MAC |-> IF m \in macs THEN [ip |-> ip, intf |-> NULL] ELSE NULL]
Guests(macs)     == [m \in MAC |-> IF m \in macs THEN
                       [guest |-> g1, type |-> "vm", name |-> n1, ip |-> NULL] ELSE NULL]
Containers(macs) == [m \in MAC |-> IF m \in macs THEN
                       [container |-> c1, name |-> n1, ip |-> ip1] ELSE NULL]
Neighbours(macs) == [m \in MAC |-> IF m \in macs THEN v6 ELSE NULL]

Show(arp, guests, containers, neighbours) ==
  [NothingObserved EXCEPT !.arp = Arp(arp, ip1), !.proxmox = Guests(guests),
                          !.docker = Containers(containers), !.ndp = Neighbours(neighbours)]

\* Presence only: a device shown by one source, by two, or by none.
PresenceObservations ==
  {NothingObserved,
   Show({m1}, {}, {}, {}),
   Show({m1, m2}, {}, {}, {}),
   Show({m1}, {}, {m1, m2}, {}),
   Show({}, {m1}, {}, {m2})}

OneDeviceObservations == {NothingObserved, Show({m1}, {}, {}, {})}

\* Nothing, or m1 shown by any combination of sources (NDP with Proxmox), each
\* with an address of its own, and m2 the host of a Docker daemon, which runs a
\* host-network container or has just lost m1's; SNMP may give m1 the daemon's
\* address too.
When(b, m, value) == [k \in MAC |-> IF b /\ k = m THEN value ELSE NULL]

MergeObservations ==
  {NothingObserved} \cup
  {[NothingObserved EXCEPT
      !.arp     = [When(arp, m1, [ip |-> ip1, intf |-> lan])
                     EXCEPT ![m2] = [ip |-> ip3, intf |-> NULL]],
      !.nmap    = When(nmap, m1, ip2),
      !.snmp    = When(snmp, m1, ip3),
      !.proxmox = When(guest, m1, [guest |-> g1, type |-> "lxc", name |-> n1, ip |-> NULL]),
      !.ndp     = When(guest, m1, v6),
      !.docker  = When(docker, m1, [container |-> c1, name |-> n2, ip |-> ip4]),
      !.hostnet = [c \in Container |-> IF ~docker /\ c = c2 THEN ip3 ELSE NULL]] :
    arp, nmap, snmp, guest, docker \in BOOLEAN}

\* Names offered by DHCP, Proxmox and Docker, for the operator's values.
NamingObservations ==
  {NothingObserved,
   [Show({m1}, {}, {}, {}) EXCEPT !.dhcp = [m \in MAC |-> n1]],
   [Show({m1}, {m1}, {m1}, {}) EXCEPT !.hostnet = [c \in Container |-> ip1]]}
=============================================================================
