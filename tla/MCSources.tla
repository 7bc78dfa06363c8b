----------------------------- MODULE MCSources -----------------------------
(* Two hosts for most of the sources that may have several, and replies that  *)
(* overlap, leave out, or hold entries to be skipped, before or after others. *)
EXTENDS Sources, TLC

CONSTANTS m1, m2, bcast, bad, ip1, ip2, v6, fe80, lan, c1, c2, g1, n1, empty, h1, h2

Configured == [s \in Source |-> IF s \in {"docker", "proxmox", "snmp"} THEN <<h1, h2>>
                                ELSE <<h1>>]

Daemons == (h1 :> ip1) @@ (h2 :> NULL)

\* A container with a network that gives no address, and one in the host's network.
Bridged(m) == [container |-> c1, name |-> n1, hostmode |-> FALSE,
               networks |-> <<[mac |-> m, ip |-> empty], [mac |-> m, ip |-> ip2]>>]
OnHost     == [container |-> c2, name |-> n1, hostmode |-> TRUE, networks |-> <<>>]

OneGuest(m, type) == [NoEntries EXCEPT ![m] = [guest |-> g1, type |-> type, name |-> n1, ip |-> NULL]]

MCReplies ==
  [s \in Source |->
     CASE s = "arp"     -> {<<[mac |-> bad, ip |-> ip1, intf |-> lan],
                              [mac |-> m1, ip |-> ip1, intf |-> lan],
                              [mac |-> m2, ip |-> empty, intf |-> NULL],
                              [mac |-> bcast, ip |-> ip2, intf |-> lan]>>}
       [] s = "dhcp"    -> {<<[mac |-> m1, hostname |-> n1], [mac |-> m1, hostname |-> empty]>>}
       [] s = "ndp"     -> {<<[mac |-> m1, ip |-> fe80], [mac |-> m1, ip |-> v6],
                              [mac |-> bcast, ip |-> v6],
                              [mac |-> m2, ip |-> v6], [mac |-> m2, ip |-> fe80]>>}
       [] s = "nmap"    -> {<<[up |-> TRUE, mac |-> m1, ip |-> ip1],
                              [up |-> FALSE, mac |-> m2, ip |-> ip2]>>}
       [] s = "snmp"    -> {<<[mac |-> m1, ip |-> ip2], [mac |-> m2, ip |-> ip2]>>}
       [] s = "docker"  -> {<<Bridged(m1), OnHost>>, <<Bridged(m2)>>}
       [] s = "proxmox" -> {OneGuest(m1, "vm"), Update(OneGuest(m1, "lxc"), OneGuest(m2, "vm"))}]
=============================================================================
