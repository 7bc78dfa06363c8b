--------------------------- MODULE MCProxmoxPoll ---------------------------
(* Two nodes; two virtual machines, one with two interfaces, and a container *)
(* that has the MAC address of one of them.                                  *)
EXTENDS ProxmoxPoll, TLC

CONSTANTS p1, p2, g1, g2, g3, m1, m2, m3, lo, ip1

MCKind == (g1 :> "vm") @@ (g2 :> "vm") @@ (g3 :> "lxc")
MCMacs == (g1 :> {m1, m2}) @@ (g2 :> {m3}) @@ (g3 :> {m2})

MCInterfaces == {<<lo>>, <<lo, ip1>>}
=============================================================================
