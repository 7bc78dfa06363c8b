---------------------------- MODULE MCDashboard ----------------------------
(* Two devices, the second without an address until one is entered. *)
EXTENDS Dashboard, TLC

CONSTANTS d1, d2, ip1, ip2, a, b, q1

Addresses == (d1 :> ip1) @@ (d2 :> NULL)

Edits == ("type" :> {a, b}) @@ ("syslog_ip" :> {NULL, ip2})

\* Nothing edited yet.
Unedited == {[d \in Device |-> ("type" :> a) @@ ("syslog_ip" :> NULL)]}
=============================================================================
