------------------------------ MODULE MCSyslog ------------------------------
(* Two messages, two devices, a year of three months with two days each. *)
EXTENDS Syslog

CONSTANTS a1, a2

ClocksBehind == {-1, 0}

\* Devices name themselves, by address or by a name.
OwnHostnames == [a \in Address |-> {a, NoAddress}]
=============================================================================
