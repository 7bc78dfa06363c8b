--------------------------- MODULE AlertContract ---------------------------
(***************************************************************************)
(* What the alerting of a discovery cycle promises, without sources,       *)
(* tables or failures: in rounds that may be abandoned, devices are        *)
(* sighted, absences are counted, and a round that was counted may         *)
(* announce the devices it sighted for the first time and report those     *)
(* whose absence has just become long enough.                              *)
(***************************************************************************)
EXTENDS Naturals

CONSTANTS MAC, Threshold, MaxCount, NULL

VARIABLES
  round,        \* "closed", "open" for sightings, or "counted"
  missed,       \* counted rounds since the last sighting, NULL if never sighted
  sighted,      \* the devices sighted in this round
  discovered,   \* announcements of each device
  gone          \* reports of its absence since it was last sighted

vars == <<round, missed, sighted, discovered, gone>>

TypeOK ==
  /\ round \in {"closed", "open", "counted"}
  /\ missed \in [MAC -> (0..MaxCount) \cup {NULL}]
  /\ sighted \subseteq MAC
  /\ discovered \in [MAC -> Nat]
  /\ gone \in [MAC -> Nat]

Init ==
  /\ round = "closed"
  /\ missed = [m \in MAC |-> NULL]
  /\ sighted = {}
  /\ discovered = [m \in MAC |-> 0]
  /\ gone = [m \in MAC |-> 0]

Open ==
  /\ round = "closed"
  /\ round' = "open"
  /\ UNCHANGED <<missed, sighted, discovered, gone>>

Sight(m) ==
  /\ round = "open"
  /\ missed' = [missed EXCEPT ![m] = 0]
  /\ sighted' = sighted \cup {m}
  /\ gone' = [gone EXCEPT ![m] = 0]
  /\ UNCHANGED <<round, discovered>>

Count ==
  /\ round = "open"
  /\ round' = "counted"
  /\ missed' = [m \in MAC |->
                  IF missed[m] = NULL \/ m \in sighted \/ missed[m] = MaxCount
                  THEN missed[m] ELSE missed[m] + 1]
  /\ UNCHANGED <<sighted, discovered, gone>>

Announce(m) ==
  /\ round = "counted"
  /\ m \in sighted
  /\ discovered[m] = 0
  /\ discovered' = [discovered EXCEPT ![m] = 1]
  /\ UNCHANGED <<round, missed, sighted, gone>>

Report(m) ==
  /\ round = "counted"
  /\ m \notin sighted
  /\ missed[m] = Threshold
  /\ gone[m] = 0
  /\ gone' = [gone EXCEPT ![m] = 1]
  /\ UNCHANGED <<round, missed, sighted, discovered>>

Close ==
  /\ round' = "closed"
  /\ sighted' = {}
  /\ UNCHANGED <<missed, discovered, gone>>

Next ==
  \/ Open
  \/ Count
  \/ Close
  \/ \E m \in MAC : Sight(m) \/ Announce(m) \/ Report(m)

Spec == Init /\ [][Next]_vars
=============================================================================
