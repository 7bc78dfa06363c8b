---------------------------- MODULE SourceHealth ----------------------------
(***************************************************************************)
(* The in-memory health records of the discovery sources (src/main.py):    *)
(* _record_source after each gather, reset by a restart, and the statuses  *)
(* and rollup /api/health derives from them.  Time is counted in ticks;    *)
(* what the code keeps as a timestamp is kept here as an age.              *)
(***************************************************************************)
EXTENDS Naturals

CONSTANTS
  Configured,    \* the integrations whose environment variables are set
  Interval,      \* SCAN_INTERVAL, in ticks
  GatherLimit,   \* the longest the sources take, in ticks
  MergeLimit,    \* the longest the rest of a cycle takes, in ticks
  Failures,      \* "source" or "merge": what may raise
  NULL

ASSUME HealthConstants ==
  /\ Configured \subseteq {"opnsense", "proxmox", "nmap", "snmp"}
  /\ Interval \in Nat \ {0}
  /\ GatherLimit \in Nat
  /\ MergeLimit \in Nat
  /\ Failures \subseteq {"source", "merge"}
  /\ NULL \notin Nat

Opnsense == {"opnsense_arp", "opnsense_dhcp", "opnsense_ndp"}
Source   == Opnsense \cup {"proxmox", "docker", "nmap", "snmp"}

\* _source_enabled: three sources share one configuration, and docker needs none.
Enabled ==
  {"docker"} \cup (Configured \cap Source) \cup (IF "opnsense" \in Configured THEN Opnsense ELSE {})

VARIABLES
  phase,      \* "sleep", "gather" or "merge"
  timer,      \* ticks spent in this phase
  last_ok,    \* the age of last_ok, NULL for None
  \* History, for the properties:
  answered,   \* the age of the last non-empty answer, since startup
  steady      \* the sources that answered every gather since startup, while none raised

vars == <<phase, timer, last_ok, answered, steady>>

\* Faulty variant, to test the properties with: one interval only.
stale_threshold_One == Interval

stale_threshold == 2 * Interval

\* Ages stop just beyond the threshold they are compared with.
MaxAge == stale_threshold + 1
Age == (0..MaxAge) \cup {NULL}

TypeOK ==
  /\ phase \in {"sleep", "gather", "merge"}
  /\ timer \in Nat
  /\ last_ok \in [Source -> Age]
  /\ answered \in [Source -> Age]
  /\ steady \subseteq Source

Reset ==
  /\ phase' = "gather"
  /\ timer' = 0
  /\ last_ok' = [s \in Source |-> NULL]
  /\ answered' = [s \in Source |-> NULL]
  /\ steady' = Source

Init ==
  /\ phase = "gather"
  /\ timer = 0
  /\ last_ok = [s \in Source |-> NULL]
  /\ answered = [s \in Source |-> NULL]
  /\ steady = Source

Limit == CASE phase = "sleep"  -> Interval
           [] phase = "gather" -> GatherLimit
           [] phase = "merge"  -> MergeLimit

\* The age health() computes is larger by one tick.
Older(age) == IF age = NULL \/ age = MaxAge THEN age ELSE age + 1

Tick ==
  /\ timer < Limit
  /\ timer' = timer + 1
  /\ last_ok' = [s \in Source |-> Older(last_ok[s])]
  /\ answered' = [s \in Source |-> Older(answered[s])]
  /\ UNCHANGED <<phase, steady>>

Enter(p) == phase' = p /\ timer' = 0

Wake ==
  /\ phase = "sleep"
  /\ timer = Interval
  /\ Enter("gather")
  /\ UNCHANGED <<last_ok, answered, steady>>

\* What the sources' maps hold; a source that is not configured returns none.
Answers(nonempty) ==
  /\ nonempty \subseteq Enabled
  /\ answered' = [s \in Source |-> IF s \in nonempty THEN 0 ELSE answered[s]]

\* Faulty variant, to test the properties with: the count is not looked at.
Record_AnyCount(nonempty) ==
  /\ phase = "gather"
  /\ Answers(nonempty)
  /\ last_ok' = [s \in Source |-> 0]
  /\ steady' = steady \cap nonempty
  /\ Enter("merge")

\* Faulty variant, to test the properties with: last_ok is only set once.
Record_FirstOnly(nonempty) ==
  /\ phase = "gather"
  /\ Answers(nonempty)
  /\ last_ok' = [s \in Source |-> IF s \in nonempty /\ last_ok[s] = NULL THEN 0 ELSE last_ok[s]]
  /\ steady' = steady \cap nonempty
  /\ Enter("merge")

\* _record_source for every source: only a count above zero moves last_ok.
Record(nonempty) ==
  /\ phase = "gather"
  /\ Answers(nonempty)
  /\ last_ok' = [s \in Source |-> IF s \in nonempty THEN 0 ELSE last_ok[s]]
  /\ steady' = steady \cap nonempty
  /\ Enter("merge")

\* A source raises: the answers of the others are dropped with the cycle.
GatherRaises(nonempty) ==
  /\ "source" \in Failures
  /\ phase = "gather"
  /\ nonempty # Enabled
  /\ Answers(nonempty)
  /\ steady' = {}
  /\ Enter("sleep")
  /\ UNCHANGED last_ok

MergeRaises ==
  /\ "merge" \in Failures
  /\ phase = "merge"
  /\ Enter("sleep")
  /\ UNCHANGED <<last_ok, answered, steady>>

FinishScan ==
  /\ phase = "merge"
  /\ Enter("sleep")
  /\ UNCHANGED <<last_ok, answered, steady>>

Restart == Reset

Cycle ==
  \/ Tick
  \/ Wake
  \/ \E nonempty \in SUBSET Enabled : Record(nonempty) \/ GatherRaises(nonempty)
  \/ MergeRaises
  \/ FinishScan

Next == Cycle \/ Restart

Spec == Init /\ [][Next]_vars

\* Time passes, and every await of a cycle ends.
FairSpec == Spec /\ WF_vars(Cycle)

-----------------------------------------------------------------------------
(* GET /api/health. *)

Status(s) ==
  IF s \notin Enabled THEN "disabled"
  ELSE IF last_ok[s] = NULL THEN "unknown"
  ELSE IF last_ok[s] <= stale_threshold THEN "ok"
  ELSE "stale"

Overall ==
  LET statuses == {Status(s) : s \in Enabled}
  IN  IF statuses = {} \/ "unknown" \in statuses THEN "unknown"
      ELSE IF "stale" \in statuses THEN "degraded"
      ELSE "ok"

-----------------------------------------------------------------------------
(* Properties. *)

\* The dashboard is green only when every configured source has really returned
\* something within two intervals, in this process and not an earlier one, and a
\* source that is not configured can neither help nor hinder.
GreenMeansRecent ==
  Overall = "ok" =>
    \A s \in Enabled : answered[s] # NULL /\ answered[s] <= stale_threshold

\* A source that answers every cycle is never shown stale or unknown once it has
\* answered, provided that no other source raises and that a whole cycle takes
\* no longer than the interval: two records are at most a sleep and a slowest
\* cycle apart, and the threshold is two intervals.
SteadySourcesOk ==
  GatherLimit + MergeLimit <= Interval =>
    \A s \in Enabled \cap steady : answered[s] # NULL => Status(s) = "ok"

\* After an outage of any sources, cycles that raised and restarts, the dashboard
\* turns green again and stays so, once every configured source answers in every
\* cycle and the process stays up, even if merges fail all the time.
Recovers ==
  <>[][/\ phase = "gather" /\ phase' # "gather" => Record(Enabled)
       /\ ~Restart]_vars
    => <>[](Overall = "ok")
=============================================================================
