---------------------------- MODULE ScanAlerts ----------------------------
(***************************************************************************)
(* The scan cycle keeps the contract of AlertContract: a cycle that merges *)
(* is an open round, its disappearance counts are the missed rounds, and   *)
(* what it has upserted so far are the sightings.                          *)
(***************************************************************************)
EXTENDS ScanCycle

MissedCycles == [m \in MAC |-> IF devices[m] = NULL THEN NULL
                               ELSE devices[m].disappearance_count]

Round ==
  IF phase \in Loops \cup {"hostnet"} THEN "open"
  ELSE IF Counted THEN "counted"
  ELSE "closed"

Sighted == seen \cup ({current} \ {NULL})

Contract == INSTANCE AlertContract WITH
  round      <- Round,
  missed     <- MissedCycles,
  sighted    <- Sighted,
  discovered <- discovered,
  gone       <- gone

\* Every step of the cycle, failures and restarts included, is a step the
\* contract allows: in particular no webhook fires but for a device sighted for
\* the first time, or absent for exactly Threshold counted cycles and not
\* reported since.
KeepsContract == Contract!Spec
=============================================================================
