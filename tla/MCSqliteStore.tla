--------------------------- MODULE MCSqliteStore ---------------------------
(* Three devices: the scan sees two, one of them new, and merges containers
   into it; the operator changes the type of the third and takes that back. *)
EXTENDS SqliteStore
CONSTANTS m1, m2, m3, scan, operator, vm, iot

WriteRequests ==
  [c \in Writer |->
     IF c = scan
     THEN {[op |-> "upsert", mac |-> m, type |-> vm] : m \in {m1, m3}}
            \cup {[op |-> "merge", mac |-> m1, type |-> NULL]}
     ELSE {[op |-> "retype", mac |-> m2, type |-> t] : t \in {iot, NULL}}]

TypeFilters == {vm}
PageLimits  == {2, NULL}

StartTables ==
  {[order    |-> <<m2, m1>>,
    detected |-> [m \in MAC |-> IF m = m3 THEN NULL ELSE vm],
    custom   |-> [m \in MAC |-> NULL]]}
=============================================================================
