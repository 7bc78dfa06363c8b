------------------------------ MODULE Registry ------------------------------
(***************************************************************************)
(* What the calls of src/database.py promise to those who make them, one   *)
(* connection and one transaction each: a call takes effect at once or     *)
(* not at all, and a list is a page of the table as it is at one moment.   *)
(***************************************************************************)
EXTENDS DeviceList

VARIABLES
  table,        \* the devices: by last_seen, the latest first, and their types
  request,      \* what each call under way is to do
  walk          \* where the client is, and what happened since it set out

vars == <<table, request, walk>>

-----------------------------------------------------------------------------

Init ==
  /\ table \in Tables
  /\ request = [c \in Call |-> NULL]
  /\ walk = NoWalk

Submit(c, r) ==
  /\ request[c] = NULL
  /\ r \in Requests[c]
  /\ request' = [request EXCEPT ![c] = r]
  /\ UNCHANGED <<table, walk>>

StartWalk(filter, limit) ==
  /\ request[Client] = NULL
  /\ walk.status # "walking"
  /\ request' = [request EXCEPT ![Client] = List]
  /\ walk' = SetOut(table, filter, limit)
  /\ UNCHANGED table

NextPage ==
  /\ request[Client] = NULL
  /\ walk.status = "walking"
  /\ request' = [request EXCEPT ![Client] = List]
  /\ UNCHANGED <<table, walk>>

\* A write takes effect and returns.
Write(c) ==
  /\ request[c] # NULL
  /\ table' = Applied(table, request[c])
  /\ walk' = Witnessed(walk, table, table', request[c])
  /\ request' = [request EXCEPT ![c] = NULL]

\* A list returns.
Read ==
  /\ request[Client] # NULL
  /\ walk' = Advanced(walk, Page(table, walk.filter, walk.limit, walk.offset))
  /\ request' = [request EXCEPT ![Client] = NULL]
  /\ UNCHANGED table

\* A call raises and has done nothing; the client gets a 500 and gives up.
Raise(c) ==
  /\ request[c] # NULL
  /\ request' = [request EXCEPT ![c] = NULL]
  /\ walk' = IF c = Client THEN NoWalk ELSE walk
  /\ UNCHANGED table

\* The process dies with all its calls.
Die ==
  /\ request' = [c \in Call |-> NULL]
  /\ walk' = NoWalk
  /\ UNCHANGED table

Next ==
  \/ \E c \in Writer : (\E r \in Requests[c] : Submit(c, r)) \/ Write(c)
  \/ \E filter \in Filters, limit \in Limits : StartWalk(filter, limit)
  \/ NextPage
  \/ Read
  \/ \E c \in Call : Raise(c)
  \/ Die

Spec == Init /\ [][Next]_vars
=============================================================================
