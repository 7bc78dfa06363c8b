---------------------------- MODULE ProxmoxPoll ----------------------------
(***************************************************************************)
(* query_proxmox's _fetch_one (identifiers.py): the poll of one Proxmox    *)
(* host, request by request, while guests migrate between the nodes of the *)
(* cluster and start and stop.  Sources.tla has what becomes of the result *)
(* of several hosts.                                                       *)
(***************************************************************************)
EXTENDS Integers, Sequences

CONSTANTS
  Node,         \* nodes of the cluster
  Guest,        \* virtual machines and containers
  MAC,
  IP,
  Kind,         \* "vm" or "lxc", of a guest
  Macs,         \* the MAC addresses in a guest's configuration, one per interface
  Routable,     \* addresses neither loopback nor link-local
  Interfaces,   \* what a guest may answer, the addresses of its interfaces in order
  NULL,
  MaxChanges    \* bound on migrations, starts and stops during a poll

\* An element of the listing, and a result; the status is "running" or not.
Listing == [guest : Guest, running : BOOLEAN]
Record  == [guest : Guest, node : Node, running : BOOLEAN, ip : IP \cup {NULL}]

ASSUME ProxmoxConstants ==
  /\ Kind \in [Guest -> {"vm", "lxc"}]
  /\ Macs \in [Guest -> SUBSET MAC]
  /\ Routable \subseteq IP
  /\ Interfaces \subseteq Seq(IP)
  /\ NULL \notin IP \cup Record
  /\ MaxChanges \in Nat

VARIABLES
  where,      \* the node a guest is on
  running,    \* whether it runs
  changes,    \* migrations, starts and stops since the poll began
  phase,      \* what the poll does next
  left,       \* nodes not visited
  node,       \* the node it visits, and
  type,       \* the kind of guest it asks it for
  listed,     \* listed guests not looked at
  cur,        \* the guest that is asked for its addresses
  result,     \* what is found, by MAC address
  true,       \* History: what was true since the poll began
  stayed,     \* History: guests that have not migrated since then
  lost        \* History: guests that a failed request was about

cluster == <<where, running, changes>>
poll    == <<phase, left, node, type, listed, cur, result>>
history == <<true, stayed, lost>>
vars    == <<cluster, poll, history>>

Phases == {"idle", "nodes", "node", "list", "guests", "address"}

TypeOK ==
  /\ where \in [Guest -> Node]
  /\ running \in [Guest -> BOOLEAN]
  /\ changes \in 0..MaxChanges
  /\ phase \in Phases
  /\ left \subseteq Node
  /\ node \in Node \cup {NULL}
  /\ type \in {"vm", "lxc"}
  /\ listed \subseteq Listing
  /\ cur \in Listing \cup {NULL}
  /\ result \in [MAC -> Record \cup {NULL}]
  /\ true \subseteq Guest \X Node \X BOOLEAN
  /\ stayed \subseteq Guest
  /\ lost \subseteq Guest

Current == {<<g, where[g], running[g]>> : g \in Guest}

Init ==
  /\ where \in [Guest -> Node]
  /\ running \in [Guest -> BOOLEAN]
  /\ changes = 0
  /\ phase = "idle"
  /\ left = {}
  /\ node = NULL
  /\ type = "vm"
  /\ listed = {}
  /\ cur = NULL
  /\ result = [m \in MAC |-> NULL]
  /\ true = Current
  /\ stayed = Guest
  /\ lost = Guest

-----------------------------------------------------------------------------
(* The cluster, which the poll does not stop. *)

Change ==
  /\ changes < MaxChanges
  /\ changes' = changes + 1
  /\ true' = true \cup Current'
  /\ UNCHANGED <<poll, lost>>

Migrates(g, n) ==
  /\ n # where[g]
  /\ where' = [where EXCEPT ![g] = n]
  /\ stayed' = stayed \ {g}
  /\ UNCHANGED running
  /\ Change

StartsOrStops(g) ==
  /\ running' = [running EXCEPT ![g] = ~@]
  /\ UNCHANGED <<where, stayed>>
  /\ Change

-----------------------------------------------------------------------------
(* The poll. *)

PollBegins ==
  /\ phase = "idle"
  /\ phase' = "nodes"
  /\ result' = [m \in MAC |-> NULL]
  /\ changes' = 0
  /\ true' = Current
  /\ stayed' = Guest
  /\ lost' = {}
  /\ UNCHANGED <<where, running, left, node, type, listed, cur>>

\* No connection, or nodes.get() raises: return {}.
NodesFail ==
  /\ phase = "nodes"
  /\ phase' = "idle"
  /\ lost' = Guest
  /\ UNCHANGED <<cluster, left, node, type, listed, cur, result, true, stayed>>

NodesAnswer ==
  /\ phase = "nodes"
  /\ phase' = "node"
  /\ left' = Node
  /\ UNCHANGED <<cluster, node, type, listed, cur, result, history>>

\* The order of the nodes is that of the reply.
NextNode(n) ==
  /\ phase = "node"
  /\ n \in left
  /\ phase' = "list"
  /\ left' = left \ {n}
  /\ node' = n
  /\ type' = "vm"
  /\ UNCHANGED <<cluster, listed, cur, result, history>>

OnNode == {g \in Guest : where[g] = node /\ Kind[g] = type}

ListAnswers ==
  /\ phase = "list"
  /\ phase' = "guests"
  /\ listed' = {[guest |-> g, running |-> running[g]] : g \in OnNode}
  /\ UNCHANGED <<cluster, left, node, type, cur, result, history>>

\* vms = [], lxcs = []: the poll goes on.
ListFails ==
  /\ phase = "list"
  /\ phase' = "guests"
  /\ listed' = {}
  /\ lost' = lost \cup OnNode
  /\ UNCHANGED <<cluster, left, node, type, cur, result, true, stayed>>

\* Faulty variant, to test the properties with: a listed guest counts as running.
Recorded_Running(e, ip) ==
  [m \in MAC |-> IF m \in Macs[e.guest]
                 THEN [guest |-> e.guest, node |-> node, running |-> TRUE, ip |-> ip]
                 ELSE result[m]]

\* Each interface gets the guest's one address; of two guests the later one stays.
Recorded(e, ip) ==
  [m \in MAC |-> IF m \in Macs[e.guest]
                 THEN [guest |-> e.guest, node |-> node, running |-> e.running, ip |-> ip]
                 ELSE result[m]]

\* Only a guest that was running when it was listed is asked for its addresses.
ConfigAnswers(e) ==
  /\ phase = "guests"
  /\ e \in listed
  /\ where[e.guest] = node
  /\ listed' = listed \ {e}
  /\ IF e.running
     THEN phase' = "address" /\ cur' = e /\ UNCHANGED result
     ELSE result' = Recorded(e, NULL) /\ UNCHANGED <<phase, cur>>
  /\ UNCHANGED <<cluster, left, node, type, history>>

\* Faulty variant, to test the properties with: break instead of continue.
ConfigFails_Break(e) ==
  /\ phase = "guests"
  /\ e \in listed
  /\ listed' = {}
  /\ lost' = lost \cup {e.guest}
  /\ UNCHANGED <<cluster, phase, left, node, type, cur, result, true, stayed>>

\* continue; a guest that is no longer on the node fails always.
ConfigFails(e) ==
  /\ phase = "guests"
  /\ e \in listed
  /\ listed' = listed \ {e}
  /\ lost' = lost \cup {e.guest}
  /\ UNCHANGED <<cluster, phase, left, node, type, cur, result, true, stayed>>

\* Faulty variant, to test the properties with: an empty text for no address.
FirstRoutable_Text(addresses) ==
  LET at == {i \in DOMAIN addresses : addresses[i] \in Routable}
  IN  IF at = {} THEN "" ELSE addresses[CHOOSE i \in at : \A j \in at : i <= j]

\* _ip_from_qemu_agent and _ip_from_lxc_interfaces, with _first_valid_ipv4.
FirstRoutable(addresses) ==
  LET at == {i \in DOMAIN addresses : addresses[i] \in Routable}
  IN  IF at = {} THEN NULL ELSE addresses[CHOOSE i \in at : \A j \in at : i <= j]

HasAddress(ip) ==
  /\ phase = "address"
  /\ phase' = "guests"
  /\ result' = Recorded(cur, ip)
  /\ cur' = NULL
  /\ UNCHANGED <<cluster, left, node, type, listed, history>>

\* Only a guest that runs on this node answers.
AddressAnswers ==
  /\ phase = "address"
  /\ where[cur.guest] = node
  /\ running[cur.guest]
  /\ \E addresses \in Interfaces : HasAddress(FirstRoutable(addresses))

\* No agent, no permission, or the guest has left or stopped: pass.
AddressFails == HasAddress(NULL)

\* The containers after the virtual machines, and then the next node.
NextList ==
  /\ phase = "guests"
  /\ listed = {}
  /\ IF type = "vm" THEN type' = "lxc" /\ phase' = "list"
                    ELSE phase' = "node" /\ UNCHANGED type
  /\ UNCHANGED <<cluster, left, node, listed, cur, result, history>>

PollReturns ==
  /\ phase = "node"
  /\ left = {}
  /\ phase' = "idle"
  /\ UNCHANGED <<cluster, left, node, type, listed, cur, result, history>>

PollStep ==
  \/ NodesFail \/ NodesAnswer
  \/ \E n \in Node : NextNode(n)
  \/ ListAnswers \/ ListFails
  \/ \E e \in Listing : ConfigAnswers(e) \/ ConfigFails(e)
  \/ AddressAnswers \/ AddressFails
  \/ NextList \/ PollReturns

Next ==
  \/ PollBegins
  \/ PollStep
  \/ \E g \in Guest, n \in Node : Migrates(g, n)
  \/ \E g \in Guest : StartsOrStops(g)

Spec == Init /\ [][Next]_vars

-----------------------------------------------------------------------------
(* Properties. *)

\* What is reported of a guest was true at some moment of the poll, its node and
\* status together, though the listing, the configuration and the addresses are
\* read at different times; a routable address is reported only of one that ran.
RecordsWereTrue ==
  \A m \in MAC :
    result[m] # NULL =>
      LET r == result[m]
      IN  /\ m \in Macs[r.guest]
          /\ <<r.guest, r.node, r.running>> \in true
          /\ r.ip # NULL => r.running /\ r.ip \in Routable

\* A guest that stays on its node is reported there with all of its interfaces,
\* whichever requests about others fail and whatever others do.  (One that
\* migrates from a node not visited yet to one visited before is not reported.)
StayersReported ==
  phase = "idle" =>
    \A g \in stayed \ lost, m \in MAC :
      m \in Macs[g] =>
        /\ result[m] # NULL
        /\ \/ result[m].guest = g /\ result[m].node = where[g]
           \/ result[m].guest # g /\ m \in Macs[result[m].guest]

=============================================================================
