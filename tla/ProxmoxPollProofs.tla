------------------------- MODULE ProxmoxPollProofs -------------------------
(***************************************************************************)
(* What the poll of a Proxmox host reports was true while it ran, for any  *)
(* cluster, any placement of its guests and any number of changes.         *)
(***************************************************************************)
EXTENDS ProxmoxPoll, WellFoundedInduction, TLAPS

\* What the poll holds between two requests was true, too, and the guest asked
\* for its addresses was listed as running.
ListingInv ==
  /\ Current \subseteq true
  /\ phase \notin {"guests", "address"} => listed = {}
  /\ \A e \in listed : <<e.guest, node, e.running>> \in true
  /\ phase \in {"list", "guests", "address"} => node \in Node
  /\ IF phase = "address"
     THEN cur \in Listing /\ cur.running /\ <<cur.guest, node, cur.running>> \in true
     ELSE cur = NULL

PollInv == TypeOK /\ ListingInv /\ RecordsWereTrue

LEMMA FirstRoutableIsOne ==
  ASSUME NEW addresses \in Seq(IP)
  PROVE  FirstRoutable(addresses) \in (Routable \cap IP) \cup {NULL}
<1> DEFINE at == {i \in DOMAIN addresses : addresses[i] \in Routable}
<1>1. CASE at = {}
  BY <1>1 DEF FirstRoutable
<1>2. CASE at # {}
  <2>1. at \in SUBSET Nat
    OBVIOUS
  <2>2. \E i \in at : \A j \in at : i <= j
    <3> DEFINE R == {ss \in Nat \X Nat : ss[1] < ss[2]}
    <3>0. IsWellFoundedOn(R, Nat)
      BY NatLessThanWellFounded DEF OpToRel
    <3>1. PICK i \in at : \A j \in at : <<j, i>> \notin R
      BY <1>2, <2>1, <3>0, WFMin
    <3>2. ASSUME NEW j \in at
          PROVE  i <= j
      <4>1. i \in Nat /\ j \in Nat
        BY <2>1
      <4>2. ~(j < i)
        BY <3>1, <4>1
      <4> QED
        BY <4>1, <4>2
    <3> QED
      BY <3>2
  <2>3. (CHOOSE i \in at : \A j \in at : i <= j) \in at
    BY <2>2
  <2>4. FirstRoutable(addresses) = addresses[CHOOSE i \in at : \A j \in at : i <= j]
    BY <1>2 DEF FirstRoutable
  <2> QED
    BY <2>3, <2>4
<1> QED
  BY <1>1, <1>2

\* Recording a guest that was listed on this node leaves a true result.
LEMMA RecordedIsTrue ==
  ASSUME TypeOK, RecordsWereTrue, node \in Node,
         NEW e \in Listing, <<e.guest, node, e.running>> \in true,
         NEW ip \in (Routable \cap IP) \cup {NULL}, ip # NULL => e.running,
         result' = Recorded(e, ip), true' = true
  PROVE  /\ result' \in [MAC -> Record \cup {NULL}]
         /\ RecordsWereTrue'
<1> DEFINE r == [guest |-> e.guest, node |-> node, running |-> e.running, ip |-> ip]
<1>1. r \in Record
  BY DEF Record, Listing
<1>2. \A m \in MAC : result'[m] = IF m \in Macs[e.guest] THEN r ELSE result[m]
  BY DEF Recorded
<1>3. result' \in [MAC -> Record \cup {NULL}]
  BY <1>1 DEF Recorded, TypeOK
<1>4. ASSUME NEW m \in MAC, result'[m] # NULL
      PROVE  /\ m \in Macs[result'[m].guest]
             /\ <<result'[m].guest, result'[m].node, result'[m].running>> \in true'
             /\ result'[m].ip # NULL => result'[m].running /\ result'[m].ip \in Routable
  <2>1. CASE m \in Macs[e.guest]
    BY <1>2, <2>1
  <2>2. CASE m \notin Macs[e.guest]
    BY <1>2, <1>4, <2>2 DEF RecordsWereTrue
  <2> QED
    BY <2>1, <2>2
<1> QED
  BY <1>3, <1>4 DEF RecordsWereTrue

LEMMA InitPollInv == Init => PollInv
BY ProxmoxConstants
   DEF Init, PollInv, TypeOK, ListingInv, RecordsWereTrue, Current, Phases

\* While the cluster changes, what was true stays on record, and what is true now
\* is added to it.
LEMMA ChangePollInv ==
  ASSUME PollInv, Change,
         where' \in [Guest -> Node], running' \in [Guest -> BOOLEAN], stayed' \subseteq Guest
  PROVE  PollInv'
<1>1. /\ changes' = changes + 1 /\ changes < MaxChanges
      /\ true' = true \cup Current'
      /\ UNCHANGED <<phase, left, node, type, listed, cur, result, lost>>
  BY DEF Change, poll
<1>2. Current' \subseteq Guest \X Node \X BOOLEAN
  BY DEF Current
<1>3. TypeOK'
  BY <1>1, <1>2, ProxmoxConstants DEF PollInv, TypeOK
<1>4. ListingInv'
  BY <1>1 DEF PollInv, ListingInv
<1>5. RecordsWereTrue'
  BY <1>1 DEF PollInv, RecordsWereTrue
<1> QED
  BY <1>3, <1>4, <1>5 DEF PollInv

\* Steps that add no result.
LEMMA SameResultPollInv ==
  ASSUME PollInv, TypeOK', ListingInv', true' = true, result' = result
  PROVE  PollInv'
BY DEF PollInv, RecordsWereTrue

LEMMA AddressPollInv ==
  ASSUME PollInv, NEW ip \in (Routable \cap IP) \cup {NULL}, HasAddress(ip)
  PROVE  PollInv'
<1>1. /\ phase = "address" /\ phase' = "guests"
      /\ result' = Recorded(cur, ip) /\ cur' = NULL
      /\ UNCHANGED <<where, running, changes, left, node, type, listed, true, stayed, lost>>
  BY DEF HasAddress, cluster, history
<1>2. result' \in [MAC -> Record \cup {NULL}] /\ RecordsWereTrue'
  BY <1>1, RecordedIsTrue DEF PollInv, ListingInv
<1>3. TypeOK'
  BY <1>1, <1>2 DEF PollInv, TypeOK, Phases
<1>4. ListingInv'
  BY <1>1 DEF PollInv, ListingInv, Current
<1> QED
  BY <1>2, <1>3, <1>4 DEF PollInv

LEMMA ConfigPollInv ==
  ASSUME PollInv, NEW e \in Listing, ConfigAnswers(e)
  PROVE  PollInv'
<1>1. /\ phase = "guests" /\ e \in listed /\ listed' = listed \ {e}
      /\ UNCHANGED <<where, running, changes, left, node, type, true, stayed, lost>>
  BY DEF ConfigAnswers, cluster, history
<1>2. node \in Node /\ <<e.guest, node, e.running>> \in true
  BY <1>1 DEF PollInv, ListingInv
<1>3. CASE e.running
  <2>1. phase' = "address" /\ cur' = e /\ result' = result
    BY <1>3 DEF ConfigAnswers
  <2>2. TypeOK'
    BY <1>1, <2>1 DEF PollInv, TypeOK, Phases
  <2>3. ListingInv'
    BY <1>1, <1>2, <1>3, <2>1 DEF PollInv, ListingInv, Current
  <2> QED
    BY <1>1, <2>1, <2>2, <2>3, SameResultPollInv
<1>4. CASE ~e.running
  <2>1. result' = Recorded(e, NULL) /\ phase' = phase /\ cur' = cur
    BY <1>4 DEF ConfigAnswers
  <2>2. result' \in [MAC -> Record \cup {NULL}] /\ RecordsWereTrue'
    BY <1>1, <1>2, <2>1, RecordedIsTrue DEF PollInv
  <2>3. TypeOK'
    BY <1>1, <2>1, <2>2 DEF PollInv, TypeOK, Phases
  <2>4. ListingInv'
    BY <1>1, <2>1 DEF PollInv, ListingInv, Current
  <2> QED
    BY <2>2, <2>3, <2>4 DEF PollInv
<1> QED
  BY <1>3, <1>4

LEMMA ListAnswersPollInv ==
  ASSUME PollInv, ListAnswers
  PROVE  PollInv'
<1>1. /\ phase = "list" /\ phase' = "guests"
      /\ listed' = {[guest |-> g, running |-> running[g]] : g \in OnNode}
      /\ UNCHANGED <<where, running, changes, left, node, type, cur, result, true, stayed, lost>>
  BY DEF ListAnswers, cluster, history
<1>2. \A g \in OnNode : g \in Guest /\ <<g, node, running[g]>> \in true
  BY DEF OnNode, PollInv, ListingInv, Current
<1>3. ASSUME NEW e \in listed'
      PROVE  e \in Listing /\ <<e.guest, node, e.running>> \in true
  <2>1. PICK g \in OnNode : e = [guest |-> g, running |-> running[g]]
    BY <1>1
  <2>2. g \in Guest /\ running[g] \in BOOLEAN
    BY <1>2 DEF PollInv, TypeOK
  <2> QED
    BY <1>2, <2>1, <2>2 DEF Listing
<1>4. TypeOK'
  BY <1>1, <1>3 DEF PollInv, TypeOK, Phases
<1>5. ListingInv'
  BY <1>1, <1>3 DEF PollInv, ListingInv, Current
<1> QED
  BY <1>1, <1>4, <1>5, SameResultPollInv

LEMMA BeginsPollInv ==
  ASSUME PollInv, PollBegins
  PROVE  PollInv'
<1>1. /\ phase = "idle" /\ phase' = "nodes"
      /\ result' = [m \in MAC |-> NULL] /\ changes' = 0
      /\ true' = Current /\ stayed' = Guest /\ lost' = {}
      /\ UNCHANGED <<where, running, left, node, type, listed, cur>>
  BY DEF PollBegins
<1>2. Current' = Current /\ Current \subseteq Guest \X Node \X BOOLEAN
  BY <1>1 DEF Current, PollInv, TypeOK
<1>3. TypeOK'
  BY <1>1, <1>2, ProxmoxConstants DEF PollInv, TypeOK, Phases
<1>4. ListingInv'
  BY <1>1, <1>2 DEF PollInv, ListingInv
<1>5. RecordsWereTrue'
  BY <1>1 DEF RecordsWereTrue
<1> QED
  BY <1>3, <1>4, <1>5 DEF PollInv

\* Requests that fail, and the poll's way through nodes and lists.
LEMMA WalkPollInv ==
  ASSUME PollInv,
         \/ NodesFail \/ NodesAnswer \/ ListFails \/ NextList \/ PollReturns
         \/ \E n \in Node : NextNode(n)
         \/ \E e \in Listing : ConfigFails(e)
  PROVE  PollInv'
<1> USE DEF PollInv, TypeOK, ListingInv, Current, Phases, cluster, history
<1>1. CASE NodesFail
  BY <1>1, SameResultPollInv DEF NodesFail
<1>2. CASE NodesAnswer
  BY <1>2, SameResultPollInv DEF NodesAnswer
<1>3. CASE ListFails
  <2>1. OnNode \subseteq Guest
    BY DEF OnNode
  <2> QED
    BY <1>3, <2>1, SameResultPollInv DEF ListFails
<1>4. CASE NextList
  BY <1>4, SameResultPollInv DEF NextList
<1>5. CASE PollReturns
  BY <1>5, SameResultPollInv DEF PollReturns
<1>6. CASE \E n \in Node : NextNode(n)
  BY <1>6, SameResultPollInv DEF NextNode
<1>7. ASSUME NEW e \in Listing, ConfigFails(e)
      PROVE  PollInv'
  <2>1. e.guest \in Guest
    BY DEF Listing
  <2> QED
    BY <1>7, <2>1, SameResultPollInv DEF ConfigFails
<1> QED
  BY <1>1, <1>2, <1>3, <1>4, <1>5, <1>6, <1>7

LEMMA NextPollInv == PollInv /\ [Next]_vars => PollInv'
<1> SUFFICES ASSUME PollInv, [Next]_vars PROVE PollInv'
  OBVIOUS
<1>1. CASE PollBegins
  BY <1>1, BeginsPollInv
<1>2. CASE PollStep
  <2>1. CASE ListAnswers
    BY <2>1, ListAnswersPollInv
  <2>2. ASSUME NEW e \in Listing, ConfigAnswers(e)
        PROVE  PollInv'
    BY <2>2, ConfigPollInv
  <2>3. CASE AddressAnswers
    <3>1. PICK addresses \in Interfaces : HasAddress(FirstRoutable(addresses))
      BY <2>3 DEF AddressAnswers
    <3> QED
      BY <3>1, FirstRoutableIsOne, AddressPollInv, ProxmoxConstants
  <2>4. CASE AddressFails
    BY <2>4, AddressPollInv DEF AddressFails
  <2> QED
    BY <1>2, <2>1, <2>2, <2>3, <2>4, WalkPollInv DEF PollStep
<1>3. ASSUME NEW g \in Guest, NEW n \in Node, Migrates(g, n)
      PROVE  PollInv'
  BY <1>3, ChangePollInv DEF Migrates, PollInv, TypeOK
<1>4. ASSUME NEW g \in Guest, StartsOrStops(g)
      PROVE  PollInv'
  BY <1>4, ChangePollInv DEF StartsOrStops, PollInv, TypeOK
<1>5. CASE UNCHANGED vars
  <2>1. UNCHANGED <<where, running, changes, phase, left, node, type, listed, cur, result,
                    true, stayed, lost>>
    BY <1>5 DEF vars, cluster, poll, history
  <2> QED
    BY <2>1 DEF PollInv, TypeOK, ListingInv, RecordsWereTrue, Current
<1> QED
  BY <1>1, <1>2, <1>3, <1>4, <1>5 DEF Next

THEOREM PollInvariant == Spec => []PollInv
BY InitPollInv, NextPollInv, PTL DEF Spec

\* The variables keep their types, and the node visited next is always one there is.
THEOREM PollTypes == Spec => []TypeOK
<1>1. PollInv => TypeOK
  BY DEF PollInv
<1> QED
  BY <1>1, PollInvariant, PTL

\* Every result of the poll, kept under each of the guest's MAC addresses, gives a
\* node and a status that the guest had together after the poll began, and a
\* routable address only when it ran.
THEOREM ReportedWasTrue == Spec => []RecordsWereTrue
<1>1. PollInv => RecordsWereTrue
  BY DEF PollInv
<1> QED
  BY <1>1, PollInvariant, PTL

-----------------------------------------------------------------------------
(* Who stays is reported. *)

Reported(g) ==
  \A m \in MAC :
    m \in Macs[g] =>
      /\ result[m] # NULL
      /\ \/ result[m].guest = g /\ result[m].node = where[g]
         \/ result[m].guest # g /\ m \in Macs[result[m].guest]

\* The poll has not come to the node of g, or to the list of its kind there.
Ahead(g) ==
  \/ where[g] \in left
  \/ /\ where[g] = node
     /\ \/ phase = "list" /\ type = Kind[g]
        \/ phase \in {"list", "guests", "address"} /\ type = "vm" /\ Kind[g] = "lxc"

\* It has g on its list, or in hand.
InHand(g) ==
  /\ where[g] = node
  /\ \/ phase \in {"guests", "address"} /\ \E e \in listed : e.guest = g
     \/ phase = "address" /\ cur.guest = g

StayersInv ==
  /\ phase # "nodes" => \A g \in stayed \ lost : Ahead(g) \/ InHand(g) \/ Reported(g)
  /\ phase \in {"idle", "nodes"} => left = {}
  /\ phase = "address" /\ cur.guest \in stayed => where[cur.guest] = node

LEMMA InitStayersInv == Init => StayersInv
BY DEF Init, StayersInv

\* Recording a guest on this node reports it, if it is here, and leaves those
\* reported that were.
LEMMA RecordedReports ==
  ASSUME NEW e \in Listing, node \in Node, NEW ip \in IP \cup {NULL},
         result' = Recorded(e, ip), where' = where,
         NEW g \in Guest, g = e.guest => where[g] = node,
         g = e.guest \/ Reported(g)
  PROVE  Reported(g)'
<1> DEFINE r == [guest |-> e.guest, node |-> node, running |-> e.running, ip |-> ip]
<1> SUFFICES ASSUME NEW m \in MAC, m \in Macs[g]
             PROVE  /\ result'[m] # NULL
                    /\ \/ result'[m].guest = g /\ result'[m].node = where[g]
                       \/ result'[m].guest # g /\ m \in Macs[result'[m].guest]
  BY DEF Reported
<1>1. result'[m] = IF m \in Macs[e.guest] THEN r ELSE result[m]
  BY DEF Recorded
<1>2. CASE m \in Macs[e.guest]
  <2>1. result'[m] = r /\ r # NULL
    BY <1>1, <1>2, ProxmoxConstants DEF Record, Listing
  <2> QED
    BY <1>2, <2>1
<1>3. CASE m \notin Macs[e.guest]
  BY <1>1, <1>3 DEF Reported
<1> QED
  BY <1>2, <1>3

LEMMA AddressStayersInv ==
  ASSUME PollInv, StayersInv, NEW ip \in IP \cup {NULL}, HasAddress(ip)
  PROVE  StayersInv'
<1>1. /\ phase = "address" /\ phase' = "guests"
      /\ result' = Recorded(cur, ip) /\ cur' = NULL
      /\ UNCHANGED <<where, left, node, type, listed, stayed, lost>>
  BY DEF HasAddress, cluster, history
<1>2. cur \in Listing /\ node \in Node /\ stayed \subseteq Guest
  BY <1>1 DEF PollInv, TypeOK, ListingInv
<1>3. ASSUME NEW g \in stayed \ lost
      PROVE  Ahead(g)' \/ InHand(g)' \/ Reported(g)'
  <2>1. g \in Guest /\ (g = cur.guest => where[g] = node)
    BY <1>1, <1>2 DEF StayersInv
  <2>2. CASE g = cur.guest
    BY <1>1, <1>2, <2>1, <2>2, RecordedReports
  <2>3. CASE g # cur.guest /\ Reported(g)
    BY <1>1, <1>2, <2>1, <2>3, RecordedReports
  <2>4. CASE g # cur.guest /\ Ahead(g)
    BY <1>1, <2>4 DEF Ahead
  <2>5. CASE g # cur.guest /\ InHand(g)
    BY <1>1, <2>5 DEF InHand
  <2> QED
    BY <1>1, <1>3, <2>2, <2>3, <2>4, <2>5 DEF StayersInv
<1> QED
  BY <1>1, <1>3 DEF StayersInv

LEMMA ConfigStayersInv ==
  ASSUME PollInv, StayersInv, NEW e \in Listing, ConfigAnswers(e) \/ ConfigFails(e)
  PROVE  StayersInv'
<1>1. /\ phase = "guests" /\ e \in listed /\ listed' = listed \ {e}
      /\ UNCHANGED <<where, left, node, type, stayed>>
  BY DEF ConfigAnswers, ConfigFails, cluster, history
<1>2. node \in Node /\ stayed \subseteq Guest
  BY <1>1 DEF PollInv, TypeOK, ListingInv
<1>3. \A g : InHand(g) /\ g # e.guest => \E f \in listed' : f.guest = g
  BY <1>1 DEF InHand
<1>4. CASE ConfigFails(e)
  <2>1. phase' = phase /\ result' = result /\ lost' = lost \cup {e.guest}
    BY <1>4 DEF ConfigFails
  <2>2. ASSUME NEW g \in stayed \ lost'
        PROVE  Ahead(g)' \/ InHand(g)' \/ Reported(g)'
    <3>1. g # e.guest /\ (Ahead(g) \/ InHand(g) \/ Reported(g))
      BY <1>1, <2>1 DEF StayersInv
    <3>2. CASE Ahead(g)
      BY <1>1, <2>1, <3>2 DEF Ahead
    <3>3. CASE InHand(g)
      BY <1>1, <1>3, <2>1, <3>1, <3>3 DEF InHand
    <3>4. CASE Reported(g)
      BY <1>1, <2>1, <3>4 DEF Reported
    <3> QED
      BY <3>1, <3>2, <3>3, <3>4
  <2> QED
    BY <1>1, <2>1, <2>2 DEF StayersInv
<1>5. CASE ConfigAnswers(e) /\ e.running
  <2>1. /\ where[e.guest] = node /\ phase' = "address" /\ cur' = e
        /\ result' = result /\ lost' = lost
    BY <1>5 DEF ConfigAnswers, history
  <2>2. ASSUME NEW g \in stayed \ lost
        PROVE  Ahead(g)' \/ InHand(g)' \/ Reported(g)'
    <3>1. Ahead(g) \/ InHand(g) \/ Reported(g)
      BY <1>1, <2>2 DEF StayersInv
    <3>2. CASE Ahead(g)
      BY <1>1, <2>1, <3>2 DEF Ahead
    <3>3. CASE InHand(g)
      BY <1>1, <1>3, <2>1, <3>3 DEF InHand
    <3>4. CASE Reported(g)
      BY <1>1, <2>1, <3>4 DEF Reported
    <3> QED
      BY <3>1, <3>2, <3>3, <3>4
  <2> QED
    BY <1>1, <2>1, <2>2 DEF StayersInv
<1>6. CASE ConfigAnswers(e) /\ ~e.running
  <2>1. /\ where[e.guest] = node /\ phase' = phase
        /\ result' = Recorded(e, NULL) /\ lost' = lost
    BY <1>6 DEF ConfigAnswers, history
  <2>2. ASSUME NEW g \in stayed \ lost
        PROVE  Ahead(g)' \/ InHand(g)' \/ Reported(g)'
    <3>1. g \in Guest /\ (Ahead(g) \/ InHand(g) \/ Reported(g))
      BY <1>1, <1>2, <2>2 DEF StayersInv
    <3>2. CASE Ahead(g)
      BY <1>1, <2>1, <3>2 DEF Ahead
    <3>3. CASE InHand(g) /\ g # e.guest
      BY <1>1, <1>3, <2>1, <3>3 DEF InHand
    <3>4. CASE g = e.guest
      BY <1>1, <1>2, <2>1, <3>1, <3>4, RecordedReports
    <3>5. CASE Reported(g) /\ g # e.guest
      BY <1>1, <1>2, <2>1, <3>1, <3>5, RecordedReports
    <3> QED
      BY <3>1, <3>2, <3>3, <3>4, <3>5
  <2> QED
    BY <1>1, <2>1, <2>2 DEF StayersInv
<1> QED
  BY <1>4, <1>5, <1>6

LEMMA ListStayersInv ==
  ASSUME PollInv, StayersInv, ListAnswers \/ ListFails
  PROVE  StayersInv'
<1>1. /\ phase = "list" /\ phase' = "guests"
      /\ UNCHANGED <<where, left, node, type, cur, result, stayed>>
  BY DEF ListAnswers, ListFails, cluster, history
<1>2. Kind \in [Guest -> {"vm", "lxc"}] /\ stayed \subseteq Guest
  BY ProxmoxConstants DEF PollInv, TypeOK
<1>3. ASSUME NEW g \in stayed \ lost', g \in OnNode
      PROVE  InHand(g)'
  <2>1. g \in Guest /\ where[g] = node
    BY <1>3 DEF OnNode
  <2>2. \E e \in listed' : e.guest = g
    <3>1. CASE ListAnswers
      <4>1. [guest |-> g, running |-> running[g]] \in listed'
        BY <1>3, <3>1 DEF ListAnswers
      <4> QED
        BY <4>1
    <3>2. CASE ListFails
      BY <1>3, <3>2 DEF ListFails
    <3> QED
      BY <3>1, <3>2
  <2> QED
    BY <1>1, <2>1, <2>2 DEF InHand
<1>4. ASSUME NEW g \in stayed \ lost', g \notin OnNode
      PROVE  Ahead(g)' \/ Reported(g)'
  <2>1. g \in Guest /\ g \notin lost
    BY <1>2, <1>4 DEF ListAnswers, ListFails, history
  <2>2. Ahead(g) \/ Reported(g)
    BY <1>1, <1>4, <2>1 DEF StayersInv, InHand
  <2>3. CASE Ahead(g)
    BY <1>1, <1>2, <1>4, <2>1, <2>3 DEF Ahead, OnNode
  <2>4. CASE Reported(g)
    BY <1>1, <2>4 DEF Reported
  <2> QED
    BY <2>2, <2>3, <2>4
<1> QED
  BY <1>1, <1>3, <1>4 DEF StayersInv

\* From node to node, and from the virtual machines to the containers.
LEMMA WayStayersInv ==
  ASSUME PollInv, StayersInv,
         \/ PollBegins \/ NodesFail \/ NodesAnswer \/ NextList \/ PollReturns
         \/ \E n \in Node : NextNode(n)
  PROVE  StayersInv'
<1>1. /\ type \in {"vm", "lxc"} /\ stayed \subseteq Guest /\ lost \subseteq Guest
      /\ where \in [Guest -> Node] /\ Kind \in [Guest -> {"vm", "lxc"}]
  BY ProxmoxConstants DEF PollInv, TypeOK
<1>2. CASE PollBegins
  BY <1>2 DEF PollBegins, StayersInv
<1>3. CASE NodesFail
  <2>1. /\ phase' = "idle" /\ lost' = Guest /\ left' = left /\ stayed' = stayed
        /\ phase = "nodes"
    BY <1>3 DEF NodesFail
  <2>2. left = {}
    BY <2>1 DEF StayersInv
  <2> QED
    BY <1>1, <2>1, <2>2 DEF StayersInv
<1>4. CASE NodesAnswer
  BY <1>1, <1>4 DEF NodesAnswer, StayersInv, Ahead, cluster, history
<1>5. CASE NextList
  <2>1. /\ phase = "guests" /\ listed = {}
        /\ \/ type = "vm" /\ type' = "lxc" /\ phase' = "list"
           \/ type = "lxc" /\ type' = type /\ phase' = "node"
        /\ UNCHANGED <<where, left, node, listed, cur, result, stayed, lost>>
    BY <1>1, <1>5 DEF NextList, cluster, history
  <2>2. ASSUME NEW g \in stayed \ lost
        PROVE  Ahead(g)' \/ Reported(g)'
    <3>1. Ahead(g) \/ Reported(g)
      BY <2>1, <2>2 DEF StayersInv, InHand
    <3>2. CASE Ahead(g)
      BY <1>1, <2>1, <3>2 DEF Ahead
    <3>3. CASE Reported(g)
      BY <2>1, <3>3 DEF Reported
    <3> QED
      BY <3>1, <3>2, <3>3
  <2> QED
    BY <2>1, <2>2 DEF StayersInv
<1>6. CASE PollReturns
  <2>1. /\ phase = "node" /\ left = {} /\ phase' = "idle"
        /\ UNCHANGED <<where, left, node, type, listed, cur, result, stayed, lost>>
    BY <1>6 DEF PollReturns, cluster, history
  <2>2. ASSUME NEW g \in stayed \ lost
        PROVE  Reported(g)'
    BY <2>1, <2>2 DEF StayersInv, Ahead, InHand, Reported
  <2> QED
    BY <2>1, <2>2 DEF StayersInv
<1>7. ASSUME NEW n \in Node, NextNode(n)
      PROVE  StayersInv'
  <2>1. /\ phase = "node" /\ n \in left /\ phase' = "list" /\ left' = left \ {n}
        /\ node' = n /\ type' = "vm"
        /\ UNCHANGED <<where, listed, cur, result, stayed, lost>>
    BY <1>7 DEF NextNode, cluster, history
  <2>2. ASSUME NEW g \in stayed \ lost
        PROVE  Ahead(g)' \/ Reported(g)'
    <3>1. where[g] \in left \/ Reported(g)
      BY <2>1, <2>2 DEF StayersInv, Ahead, InHand
    <3>2. CASE where[g] \in left
      <4>1. Kind[g] \in {"vm", "lxc"}
        BY <1>1, <2>2
      <4> QED
        BY <2>1, <3>2, <4>1 DEF Ahead
    <3>3. CASE Reported(g)
      BY <2>1, <3>3 DEF Reported
    <3> QED
      BY <3>1, <3>2, <3>3
  <2> QED
    BY <2>1, <2>2 DEF StayersInv
<1> QED
  BY <1>2, <1>3, <1>4, <1>5, <1>6, <1>7

LEMMA ChangeStayersInv ==
  ASSUME PollInv, StayersInv,
         NEW g \in Guest, StartsOrStops(g) \/ \E n \in Node : Migrates(g, n)
  PROVE  StayersInv'
<1>1. /\ UNCHANGED <<phase, left, node, type, listed, cur, result, lost>>
      /\ stayed' \subseteq stayed
      /\ \A h \in stayed' : where'[h] = where[h]
      /\ where \in [Guest -> Node] /\ stayed \subseteq Guest
  BY DEF StartsOrStops, Migrates, Change, poll, PollInv, TypeOK
<1>2. ASSUME NEW h \in stayed' \ lost
      PROVE  Ahead(h)' \/ InHand(h)' \/ Reported(h)' \/ phase = "nodes"
  <2>1. h \in stayed \ lost /\ where'[h] = where[h]
    BY <1>1, <1>2
  <2>2. Ahead(h) => Ahead(h)'
    BY <1>1, <2>1 DEF Ahead
  <2>3. InHand(h) => InHand(h)'
    BY <1>1, <2>1 DEF InHand
  <2>4. Reported(h) => Reported(h)'
    BY <1>1, <2>1 DEF Reported
  <2> QED
    BY <2>1, <2>2, <2>3, <2>4 DEF StayersInv
<1> QED
  BY <1>1, <1>2 DEF StayersInv

LEMMA NextStayersInv == PollInv /\ StayersInv /\ [Next]_vars => StayersInv'
<1> SUFFICES ASSUME PollInv, StayersInv, [Next]_vars PROVE StayersInv'
  OBVIOUS
<1>1. CASE AddressAnswers
  <2>1. PICK addresses \in Interfaces : HasAddress(FirstRoutable(addresses))
    BY <1>1 DEF AddressAnswers
  <2>2. FirstRoutable(addresses) \in IP \cup {NULL}
    BY FirstRoutableIsOne, ProxmoxConstants
  <2> QED
    BY <2>1, <2>2, AddressStayersInv
<1>2. CASE AddressFails
  BY <1>2, AddressStayersInv DEF AddressFails
<1>3. CASE UNCHANGED vars
  <2>1. UNCHANGED <<where, phase, left, node, type, listed, cur, result, stayed, lost>>
    BY <1>3 DEF vars, cluster, poll, history
  <2> QED
    BY <2>1 DEF StayersInv, Ahead, InHand, Reported
<1> QED
  BY <1>1, <1>2, <1>3, ConfigStayersInv, ListStayersInv, WayStayersInv, ChangeStayersInv
     DEF Next, PollStep

\* When the poll is over, a guest that stayed on its node, and about which no
\* request failed, is reported there under each of its MAC addresses, wherever
\* else the others have moved and whichever of their requests failed.
THEOREM StayersAreReported == Spec => []StayersReported
<1>1. PollInv /\ StayersInv => StayersReported
  <2> SUFFICES ASSUME PollInv, StayersInv, phase = "idle", NEW g \in stayed \ lost
               PROVE  Reported(g)
    BY DEF StayersReported, Reported
  <2> QED
    BY DEF PollInv, ListingInv, StayersInv, Ahead, InHand
<1> QED
  BY <1>1, InitStayersInv, NextStayersInv, PollInvariant, PTL DEF Spec
=============================================================================
