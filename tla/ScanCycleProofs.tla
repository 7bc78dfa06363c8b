-------------------------- MODULE ScanCycleProofs --------------------------
(***************************************************************************)
(* What holds of the scan loop for every set of devices and addresses,     *)
(* every threshold and every sequence of observations, failures, restarts  *)
(* and PUT requests: types, what the merge loops cover, the alerts that    *)
(* must not be wrong and those that must not be missing, what the merge    *)
(* writes, the operator's columns, and the refinement of AlertContract.    *)
(***************************************************************************)
EXTENDS ScanAlerts, DeviceTableTheorems

-----------------------------------------------------------------------------
(* Types.  A sighting is only well-formed for a MAC of its own loop.        *)

LoopsTyped ==
  /\ phase \in Loops => todo \subseteq LoopKeys(phase, obs)
  /\ phase \in Loops /\ current # NULL => current \in LoopKeys(phase, obs)
  /\ current # NULL => phase \in Loops \cup {"hostnet"}

TypeInv == TypeOK /\ LoopsTyped

LEMMA NothingObservedType == NothingObserved \in Observation
BY DEF NothingObserved, Observation

LEMMA EmptyTableType == EmptyTable \in Table
BY DEF EmptyTable, Table

LEMMA TwiceType == \A n \in 0..2 : Twice(n) \in 0..2
BY DEF Twice

LEMMA NullNoMac == NULL \notin MAC
BY TableConstants

LEMMA InitTypeInv == Init => TypeInv
BY NothingObservedType, EmptyTableType
DEF Init, TypeInv, TypeOK, LoopsTyped, Busy, Loops, NoContainers

-----------------------------------------------------------------------------
(* What the database calls of the cycle do, whichever loop makes them. *)

\* The upsert of any loop is that of a well-formed sighting.
LEMMA UpsertStep ==
  ASSUME TypeInv, NEW m \in MAC,
         MergeArp(m) \/ MergeProxmox(m) \/ MergeNdp(m) \/ MergeDocker(m)
  PROVE  /\ phase \in Loops
         /\ \E s \in Sighting : Upsert(m, s)
<1>1. m \in LoopKeys(phase, obs)
  BY DEF TypeInv, LoopsTyped, MergeArp, MergeProxmox, MergeNdp, MergeDocker, Upsert, Loops
<1> USE SightingType DEF TypeInv, TypeOK, Loops
<1>2. CASE MergeArp(m)
  BY <1>1, <1>2 DEF MergeArp
<1>3. CASE MergeProxmox(m)
  BY <1>1, <1>3 DEF MergeProxmox
<1>4. CASE MergeNdp(m)
  BY <1>1, <1>4 DEF MergeNdp
<1>5. CASE MergeDocker(m)
  BY <1>1, <1>5 DEF MergeDocker
<1> QED
  BY <1>2, <1>3, <1>4, <1>5

LEMMA NameDeviceStep ==
  ASSUME TypeInv, NameDevice
  PROVE  /\ current \in MAC
         /\ current \in LoopKeys(phase, obs)
         /\ devices' \in Table
         /\ SameCounts(devices', devices)
         /\ KeepsAddresses(devices', devices)
         /\ KeepsOperator(devices', devices)
<1> USE DEF TypeInv, TypeOK, LoopsTyped
<1>1. current \in MAC /\ current \in LoopKeys(phase, obs)
  BY DEF NameDevice
<1>2. Hostname(phase, obs, current) \in Name \cup {NULL}
  <2>1. phase = "docker" => obs.docker[current] # NULL
    BY <1>1 DEF LoopKeys, Keys
  <2> QED
    BY <1>1, <2>1, HostnameType
<1>3. CASE Hostname(phase, obs, current) = NULL
  BY <1>1, <1>3 DEF NameDevice, SameCounts, KeepsAddresses, KeepsOperator
<1>4. CASE Hostname(phase, obs, current) # NULL
  <2>1. devices' = SetHostnameIfUnset(devices, current, Hostname(phase, obs, current))
    BY <1>4 DEF NameDevice
  <2> QED
    BY <1>1, <1>2, <1>4, <2>1, SetHostnameFacts, SetHostnameKeeps
<1> QED
  BY <1>3, <1>4

LEMMA WriteHostStep ==
  ASSUME TypeInv, WriteHostMetadata
  PROVE  /\ current \in MAC
         /\ devices' \in Table
         /\ SameCounts(devices', devices)
         /\ KeepsAddresses(devices', devices)
         /\ KeepsOperator(devices', devices)
BY MergeHostFacts, MergeHostKeeps DEF WriteHostMetadata, TypeInv, TypeOK

\* What a PUT of text in column c of device m does.
Puts(m, c, text) ==
  /\ devices[m] # NULL
  /\ devices' \in Table
  /\ SameCounts(devices', devices)
  /\ KeepsAddresses(devices', devices)
  /\ \A k \in MAC \ {m} : devices'[k] = devices[k]
  /\ devices'[m].alias = IF c = "alias" THEN text ELSE devices[m].alias
  /\ \A d \in OperatorColumn :
       devices'[m].operator[d] = IF d = c THEN Cleared(text) ELSE devices[m].operator[d]
  /\ manual' = [manual EXCEPT ![m][c] = text]
  /\ UNCHANGED <<phase, locals, discovered, gone>>

LEMMA OperatorStep ==
  ASSUME TypeInv, Operator
  PROVE  \E m \in MAC, c \in Column, text \in Name : Puts(m, c, text)
<1> USE DEF TypeInv, TypeOK
<1>1. PICK m \in MAC, text \in OperatorTexts :
        PutAlias(m, text) \/ \E c \in OperatorColumn : PutOperatorColumn(m, c, text)
  BY DEF Operator
<1>2. text \in Name
  BY ScanConstants
<1>3. CASE PutAlias(m, text)
  <2>1. "alias" \in Column
    BY DEF Column
  <2>2. devices[m] # NULL /\ devices' = SetDeviceAlias(devices, m, text)
    BY <1>3 DEF PutAlias, Put
  <2>3. devices' \in Table /\ SameCounts(devices', devices)
    BY <1>2, <2>2, SetAliasFacts
  <2>4. /\ KeepsAddresses(devices', devices)
        /\ devices'[m].alias = text
        /\ devices'[m].operator = devices[m].operator
        /\ \A k \in MAC \ {m} : devices'[k] = devices[k]
    BY <1>2, <2>2, SetAliasKeeps
  <2>5. Puts(m, "alias", text)
    BY <1>3, <2>2, <2>3, <2>4 DEF Puts, PutAlias, Put, OperatorColumn
  <2> QED
    BY <1>2, <2>1, <2>5
<1>4. ASSUME NEW c \in OperatorColumn, PutOperatorColumn(m, c, text)
      PROVE  c \in Column /\ Puts(m, c, text)
  <2>1. c \in Column /\ c # "alias"
    BY DEF Column, OperatorColumn
  <2>2. devices[m] # NULL /\ devices' = SetOperatorColumn(devices, m, c, text)
    BY <1>4 DEF PutOperatorColumn, Put
  <2>3. devices' \in Table /\ SameCounts(devices', devices)
    BY <1>2, <2>2, SetOperatorColumnFacts
  <2>4. /\ KeepsAddresses(devices', devices)
        /\ devices'[m].alias = devices[m].alias
        /\ \A d \in OperatorColumn :
             devices'[m].operator[d] = IF d = c THEN Cleared(text) ELSE devices[m].operator[d]
        /\ \A k \in MAC \ {m} : devices'[k] = devices[k]
    BY <1>2, <2>2, SetOperatorColumnKeeps
  <2> QED
    BY <1>4, <2>1, <2>2, <2>3, <2>4 DEF Puts, PutOperatorColumn, Put
<1> QED
  BY <1>1, <1>2, <1>3, <1>4

-----------------------------------------------------------------------------
(* Types, continued. *)

\* The host-network part of the cycle keeps the types.
LEMMA HostNetType ==
  ASSUME TypeInv, CollectHostNet \/ WriteHostMetadata \/ \E m \in MAC : ReadHostMetadata(m)
  PROVE  TypeInv'
<1> USE DEF TypeInv, TypeOK, LoopsTyped, history
<1>1. CASE CollectHostNet
  <2>1. hostnet' \in [MAC -> SUBSET Container]
    BY <1>1 DEF CollectHostNet, HostNetContainers, Keys, Observation
  <2> QED
    BY <1>1, <2>1 DEF CollectHostNet, Busy, Loops
<1>2. ASSUME NEW m \in MAC, ReadHostMetadata(m)
      PROVE  TypeInv'
  <2>1. existing' \in Metadata \cup {NULL}
    BY <1>2 DEF ReadHostMetadata, Table, Row
  <2> QED
    BY <1>2, <2>1 DEF ReadHostMetadata, Loops
<1>3. CASE WriteHostMetadata
  BY <1>3, WriteHostStep DEF WriteHostMetadata, Loops
<1> QED
  BY <1>1, <1>2, <1>3

LEMMA FireWebhookType ==
  ASSUME TypeInv, NEW a \in alerts, FireWebhook(a[1], a[2])
  PROVE  TypeInv'
<1> USE DEF TypeInv, TypeOK, LoopsTyped, history
<1>1. a[2] \in MAC
  BY DEF Alert
<1>2. discovered' \in [MAC -> 0..2] /\ gone' \in [MAC -> 0..2]
  BY <1>1, TwiceType DEF FireWebhook
<1> QED
  BY <1>2 DEF FireWebhook, Loops

LEMMA DropLocalsType ==
  ASSUME DropLocals, phase' \in {"idle", "down"}, TypeInv, UNCHANGED <<devices, history>>
  PROVE  TypeInv'
BY NothingObservedType, EmptyTableType
DEF DropLocals, TypeInv, TypeOK, LoopsTyped, Loops, NoContainers, history

LEMMA NextTypeInv == TypeInv /\ [Next]_vars => TypeInv'
<1> SUFFICES ASSUME TypeInv, [Next]_vars
             PROVE  TypeInv'
  OBVIOUS
<1> USE DEF TypeInv, TypeOK, LoopsTyped, history
<1>1. CASE StartScan
  BY <1>1 DEF StartScan, Busy, Loops
<1>2. CASE Gather
  <2>1. PICK o \in Observations : obs' = o /\ todo' = LoopKeys("arp", o)
    BY <1>2 DEF Gather
  <2>2. o \in Observation
    BY ScanConstants
  <2>3. LoopKeys("arp", o) \subseteq MAC
    BY <2>2, LoopKeysType
  <2>4. phase' = "arp" /\ current' = NULL
    BY <1>2 DEF Gather, Loops
  <2> QED
    BY <1>2, <2>1, <2>2, <2>3, <2>4 DEF Gather, Busy, Loops
<1>3. ASSUME NEW m \in MAC,
             MergeArp(m) \/ MergeProxmox(m) \/ MergeNdp(m) \/ MergeDocker(m)
      PROVE  TypeInv'
  <2>1. PICK s \in Sighting : phase \in Loops /\ Upsert(m, s)
    BY <1>3, UpsertStep
  <2>2. devices' \in Table
    BY <2>1, UpsertFacts DEF Upsert
  <2>3. gone' \in [MAC -> 0..2]
    BY <2>1 DEF Upsert
  <2> QED
    BY <2>1, <2>2, <2>3 DEF Upsert
<1>4. CASE NameDevice
  BY <1>4, NameDeviceStep DEF NameDevice
<1>5. CASE NextLoop
  <2>1. ASSUME NEW from \in Loops, NEW to \in Loops, EnterLoop(from, to)
        PROVE  TypeInv'
    <3>1. LoopKeys(to, obs) \subseteq MAC
      BY LoopKeysType DEF Loops
    <3> QED
      BY <2>1, <3>1 DEF EnterLoop, LoopDone, Busy
  <2> QED
    BY <1>5, <2>1 DEF NextLoop, Loops
<1>6. CASE CollectHostNet \/ WriteHostMetadata \/ \E m \in MAC : ReadHostMetadata(m)
  BY <1>6, HostNetType
<1>7. CASE CountMissing
  <2>1. devices' \in Table
    BY <1>7, CountFacts DEF CountMissing
  <2> QED
    BY <1>7, <2>1 DEF CountMissing, LoopDone, locals, Busy, Loops
<1>8. CASE CompareSnapshots
  <2>1. alerts' \subseteq Alert
    BY <1>8 DEF CompareSnapshots, Alert, Discoveries, Departures, Registered
  <2> QED
    BY <1>8, <2>1 DEF CompareSnapshots, Busy, Loops
<1>9. ASSUME NEW a \in alerts, FireWebhook(a[1], a[2])
      PROVE  TypeInv'
  BY <1>9, FireWebhookType
<1>10. CASE FinishScan \/ SourceRaises \/ DatabaseRaises \/ Stop
  BY <1>10, DropLocalsType DEF FinishScan, SourceRaises, DatabaseRaises, Stop, Abandon
<1>11. CASE Start
  BY <1>11 DEF Start, locals, Busy, Loops
<1>12. CASE Operator
  <2>1. PICK m \in MAC, c \in Column, text \in Name : Puts(m, c, text)
    BY <1>12, OperatorStep
  <2>2. manual' \in [MAC -> [Column -> Name \cup {NULL}]]
    BY <2>1 DEF Puts
  <2> QED
    BY <2>1, <2>2 DEF Puts, locals
<1>13. CASE UNCHANGED vars
  BY <1>13 DEF vars, locals
<1> QED
  BY <1>1, <1>2, <1>3, <1>4, <1>5, <1>6, <1>7, <1>8, <1>9, <1>10, <1>11, <1>12, <1>13
  DEF Next, ScanStep

\* Every statement of the cycle keeps the table and the scan's locals well formed.
THEOREM TypeCorrect == Spec => []TypeOK
<1>1. TypeInv => TypeOK
  BY DEF TypeInv
<1> QED
  BY <1>1, InitTypeInv, NextTypeInv, PTL DEF Spec

-----------------------------------------------------------------------------
(* The merge: what the loops have visited, and what that makes true of the table. *)

\* The MACs some source shows, by the keys of the merge loops.
Shown(o) == Keys(ArpMap(o)) \cup Keys(o.proxmox) \cup Keys(o.ndp) \cup Keys(o.docker)

LoopsBefore(p) ==
  CASE p = "proxmox"                        -> {"arp"}
    [] p = "ndp"                            -> {"arp", "proxmox"}
    [] p = "docker"                         -> {"arp", "proxmox", "ndp"}
    [] p \in {"hostnet", "snapshot", "alert"} -> Loops
    [] OTHER                                -> {}

\* A finished loop has seen all its MACs, the running one has seen them or
\* still has them to do, and nothing was seen that no source shows.
Covered ==
  /\ \A loop \in LoopsBefore(phase) : LoopKeys(loop, obs) \subseteq seen
  /\ phase \in Loops => LoopKeys(phase, obs) \subseteq seen \cup todo \cup {current}
  /\ phase = "hostnet" => todo \cup ({current} \ {NULL}) \subseteq Keys(ArpMap(obs))
  /\ phase \in {"idle", "down", "gather"} => seen = {}
  /\ seen \subseteq Shown(obs)

\* Until the cycle counts, what it has seen is registered with no missed cycle.
SeenPresent ==
  phase \in Loops \cup {"hostnet"} =>
    \A m \in MAC : m \in seen \/ (m = current /\ phase \in Loops) =>
                     devices[m] # NULL /\ devices[m].disappearance_count = 0

\* What was registered since the snapshot was seen, or is about to be.
ArrivalsSeen ==
  phase \in Busy => Registered(devices) \ Registered(pre) \subseteq seen \cup {current}

MergeInv == Covered /\ SeenPresent /\ ArrivalsSeen /\ PresenceMatchesSources

LEMMA ArpMapKeys ==
  ASSUME NEW o \in Observation, NEW m \in MAC
  PROVE  m \in Keys(ArpMap(o)) <=> (o.arp[m] # NULL \/ o.nmap[m] # NULL \/ o.snmp[m] # NULL)
<1>1. Coalesce(o.nmap[m], o.snmp[m]) # NULL <=> (o.nmap[m] # NULL \/ o.snmp[m] # NULL)
  BY DEF Coalesce
<1>2. [ip |-> Coalesce(o.nmap[m], o.snmp[m]), intf |-> NULL] # NULL
      \/ Coalesce(o.nmap[m], o.snmp[m]) = NULL
  <2>1. Coalesce(o.nmap[m], o.snmp[m]) \in IP \cup {NULL}
    BY DEF Coalesce, Observation
  <2> QED
    BY <2>1, SourceConstants DEF ArpEntry
<1> QED
  BY <1>1, <1>2 DEF ArpMap, Keys

LEMMA ObservedIsShown ==
  ASSUME NEW o \in Observation, NEW m \in MAC
  PROVE  Observed(o, m) <=> m \in Shown(o)
<1>1. m \in Keys(ArpMap(o)) <=> (o.arp[m] # NULL \/ o.nmap[m] # NULL \/ o.snmp[m] # NULL)
  BY ArpMapKeys
<1>2. /\ m \in Keys(o.proxmox) <=> o.proxmox[m] # NULL
      /\ m \in Keys(o.ndp) <=> o.ndp[m] # NULL
      /\ m \in Keys(o.docker) <=> o.docker[m] # NULL
  BY DEF Keys, Observation
<1> QED
  BY <1>1, <1>2 DEF Observed, Shown

\* The four loops, with the exclusions between them, leave nothing out.
LEMMA LoopsCoverShown ==
  ASSUME NEW o
  PROVE  Shown(o) = UNION {LoopKeys(loop, o) : loop \in Loops}
BY DEF Shown, LoopKeys, Loops

LEMMA InitMergeInv == Init => MergeInv
BY DEF Init, MergeInv, Covered, LoopsBefore, SeenPresent, ArrivalsSeen, PresenceMatchesSources,
       Counted, Loops, Busy

\* What leaves the counters and the cycle's own state alone.
LEMMA QuietMerge ==
  ASSUME MergeInv, SameCounts(devices', devices),
         UNCHANGED <<phase, pre, obs, todo, current, seen>>
  PROVE  MergeInv'
BY DEF MergeInv, Covered, SeenPresent, ArrivalsSeen, PresenceMatchesSources, Counted,
       SameCounts, Registered

\* What ends a cycle.
LEMMA DropLocalsMerge ==
  ASSUME DropLocals, phase' \in {"idle", "down"}
  PROVE  MergeInv'
BY DEF DropLocals, MergeInv, Covered, LoopsBefore, SeenPresent, ArrivalsSeen,
       PresenceMatchesSources, Counted, Loops, Busy

LEMMA UpsertMerge ==
  ASSUME TypeInv, MergeInv, phase \in Loops, NEW m \in MAC, NEW s \in Sighting, Upsert(m, s)
  PROVE  MergeInv'
<1> USE DEF MergeInv
<1>1. /\ devices' = UpsertDevice(devices, m, s)
      /\ todo' = todo \ {m}
      /\ current' = m /\ current = NULL
      /\ UNCHANGED <<phase, pre, obs, seen>>
  BY DEF Upsert
<1>2. /\ devices'[m] # NULL
      /\ devices'[m].disappearance_count = 0
      /\ \A k \in MAC \ {m} : devices'[k] = devices[k]
  BY <1>1, UpsertFacts DEF TypeInv, TypeOK
<1>3. Covered'
  <2>1. LoopKeys(phase, obs) \subseteq MAC
    BY LoopKeysType DEF TypeInv, TypeOK, Loops
  <2> QED
    BY <1>1, <2>1, NullNoMac DEF Covered, Loops
<1>4. SeenPresent'
  BY <1>1, <1>2 DEF SeenPresent
<1>5. ArrivalsSeen'
  BY <1>1, <1>2, NullNoMac DEF ArrivalsSeen, Registered, Busy
<1>6. PresenceMatchesSources'
  BY <1>1 DEF PresenceMatchesSources, Counted, Loops
<1> QED
  BY <1>3, <1>4, <1>5, <1>6

LEMMA NameDeviceMerge ==
  ASSUME TypeInv, MergeInv, NameDevice
  PROVE  MergeInv'
<1> USE DEF MergeInv
<1>1. /\ current \in MAC
      /\ current \in LoopKeys(phase, obs)
      /\ SameCounts(devices', devices)
  BY NameDeviceStep
<1>2. /\ phase \in Loops
      /\ seen' = seen \cup {current}
      /\ current' = NULL
      /\ UNCHANGED <<phase, pre, obs, todo>>
  BY DEF NameDevice
<1>3. current \in Shown(obs)
  BY <1>1, <1>2, LoopsCoverShown
<1>4. Covered'
  BY <1>1, <1>2, <1>3 DEF Covered, Loops
<1>5. SeenPresent'
  BY <1>1, <1>2, NullNoMac DEF SeenPresent, SameCounts, Loops
<1>6. ArrivalsSeen'
  BY <1>1, <1>2 DEF ArrivalsSeen, SameCounts, Registered
<1>7. PresenceMatchesSources'
  BY <1>2 DEF PresenceMatchesSources, Counted, Loops
<1> QED
  BY <1>4, <1>5, <1>6, <1>7

\* A loop that is done has seen all its MACs.
LEMMA LoopDoneSeen ==
  ASSUME TypeInv, MergeInv, phase \in Loops, LoopDone
  PROVE  LoopKeys(phase, obs) \subseteq seen
<1>1. LoopKeys(phase, obs) \subseteq MAC
  BY LoopKeysType DEF TypeInv, TypeOK, Loops
<1> QED
  BY <1>1, NullNoMac DEF MergeInv, Covered, LoopDone

LEMMA NextLoopMerge ==
  ASSUME TypeInv, MergeInv, NextLoop
  PROVE  MergeInv'
<1> USE DEF MergeInv
<1>1. ASSUME NEW from \in Loops, NEW to \in Loops, EnterLoop(from, to),
             LoopsBefore(to) = LoopsBefore(from) \cup {from}
      PROVE  MergeInv'
  <2>1. LoopKeys(from, obs) \subseteq seen
    BY <1>1, LoopDoneSeen DEF EnterLoop
  <2>2. /\ phase = from /\ phase' = to
        /\ todo' = LoopKeys(to, obs)
        /\ UNCHANGED <<devices, pre, obs, current, seen>>
    BY <1>1 DEF EnterLoop
  <2>3. Covered'
    BY <1>1, <2>1, <2>2 DEF Covered, Loops
  <2>4. SeenPresent' /\ ArrivalsSeen' /\ PresenceMatchesSources'
    BY <1>1, <2>2
    DEF SeenPresent, ArrivalsSeen, PresenceMatchesSources, Counted, Loops, Busy, Registered
  <2> QED
    BY <2>3, <2>4
<1>2. /\ LoopsBefore("proxmox") = LoopsBefore("arp") \cup {"arp"}
      /\ LoopsBefore("ndp") = LoopsBefore("proxmox") \cup {"proxmox"}
      /\ LoopsBefore("docker") = LoopsBefore("ndp") \cup {"ndp"}
  BY DEF LoopsBefore
<1> QED
  BY <1>1, <1>2 DEF NextLoop, Loops

\* A host that host-network containers are attributed to is in the ARP map.
LEMMA HostIsInArpMap ==
  ASSUME NEW o \in Observation, NEW owner \in IpToMac(o), NEW m \in MAC,
         HostNetContainers(o, owner)[m] # {}
  PROVE  m \in Keys(ArpMap(o))
<1>1. PICK c \in Keys(o.hostnet) : owner[o.hostnet[c]] = m
  BY DEF HostNetContainers
<1>2. o.hostnet[c] \in IP
  BY <1>1 DEF Keys, Observation
<1>3. owner[o.hostnet[c]] # NULL
  BY <1>1, NullNoMac
<1> QED
  BY <1>1, <1>2, <1>3 DEF IpToMac

LEMMA HostNetMerge ==
  ASSUME TypeInv, MergeInv,
         CollectHostNet \/ WriteHostMetadata \/ \E m \in MAC : ReadHostMetadata(m)
  PROVE  MergeInv'
<1> USE DEF MergeInv
<1>1. CASE CollectHostNet
  <2>1. /\ phase = "docker" /\ phase' = "hostnet" /\ current = NULL
        /\ LoopKeys("docker", obs) \subseteq seen
        /\ UNCHANGED <<devices, pre, obs, current, seen>>
    BY <1>1, LoopDoneSeen DEF CollectHostNet, LoopDone, Loops
  <2>2. todo' \subseteq Keys(ArpMap(obs))
    BY <1>1, HostIsInArpMap DEF CollectHostNet, TypeInv, TypeOK
  <2>3. Covered'
    BY <2>1, <2>2 DEF Covered, LoopsBefore, Loops
  <2>4. SeenPresent' /\ ArrivalsSeen' /\ PresenceMatchesSources'
    BY <2>1, NullNoMac
    DEF SeenPresent, ArrivalsSeen, PresenceMatchesSources, Counted, Loops, Busy, Registered
  <2> QED
    BY <2>3, <2>4
<1>2. ASSUME NEW m \in MAC, ReadHostMetadata(m)
      PROVE  MergeInv'
  <2>1. /\ phase = "hostnet"
        /\ current = NULL /\ current' = m
        /\ m \in todo /\ todo' \subseteq todo
        /\ UNCHANGED <<devices, phase, pre, obs, seen>>
    BY <1>2 DEF ReadHostMetadata
  <2>2. Covered'
    BY <2>1 DEF Covered, Loops
  <2>3. SeenPresent' /\ ArrivalsSeen' /\ PresenceMatchesSources'
    BY <2>1, NullNoMac
    DEF SeenPresent, ArrivalsSeen, PresenceMatchesSources, Counted, Loops, Registered
  <2> QED
    BY <2>2, <2>3
<1>3. CASE WriteHostMetadata
  <2>1. current \in MAC /\ SameCounts(devices', devices)
    BY <1>3, WriteHostStep
  <2>2. /\ phase = "hostnet"
        /\ seen' = seen \cup {current}
        /\ current' = NULL
        /\ UNCHANGED <<phase, pre, obs, todo>>
    BY <1>3 DEF WriteHostMetadata
  <2>3. current \in LoopKeys("arp", obs) /\ LoopKeys("arp", obs) \subseteq seen
    BY <2>1, <2>2, NullNoMac DEF Covered, LoopsBefore, LoopKeys, Loops
  <2>4. seen' = seen
    BY <2>2, <2>3
  <2>5. Covered'
    BY <2>2, <2>4 DEF Covered, Loops
  <2>6. SeenPresent' /\ ArrivalsSeen' /\ PresenceMatchesSources'
    BY <2>1, <2>2, <2>3, <2>4
    DEF SeenPresent, ArrivalsSeen, PresenceMatchesSources, Counted, Loops, Registered, SameCounts
  <2> QED
    BY <2>5, <2>6
<1> QED
  BY <1>1, <1>2, <1>3

\* The count makes the registered devices without a missed cycle those that were seen.
LEMMA CountMerge ==
  ASSUME TypeInv, MergeInv, CountMissing
  PROVE  MergeInv'
<1> USE DEF MergeInv
<1>1. /\ phase = "hostnet" /\ phase' = "snapshot" /\ current = NULL
      /\ devices' = UpdateDisappearanceCounts(devices, seen)
      /\ UNCHANGED <<pre, obs, todo, current, seen>>
  BY DEF CountMissing, LoopDone, locals
<1>2. \A m \in MAC :
        /\ devices'[m] = NULL <=> devices[m] = NULL
        /\ devices'[m] # NULL =>
             devices'[m].disappearance_count =
               IF m \in seen \/ devices[m].disappearance_count = MaxCount
               THEN devices[m].disappearance_count
               ELSE devices[m].disappearance_count + 1
  BY <1>1, CountFacts DEF TypeInv, TypeOK
<1>3. \A loop \in Loops : LoopKeys(loop, obs) \subseteq seen
  BY <1>1 DEF Covered, LoopsBefore
<1>4. seen = Shown(obs)
  BY <1>3, LoopsCoverShown DEF Covered
<1>5. Covered'
  BY <1>1, <1>3 DEF Covered, LoopsBefore, Loops
<1>6. SeenPresent'
  BY <1>1 DEF SeenPresent, Loops
<1>7. ArrivalsSeen'
  BY <1>1, <1>2 DEF ArrivalsSeen, Registered, Busy
<1>8. ASSUME NEW m \in MAC
      PROVE  Observed(obs, m) <=> (devices'[m] # NULL /\ devices'[m].disappearance_count = 0)
  <2>1. Observed(obs, m) <=> m \in seen
    BY <1>4, ObservedIsShown DEF TypeInv, TypeOK
  <2>2. m \in seen => devices[m] # NULL /\ devices[m].disappearance_count = 0
    BY <1>1 DEF SeenPresent
  <2>3. devices[m] # NULL => devices[m].disappearance_count \in 0..MaxCount
    BY DEF TypeInv, TypeOK, Table, Row
  <2>4. MaxCount \in Nat /\ MaxCount > 0
    BY ScanConstants, TableConstants
  <2> QED
    BY <1>2, <2>1, <2>2, <2>3, <2>4
<1>9. PresenceMatchesSources'
  BY <1>1, <1>8 DEF PresenceMatchesSources
<1> QED
  BY <1>5, <1>6, <1>7, <1>9

LEMMA NextMergeInv == TypeInv /\ MergeInv /\ [Next]_vars => MergeInv'
<1> SUFFICES ASSUME TypeInv, MergeInv, [Next]_vars
             PROVE  MergeInv'
  OBVIOUS
<1> USE DEF MergeInv
<1>1. CASE StartScan
  BY <1>1 DEF StartScan, Covered, LoopsBefore, SeenPresent, ArrivalsSeen, PresenceMatchesSources,
              Counted, Loops
<1>2. CASE Gather
  <2>1. /\ phase = "gather" /\ phase' = "arp"
        /\ todo' = LoopKeys("arp", obs')
        /\ seen = {} /\ current = NULL
        /\ UNCHANGED <<devices, pre, current, seen>>
    BY <1>2 DEF Gather, Covered, TypeInv, LoopsTyped, Loops
  <2> QED
    BY <2>1, NullNoMac
    DEF Covered, LoopsBefore, SeenPresent, ArrivalsSeen, PresenceMatchesSources, Counted, Loops,
        Busy, Registered
<1>3. ASSUME NEW m \in MAC,
             MergeArp(m) \/ MergeProxmox(m) \/ MergeNdp(m) \/ MergeDocker(m)
      PROVE  MergeInv'
  BY <1>3, UpsertStep, UpsertMerge
<1>4. CASE NameDevice
  BY <1>4, NameDeviceMerge
<1>5. CASE NextLoop
  BY <1>5, NextLoopMerge
<1>6. CASE CollectHostNet \/ WriteHostMetadata \/ \E m \in MAC : ReadHostMetadata(m)
  BY <1>6, HostNetMerge
<1>7. CASE CountMissing
  BY <1>7, CountMerge
<1>8. CASE CompareSnapshots
  <2>1. /\ phase = "snapshot" /\ phase' = "alert"
        /\ UNCHANGED <<devices, pre, obs, current, seen>>
    BY <1>8 DEF CompareSnapshots
  <2> QED
    BY <2>1
    DEF Covered, LoopsBefore, SeenPresent, ArrivalsSeen, PresenceMatchesSources, Counted, Loops,
        Busy, Registered
<1>9. ASSUME NEW a \in alerts, FireWebhook(a[1], a[2])
      PROVE  MergeInv'
  BY <1>9, QuietMerge DEF FireWebhook, SameCounts
<1>10. CASE FinishScan \/ SourceRaises \/ DatabaseRaises \/ Stop
  BY <1>10, DropLocalsMerge DEF FinishScan, SourceRaises, DatabaseRaises, Stop, Abandon
<1>11. CASE Start
  BY <1>11 DEF Start, locals, Covered, LoopsBefore, SeenPresent, ArrivalsSeen,
               PresenceMatchesSources, Counted, Loops, Busy
<1>12. CASE Operator
  BY <1>12, OperatorStep, QuietMerge DEF Puts, locals
<1>13. CASE UNCHANGED vars
  BY <1>13, QuietMerge DEF vars, locals, SameCounts
<1> QED
  BY <1>1, <1>2, <1>3, <1>4, <1>5, <1>6, <1>7, <1>8, <1>9, <1>10, <1>11, <1>12, <1>13
  DEF Next, ScanStep

\* Whatever the sources answer, the four exclusive loops and the host-network
\* pass of _run_scan_once see exactly the MACs some source shows.
THEOREM PresenceCorrect == Spec => []PresenceMatchesSources
<1>1. MergeInv => PresenceMatchesSources
  BY DEF MergeInv
<1> QED
  BY <1>1, InitTypeInv, NextTypeInv, InitMergeInv, NextMergeInv, PTL DEF Spec

-----------------------------------------------------------------------------
(* The alerts.  A counter at the threshold belongs to a device that was not *)
(* reported yet until the very cycle that reports it; a device that is not  *)
(* in the snapshot was never announced.                                     *)

AlertInv ==
  /\ AlertsJustified
  /\ AtMostOneAlert
  /\ GoneMeansMissing
  /\ \A m \in MAC : devices[m] = NULL => discovered[m] = 0
  /\ phase \in Busy \ {"alert"} => \A m \in MAC : pre[m] = NULL => discovered[m] = 0
  /\ phase = "snapshot" =>
       \A m \in Registered(devices) : devices[m].disappearance_count = Threshold => gone[m] = 0
  /\ \A m \in MAC : <<"device_gone", m>> \in alerts =>
       devices[m] # NULL /\ devices[m].disappearance_count = Threshold
  /\ alerts # {} => phase = "alert"

LEMMA InitAlertInv == Init => AlertInv
BY DEF Init, AlertInv, AlertsJustified, AtMostOneAlert, GoneMeansMissing, Busy, Loops

\* What leaves the counters, the events and the pending alerts alone, outside of a
\* comparison of the snapshots.
LEMMA QuietAlert ==
  ASSUME AlertInv, SameCounts(devices', devices),
         phase' \notin {"snapshot"} \/ phase' = phase,
         phase' \in Busy => phase \in Busy /\ (phase = "alert" => phase' = "alert"),
         alerts # {} => phase' = "alert",
         UNCHANGED <<pre, obs, alerts, discovered, gone>>
  PROVE  AlertInv'
BY DEF AlertInv, AlertsJustified, AtMostOneAlert, GoneMeansMissing, SameCounts, Registered

LEMMA DropLocalsAlert ==
  ASSUME AlertInv, DropLocals, phase' \in {"idle", "down"}, UNCHANGED <<devices, history>>
  PROVE  AlertInv'
BY DEF DropLocals, history, AlertInv, AlertsJustified, AtMostOneAlert, GoneMeansMissing, Busy, Loops

\* The upsert that brings a device back also forgets that it was reported gone.
LEMMA UpsertAlert ==
  ASSUME TypeInv, AlertInv, phase \in Loops, NEW m \in MAC, NEW s \in Sighting, Upsert(m, s)
  PROVE  AlertInv'
<1>1. /\ devices' = UpsertDevice(devices, m, s)
      /\ gone' = [gone EXCEPT ![m] = 0]
      /\ UNCHANGED <<phase, pre, obs, alerts, discovered>>
  BY DEF Upsert
<1>2. /\ devices'[m] # NULL
      /\ \A k \in MAC \ {m} : devices'[k] = devices[k]
  BY <1>1, UpsertFacts DEF TypeInv, TypeOK
<1>3. gone'[m] = 0 /\ \A k \in MAC \ {m} : gone'[k] = gone[k]
  BY <1>1 DEF TypeInv, TypeOK
<1>4. alerts = {} /\ phase # "snapshot" /\ phase # "alert"
  BY DEF AlertInv, Loops
<1> QED
  BY <1>1, <1>2, <1>3, <1>4 DEF AlertInv, AlertsJustified, AtMostOneAlert, GoneMeansMissing

\* A counter that reaches the threshold leaves it only through a sighting, so
\* the device whose counter has just reached it was not reported since.
LEMMA CountAlert ==
  ASSUME TypeInv, MergeInv, AlertInv, CountMissing
  PROVE  AlertInv'
<1>1. /\ phase = "hostnet" /\ phase' = "snapshot"
      /\ devices' = UpdateDisappearanceCounts(devices, seen)
      /\ UNCHANGED <<pre, obs, alerts, discovered, gone>>
  BY DEF CountMissing, locals, history
<1>2. alerts = {}
  BY <1>1 DEF AlertInv
<1>3. ASSUME NEW m \in MAC
      PROVE  /\ devices'[m] = NULL <=> devices[m] = NULL
             /\ gone[m] > 0 => devices'[m].disappearance_count >= Threshold
             /\ devices'[m] # NULL /\ devices'[m].disappearance_count = Threshold => gone[m] = 0
  <2>1. /\ devices'[m] = NULL <=> devices[m] = NULL
        /\ devices'[m] # NULL =>
             devices'[m].disappearance_count =
               IF m \in seen \/ devices[m].disappearance_count = MaxCount
               THEN devices[m].disappearance_count
               ELSE devices[m].disappearance_count + 1
    BY <1>1, CountFacts DEF TypeInv, TypeOK
  <2>2. devices[m] # NULL => devices[m].disappearance_count \in 0..MaxCount
    BY DEF TypeInv, TypeOK, Table, Row
  <2>3. m \in seen => devices[m].disappearance_count = 0
    BY <1>1 DEF MergeInv, SeenPresent
  <2>4. gone[m] > 0 => devices[m] # NULL /\ devices[m].disappearance_count >= Threshold
    BY DEF AlertInv, GoneMeansMissing
  <2>5. /\ gone[m] \in 0..2
        /\ Threshold \in Nat /\ Threshold > 0 /\ Threshold < MaxCount /\ MaxCount \in Nat
    BY ScanConstants, TableConstants DEF TypeInv, TypeOK
  <2> QED
    BY <2>1, <2>2, <2>3, <2>4, <2>5
<1>4. /\ \A m \in MAC : devices'[m] = NULL => discovered[m] = 0
      /\ \A m \in MAC : pre[m] = NULL => discovered[m] = 0
      /\ AtMostOneAlert
      /\ GoneMeansMissing
  BY <1>1, <1>3 DEF AlertInv, Busy
<1> QED
  BY <1>1, <1>2, <1>3, <1>4
  DEF AlertInv, AlertsJustified, AtMostOneAlert, GoneMeansMissing, Registered, Busy

LEMMA CompareAlert ==
  ASSUME TypeInv, MergeInv, AlertInv, CompareSnapshots
  PROVE  AlertInv'
<1>1. /\ phase = "snapshot" /\ phase' = "alert"
      /\ UNCHANGED <<devices, pre, obs, current, seen, discovered, gone>>
      /\ \A m \in MAC : <<"device_discovered", m>> \in alerts' => m \in Discoveries
      /\ \A m \in MAC : <<"device_gone", m>> \in alerts' => m \in Departures
  BY DEF CompareSnapshots, history
<1>2. ASSUME NEW m \in Discoveries
      PROVE  Observed(obs, m) /\ discovered[m] = 0
  <2>1. m \in MAC /\ m \in Registered(devices) \ Registered(pre)
    BY DEF Discoveries, Registered
  <2>2. current = NULL
    BY <1>1 DEF TypeInv, LoopsTyped, Loops
  <2>3. m \in seen /\ m \in Shown(obs)
    BY <1>1, <2>1, <2>2, NullNoMac DEF MergeInv, ArrivalsSeen, Covered, Busy
  <2> QED
    BY <1>1, <2>1, <2>3, ObservedIsShown DEF TypeInv, TypeOK, AlertInv, Busy, Registered
<1>3. ASSUME NEW m \in Departures
      PROVE  /\ ~Observed(obs, m) /\ gone[m] = 0
             /\ devices[m] # NULL /\ devices[m].disappearance_count = Threshold
  <2>1. m \in Registered(devices) /\ devices[m].disappearance_count = Threshold
    BY DEF Departures
  <2>2. Threshold # 0
    BY ScanConstants
  <2> QED
    BY <1>1, <2>1, <2>2 DEF MergeInv, PresenceMatchesSources, Counted, AlertInv, Registered
<1> QED
  BY <1>1, <1>2, <1>3 DEF AlertInv, AlertsJustified, AtMostOneAlert, GoneMeansMissing, Busy

LEMMA FireAlert ==
  ASSUME TypeInv, MergeInv, AlertInv, NEW a \in alerts, FireWebhook(a[1], a[2])
  PROVE  AlertInv'
<1> DEFINE m == a[2]
<1>1. m \in MAC /\ a = <<a[1], m>> /\ a[1] \in {"device_discovered", "device_gone"}
  BY DEF TypeInv, TypeOK, Alert
<1>2. /\ phase = "alert"
      /\ alerts' = alerts \ {a}
      /\ UNCHANGED <<devices, phase, pre, obs>>
  BY <1>1 DEF FireWebhook
<1>3. CASE a[1] = "device_discovered"
  <2>1. discovered[m] = 0
    BY <1>1, <1>3 DEF AlertInv, AlertsJustified
  <2>2. discovered' = [discovered EXCEPT ![m] = 1] /\ gone' = gone
    BY <1>3, <2>1 DEF FireWebhook, Twice, TypeInv, TypeOK
  <2>3. \A k \in MAC : <<"device_discovered", k>> \in alerts' => k # m
    BY <1>1, <1>2, <1>3
  <2>4. devices[m] # NULL
    BY <1>1, <1>2, <1>3
    DEF AlertInv, AlertsJustified, MergeInv, PresenceMatchesSources, Counted
  <2>5. discovered'[m] = 1 /\ \A k \in MAC \ {m} : discovered'[k] = discovered[k]
    BY <1>1, <2>2 DEF TypeInv, TypeOK
  <2> HIDE DEF m
  <2> QED
    BY <1>1, <1>2, <2>2, <2>3, <2>4, <2>5
    DEF AlertInv, AlertsJustified, AtMostOneAlert, GoneMeansMissing, Busy
<1>4. CASE a[1] = "device_gone"
  <2>1. gone[m] = 0 /\ devices[m] # NULL /\ devices[m].disappearance_count = Threshold
    BY <1>1, <1>4 DEF AlertInv, AlertsJustified
  <2>2. gone' = [gone EXCEPT ![m] = 1] /\ discovered' = discovered
    BY <1>4, <2>1 DEF FireWebhook, Twice, TypeInv, TypeOK
  <2>3. \A k \in MAC : <<"device_gone", k>> \in alerts' => k # m
    BY <1>1, <1>2, <1>4
  <2>4. gone'[m] = 1 /\ \A k \in MAC \ {m} : gone'[k] = gone[k]
    BY <1>1, <2>2 DEF TypeInv, TypeOK
  <2>5. Threshold \in Nat
    BY ScanConstants
  <2> HIDE DEF m
  <2> QED
    BY <1>1, <1>2, <2>1, <2>2, <2>3, <2>4, <2>5
    DEF AlertInv, AlertsJustified, AtMostOneAlert, GoneMeansMissing, Busy
<1> QED
  BY <1>1, <1>3, <1>4

LEMMA NextAlertInv == TypeInv /\ MergeInv /\ AlertInv /\ [Next]_vars => AlertInv'
<1> SUFFICES ASSUME TypeInv, MergeInv, AlertInv, [Next]_vars
             PROVE  AlertInv'
  OBVIOUS
<1>1. CASE StartScan
  BY <1>1 DEF StartScan, history, AlertInv, AlertsJustified, AtMostOneAlert, GoneMeansMissing,
              Busy, Loops
<1>2. CASE Gather
  <2>1. /\ phase = "gather" /\ phase' = "arp" /\ alerts = {}
        /\ UNCHANGED <<devices, pre, alerts, discovered, gone>>
    BY <1>2 DEF Gather, history, AlertInv
  <2> QED
    BY <2>1 DEF AlertInv, AlertsJustified, AtMostOneAlert, GoneMeansMissing, Busy, Loops
<1>3. ASSUME NEW m \in MAC,
             MergeArp(m) \/ MergeProxmox(m) \/ MergeNdp(m) \/ MergeDocker(m)
      PROVE  AlertInv'
  BY <1>3, UpsertStep, UpsertAlert
<1>4. CASE NameDevice
  BY <1>4, NameDeviceStep, QuietAlert DEF NameDevice, history, AlertInv
<1>5. CASE NextLoop
  <2>1. /\ phase \in Loops /\ phase' \in Loops
        /\ UNCHANGED <<devices, pre, obs, alerts, discovered, gone>>
    BY <1>5 DEF NextLoop, EnterLoop, Loops, history
  <2> QED
    BY <2>1, QuietAlert DEF SameCounts, Busy, Loops, AlertInv
<1>6. CASE CollectHostNet
  BY <1>6, QuietAlert DEF CollectHostNet, SameCounts, Busy, Loops, AlertInv, history
<1>7. ASSUME NEW m \in MAC, ReadHostMetadata(m)
      PROVE  AlertInv'
  BY <1>7, QuietAlert DEF ReadHostMetadata, SameCounts, history, AlertInv
<1>8. CASE WriteHostMetadata
  BY <1>8, WriteHostStep, QuietAlert DEF WriteHostMetadata, history, AlertInv
<1>9. CASE CountMissing
  BY <1>9, CountAlert
<1>10. CASE CompareSnapshots
  BY <1>10, CompareAlert
<1>11. ASSUME NEW a \in alerts, FireWebhook(a[1], a[2])
       PROVE  AlertInv'
  BY <1>11, FireAlert
<1>12. CASE FinishScan \/ SourceRaises \/ DatabaseRaises \/ Stop
  BY <1>12, DropLocalsAlert DEF FinishScan, SourceRaises, DatabaseRaises, Stop, Abandon
<1>13. CASE Start
  BY <1>13, QuietAlert DEF Start, locals, history, SameCounts, Busy, Loops, AlertInv
<1>14. CASE Operator
  BY <1>14, OperatorStep, QuietAlert DEF Puts, locals, AlertInv
<1>15. CASE UNCHANGED vars
  BY <1>15, QuietAlert DEF vars, locals, history, SameCounts, AlertInv
<1> QED
  BY <1>1, <1>2, <1>3, <1>4, <1>5, <1>6, <1>7, <1>8, <1>9, <1>10, <1>11, <1>12, <1>13, <1>14, <1>15
  DEF Next, ScanStep

LEMMA AlertInvHolds == Spec => []AlertInv
BY InitTypeInv, NextTypeInv, InitMergeInv, NextMergeInv, InitAlertInv, NextAlertInv, PTL DEF Spec

\* The alert loops of _run_scan_once never announce a device twice and never
\* report one absence twice, over any number of cycles, failures and restarts.
THEOREM AlertsAtMostOnce == Spec => []AtMostOneAlert
<1>1. AlertInv => AtMostOneAlert
  BY DEF AlertInv
<1> QED
  BY <1>1, AlertInvHolds, PTL

\* What they are about to fire is about a device shown, or not shown, in this cycle.
THEOREM AlertsAreJustified == Spec => []AlertsJustified
<1>1. AlertInv => AlertsJustified
  BY DEF AlertInv
<1> QED
  BY <1>1, AlertInvHolds, PTL

\* A device reported gone and not seen since has missed at least Threshold counts.
THEOREM GoneIsMissing == Spec => []GoneMeansMissing
<1>1. AlertInv => GoneMeansMissing
  BY DEF AlertInv
<1> QED
  BY <1>1, AlertInvHolds, PTL

-----------------------------------------------------------------------------
(* The operator's columns, and what the table keeps. *)

LEMMA InitOperatorInv == Init => OperatorValuesPersist
BY DEF Init, OperatorValuesPersist

\* A step that keeps the operator's columns and stores no PUT keeps the invariant.
LEMMA QuietOperator ==
  ASSUME TypeInv, OperatorValuesPersist, KeepsOperator(devices', devices), manual' = manual
  PROVE  OperatorValuesPersist'
BY TableConstants DEF OperatorValuesPersist, KeepsOperator, TypeInv, TypeOK

\* Every step but a PUT keeps the operator's columns, every step keeps addresses and names.
LEMMA StepKeeps ==
  ASSUME TypeInv, [Next]_vars
  PROVE  /\ KeepsAddresses(devices', devices)
         /\ Operator \/ (KeepsOperator(devices', devices) /\ manual' = manual)
<1>1. CASE UNCHANGED devices /\ manual' = manual
  BY <1>1 DEF KeepsAddresses, KeepsOperator
<1>2. ASSUME NEW m \in MAC,
             MergeArp(m) \/ MergeProxmox(m) \/ MergeNdp(m) \/ MergeDocker(m)
      PROVE  /\ KeepsAddresses(devices', devices)
             /\ KeepsOperator(devices', devices) /\ manual' = manual
  BY <1>2, UpsertStep, UpsertKeeps DEF Upsert, TypeInv, TypeOK
<1>3. CASE NameDevice
  BY <1>3, NameDeviceStep DEF NameDevice, history
<1>4. CASE WriteHostMetadata
  BY <1>4, WriteHostStep DEF WriteHostMetadata, history
<1>5. CASE CountMissing
  BY <1>5, CountKeeps DEF CountMissing, history, TypeInv, TypeOK
<1>6. CASE Operator
  BY <1>6, OperatorStep DEF Puts
<1>7. CASE StartScan \/ Gather \/ NextLoop \/ CollectHostNet \/ CompareSnapshots \/ FinishScan
  BY <1>1, <1>7 DEF StartScan, Gather, NextLoop, EnterLoop, CollectHostNet, CompareSnapshots,
                    FinishScan, history
<1>8. CASE \/ \E m \in MAC : ReadHostMetadata(m)
           \/ \E a \in alerts : FireWebhook(a[1], a[2])
  BY <1>1, <1>8 DEF ReadHostMetadata, FireWebhook, history
<1>9. CASE SourceRaises \/ DatabaseRaises \/ Stop \/ Start \/ UNCHANGED vars
  BY <1>1, <1>9 DEF SourceRaises, DatabaseRaises, Abandon, Stop, Start, history, vars
<1> QED
  BY <1>2, <1>3, <1>4, <1>5, <1>6, <1>7, <1>8, <1>9 DEF Next, ScanStep

LEMMA NextOperatorInv ==
  TypeInv /\ OperatorValuesPersist /\ [Next]_vars => OperatorValuesPersist'
<1> SUFFICES ASSUME TypeInv, OperatorValuesPersist, [Next]_vars
             PROVE  OperatorValuesPersist'
  OBVIOUS
<1>1. CASE Operator
  <2>1. PICK m \in MAC, c \in Column, text \in Name : Puts(m, c, text)
    BY <1>1, OperatorStep
  <2>2. ASSUME NEW k \in MAC, NEW d \in Column, manual'[k][d] # NULL
        PROVE  /\ devices'[k] # NULL
               /\ IF d = "alias" THEN devices'[k].alias = manual'[k][d]
                  ELSE devices'[k].operator[d] = Cleared(manual'[k][d])
    <3>1. CASE k = m /\ d = c
      <4>1. manual'[k][d] = text
        BY <2>1, <3>1 DEF Puts, TypeInv, TypeOK
      <4>2. d = "alias" \/ d \in OperatorColumn
        BY DEF Column
      <4> QED
        BY <2>1, <3>1, <4>1, <4>2 DEF Puts, KeepsAddresses, OperatorColumn
    <3>2. CASE k = m /\ d # c
      <4>1. manual'[k][d] = manual[k][d]
        BY <2>1, <3>2 DEF Puts, TypeInv, TypeOK
      <4>2. d = "alias" \/ (d \in OperatorColumn /\ d # "alias")
        BY DEF Column, OperatorColumn
      <4> QED
        BY <2>1, <2>2, <3>2, <4>1, <4>2 DEF Puts, KeepsAddresses, OperatorValuesPersist
    <3>3. CASE k # m
      <4>1. manual'[k] = manual[k] /\ devices'[k] = devices[k]
        BY <2>1, <3>3 DEF Puts, TypeInv, TypeOK
      <4> QED
        BY <2>2, <4>1 DEF OperatorValuesPersist
    <3> QED
      BY <3>1, <3>2, <3>3
  <2> QED
    BY <2>2 DEF OperatorValuesPersist
<1>2. CASE ~Operator
  BY <1>2, StepKeeps, QuietOperator
<1> QED
  BY <1>1, <1>2

\* No scan, however it interleaves with PUT requests, failures and restarts,
\* overwrites what the operator set.
THEOREM OperatorValuesKept == Spec => []OperatorValuesPersist
BY InitTypeInv, NextTypeInv, InitOperatorInv, NextOperatorInv, PTL DEF Spec

\* No step of the program deletes a device or forgets an address or a name.
THEOREM NothingIsForgotten == Spec => NothingForgotten
<1>1. TypeInv /\ [Next]_vars =>
        [\A m \in Registered(devices) :
           /\ devices'[m] # NULL
           /\ \A c \in {"ip", "ipv6", "alias"} : devices[m][c] # NULL => devices'[m][c] # NULL]_vars
  BY StepKeeps DEF KeepsAddresses, Registered
<1> QED
  BY <1>1, InitTypeInv, NextTypeInv, PTL DEF Spec, NothingForgotten

-----------------------------------------------------------------------------
(* The alerts that must not be missed.  A cycle that is cut short may lose *)
(* them (arrival_lost.cfg), so this is about those that run to their end.  *)

NothingFails == Failures = {} /\ AlertWebhook

\* Who is registered is announced, or is since this cycle began, or is about to be.
ArrivalsInv ==
  /\ phase \in {"idle", "down"} => \A m \in Registered(devices) : discovered[m] = 1
  /\ phase \in Busy => \A m \in Registered(pre) : discovered[m] = 1
  /\ phase = "alert" =>
       \A m \in Registered(devices) : discovered[m] = 1 \/ <<"device_discovered", m>> \in alerts

\* Who has been missing for Threshold cycles is reported, or has been for exactly as
\* many by the count of this cycle.
DeparturesInv ==
  \A m \in Registered(devices) :
    devices[m].disappearance_count >= Threshold =>
      \/ gone[m] = 1
      \/ phase = "snapshot" /\ pre[m] # NULL /\ devices[m].disappearance_count = Threshold
      \/ phase = "alert" /\ <<"device_gone", m>> \in alerts

LEMMA InitTimely == Init => ArrivalsInv /\ DeparturesInv
BY DEF Init, ArrivalsInv, DeparturesInv, Registered, EmptyTable, Busy, Loops

\* What leaves the counters, the events and the pending alerts alone, within a cycle
\* or between two.
LEMMA QuietTimely ==
  ASSUME ArrivalsInv, DeparturesInv, SameCounts(devices', devices),
         \/ phase' = phase
         \/ /\ phase \in Busy \ {"snapshot", "alert"}
            /\ phase' \in Busy \ {"snapshot", "alert"}
         \/ phase = "down" /\ phase' = "idle",
         UNCHANGED <<pre, alerts, discovered, gone>>
  PROVE  ArrivalsInv' /\ DeparturesInv'
<1>1. Registered(devices') = Registered(devices)
  BY DEF SameCounts, Registered
<1>2. ArrivalsInv'
  BY <1>1 DEF ArrivalsInv, Registered, Busy, Loops
<1>3. DeparturesInv'
  BY <1>1 DEF DeparturesInv, SameCounts, Registered, Busy, Loops
<1> QED
  BY <1>2, <1>3

\* A sighting sets the counter back, below any threshold.
LEMMA UpsertTimely ==
  ASSUME TypeInv, ArrivalsInv, DeparturesInv, phase \in Loops,
         NEW m \in MAC, NEW s \in Sighting, Upsert(m, s)
  PROVE  ArrivalsInv' /\ DeparturesInv'
<1>1. /\ devices' = UpsertDevice(devices, m, s)
      /\ gone' = [gone EXCEPT ![m] = 0]
      /\ UNCHANGED <<phase, pre, discovered>>
  BY DEF Upsert
<1>2. /\ devices'[m].disappearance_count = 0
      /\ \A k \in MAC \ {m} : devices'[k] = devices[k] /\ gone'[k] = gone[k]
  BY <1>1, UpsertFacts DEF TypeInv, TypeOK
<1>3. ~(0 >= Threshold)
  BY ScanConstants
<1>4. ArrivalsInv'
  BY <1>1 DEF ArrivalsInv, Loops
<1>5. DeparturesInv'
  BY <1>1, <1>2, <1>3 DEF DeparturesInv, Registered, Loops
<1> QED
  BY <1>4, <1>5

\* The count brings to the threshold only who was registered when the cycle began.
LEMMA CountTimely ==
  ASSUME TypeInv, MergeInv, ArrivalsInv, DeparturesInv, CountMissing
  PROVE  ArrivalsInv' /\ DeparturesInv'
<1>1. /\ phase = "hostnet" /\ phase' = "snapshot" /\ current = NULL
      /\ devices' = UpdateDisappearanceCounts(devices, seen)
      /\ UNCHANGED <<pre, obs, discovered, gone>>
  BY DEF CountMissing, LoopDone, locals, history
<1>2. ArrivalsInv'
  BY <1>1 DEF ArrivalsInv, Busy, Loops
<1>3. ASSUME NEW m \in MAC, devices'[m] # NULL, devices'[m].disappearance_count >= Threshold
      PROVE  \/ gone[m] = 1
             \/ pre[m] # NULL /\ devices'[m].disappearance_count = Threshold
  <2>1. /\ devices[m] # NULL
        /\ devices'[m].disappearance_count =
             IF m \in seen \/ devices[m].disappearance_count = MaxCount
             THEN devices[m].disappearance_count
             ELSE devices[m].disappearance_count + 1
    BY <1>1, <1>3, CountFacts DEF TypeInv, TypeOK
  <2>2. devices[m].disappearance_count \in 0..MaxCount
    BY <2>1 DEF TypeInv, TypeOK, Table, Row
  <2>3. /\ Threshold \in Nat /\ Threshold > 0 /\ Threshold < MaxCount /\ MaxCount \in Nat
    BY ScanConstants, TableConstants
  <2>4. devices[m].disappearance_count >= Threshold => gone[m] = 1
    BY <1>1, <2>1 DEF DeparturesInv, Registered
  <2>5. m \in seen => devices[m].disappearance_count = 0
    BY <1>1 DEF MergeInv, SeenPresent
  <2>6. m \notin seen => pre[m] # NULL
    BY <1>1, <2>1, NullNoMac DEF MergeInv, ArrivalsSeen, Busy, Registered
  <2> QED
    BY <1>3, <2>1, <2>2, <2>3, <2>4, <2>5, <2>6
<1>4. DeparturesInv'
  BY <1>1, <1>3 DEF DeparturesInv, Registered
<1> QED
  BY <1>2, <1>4

LEMMA FireTimely ==
  ASSUME TypeInv, AlertInv, ArrivalsInv, DeparturesInv,
         NEW a \in alerts, FireWebhook(a[1], a[2])
  PROVE  ArrivalsInv' /\ DeparturesInv'
<1> DEFINE m == a[2]
<1>1. m \in MAC /\ a = <<a[1], m>> /\ a[1] \in {"device_discovered", "device_gone"}
  BY DEF TypeInv, TypeOK, Alert
<1>2. /\ phase = "alert"
      /\ alerts' = alerts \ {a}
      /\ UNCHANGED <<devices, phase, pre>>
  BY <1>1 DEF FireWebhook
<1>3. CASE a[1] = "device_discovered"
  <2>1. discovered[m] = 0
    BY <1>1, <1>3 DEF AlertInv, AlertsJustified
  <2>2. gone' = gone /\ discovered'[m] = 1 /\ \A k \in MAC \ {m} : discovered'[k] = discovered[k]
    BY <1>1, <1>3, <2>1 DEF FireWebhook, Twice, TypeInv, TypeOK
  <2>3. \A k \in MAC : <<"device_gone", k>> \in alerts => <<"device_gone", k>> \in alerts'
    BY <1>1, <1>2, <1>3
  <2>4. \A k \in MAC \ {m} : <<"device_discovered", k>> \in alerts
                               => <<"device_discovered", k>> \in alerts'
    BY <1>1, <1>2, <1>3
  <2> HIDE DEF m
  <2>5. ArrivalsInv'
    BY <1>1, <1>2, <2>2, <2>4 DEF ArrivalsInv, Registered, Busy
  <2>6. DeparturesInv'
    BY <1>1, <1>2, <2>2, <2>3 DEF DeparturesInv, Registered
  <2> QED
    BY <2>5, <2>6
<1>4. CASE a[1] = "device_gone"
  <2>1. gone[m] = 0
    BY <1>1, <1>4 DEF AlertInv, AlertsJustified
  <2>2. discovered' = discovered /\ gone'[m] = 1 /\ \A k \in MAC \ {m} : gone'[k] = gone[k]
    BY <1>1, <1>4, <2>1 DEF FireWebhook, Twice, TypeInv, TypeOK
  <2>3. \A k \in MAC : <<"device_discovered", k>> \in alerts
                         => <<"device_discovered", k>> \in alerts'
    BY <1>1, <1>2, <1>4
  <2>4. \A k \in MAC \ {m} : <<"device_gone", k>> \in alerts => <<"device_gone", k>> \in alerts'
    BY <1>1, <1>2, <1>4
  <2> HIDE DEF m
  <2>5. ArrivalsInv'
    BY <1>1, <1>2, <2>2, <2>3 DEF ArrivalsInv, Registered, Busy
  <2>6. DeparturesInv'
    BY <1>1, <1>2, <2>2, <2>4 DEF DeparturesInv, Registered
  <2> QED
    BY <2>5, <2>6
<1> QED
  BY <1>1, <1>3, <1>4

LEMMA NextTimely ==
  ASSUME NothingFails, TypeInv, MergeInv, AlertInv, ArrivalsInv, DeparturesInv, [Next]_vars
  PROVE  ArrivalsInv' /\ DeparturesInv'
<1>1. CASE StartScan
  BY <1>1 DEF StartScan, history, ArrivalsInv, DeparturesInv, Busy, Loops, Registered
<1>2. CASE Gather
  BY <1>2, QuietTimely DEF Gather, history, SameCounts, Busy, Loops
<1>3. ASSUME NEW m \in MAC,
             MergeArp(m) \/ MergeProxmox(m) \/ MergeNdp(m) \/ MergeDocker(m)
      PROVE  ArrivalsInv' /\ DeparturesInv'
  BY <1>3, UpsertStep, UpsertTimely
<1>4. CASE NameDevice
  BY <1>4, NameDeviceStep, QuietTimely DEF NameDevice, history
<1>5. CASE NextLoop
  <2>1. /\ phase \in Loops /\ phase' \in Loops
        /\ UNCHANGED <<devices, pre, alerts, discovered, gone>>
    BY <1>5 DEF NextLoop, EnterLoop, Loops, history
  <2> QED
    BY <2>1, QuietTimely DEF SameCounts, Busy, Loops
<1>6. CASE CollectHostNet
  BY <1>6, QuietTimely DEF CollectHostNet, SameCounts, Busy, Loops, history
<1>7. ASSUME NEW m \in MAC, ReadHostMetadata(m)
      PROVE  ArrivalsInv' /\ DeparturesInv'
  BY <1>7, QuietTimely DEF ReadHostMetadata, SameCounts, history
<1>8. CASE WriteHostMetadata
  BY <1>8, WriteHostStep, QuietTimely DEF WriteHostMetadata, history
<1>9. CASE CountMissing
  BY <1>9, CountTimely
<1>10. CASE CompareSnapshots
  <2>1. /\ phase = "snapshot" /\ phase' = "alert"
        /\ alerts' = ({"device_discovered"} \X Discoveries) \cup ({"device_gone"} \X Departures)
        /\ UNCHANGED <<devices, pre, discovered, gone>>
    BY <1>10 DEF CompareSnapshots, history, NothingFails
  <2>2. \A m \in Registered(devices) : discovered[m] = 1 \/ <<"device_discovered", m>> \in alerts'
    BY <2>1 DEF ArrivalsInv, Discoveries, Registered, Busy
  <2>3. DeparturesInv'
    BY <2>1 DEF DeparturesInv, Departures, Registered
  <2> QED
    BY <2>1, <2>2, <2>3 DEF ArrivalsInv, Busy
<1>11. ASSUME NEW a \in alerts, FireWebhook(a[1], a[2])
       PROVE  ArrivalsInv' /\ DeparturesInv'
  BY <1>11, FireTimely
<1>12. CASE FinishScan
  BY <1>12 DEF FinishScan, DropLocals, history, ArrivalsInv, DeparturesInv, Busy, Loops
<1>13. CASE SourceRaises \/ DatabaseRaises \/ Stop
  BY <1>13 DEF SourceRaises, DatabaseRaises, Stop, NothingFails
<1>14. CASE Start
  BY <1>14, QuietTimely DEF Start, locals, history, SameCounts
<1>15. CASE Operator
  BY <1>15, OperatorStep, QuietTimely DEF Puts, locals
<1>16. CASE UNCHANGED vars
  BY <1>16, QuietTimely DEF vars, locals, history, SameCounts
<1> QED
  BY <1>1, <1>2, <1>3, <1>4, <1>5, <1>6, <1>7, <1>8, <1>9, <1>10, <1>11, <1>12, <1>13, <1>14,
     <1>15, <1>16
  DEF Next, ScanStep

TimelyInv == NothingFails => ArrivalsInv /\ DeparturesInv

LEMMA TimelyInvHolds == Spec => []TimelyInv
<1>1. Init => TimelyInv
  BY InitTimely DEF TimelyInv
<1>2. TypeInv /\ MergeInv /\ AlertInv /\ TimelyInv /\ [Next]_vars => TimelyInv'
  BY NextTimely DEF TimelyInv
<1> QED
  BY <1>1, <1>2, InitTypeInv, NextTypeInv, InitMergeInv, NextMergeInv, InitAlertInv, NextAlertInv,
     PTL DEF Spec

\* Between two cycles every registered device has been announced, however many came
\* at once and whichever loop of the merge registered it.
THEOREM ArrivalsAreAnnounced == Spec => [](Failures = {} => ArrivalsAnnounced)
<1>1. TimelyInv /\ AlertInv => (Failures = {} => ArrivalsAnnounced)
  BY DEF TimelyInv, NothingFails, ArrivalsInv, ArrivalsAnnounced
<1> QED
  BY <1>1, TimelyInvHolds, AlertInvHolds, PTL

\* And every device that has been missing for Threshold cycles or longer is reported:
\* no counter goes past the threshold without an alert, though it is compared with =.
THEOREM DeparturesAreReported == Spec => [](Failures = {} => DeparturesReported)
<1>1. TimelyInv => (Failures = {} => DeparturesReported)
  BY DEF TimelyInv, NothingFails, DeparturesInv, DeparturesReported
<1> QED
  BY <1>1, TimelyInvHolds, PTL

-----------------------------------------------------------------------------
(* The alerts of a cycle that gets to its end, whatever failed before it.    *)

\* Whose absence this cycle has counted up to the threshold.
Reached ==
  {m \in Registered(pre) \cap Registered(devices) :
     pre[m].disappearance_count < Threshold /\ devices[m].disappearance_count >= Threshold}

Announced(m) == discovered[m] = 1 \/ <<"device_discovered", m>> \in alerts
Reported(m)  == gone[m] = 1 \/ <<"device_gone", m>> \in alerts

\* Before its count a cycle only sets counters back, so the count brings them to the
\* threshold itself, where the comparison finds them.
CountsInv ==
  /\ phase \in Loops \cup {"gather", "hostnet"} =>
       \A m \in Registered(pre) :
         devices[m] # NULL /\ devices[m].disappearance_count \in {0, pre[m].disappearance_count}
  /\ phase = "snapshot" => \A m \in Reached : devices[m].disappearance_count = Threshold
  /\ phase = "alert" /\ AlertWebhook =>
       /\ \A m \in Reached : Reported(m)
       /\ \A m \in Registered(devices) \ Registered(pre) : Announced(m)

LEMMA QuietCounts ==
  ASSUME CountsInv, SameCounts(devices', devices),
         \/ phase' = phase
         \/ phase \in Loops \cup {"gather", "hostnet"} /\ phase' \in Loops \cup {"gather", "hostnet"},
         UNCHANGED <<pre, alerts, discovered, gone>>
  PROVE  CountsInv'
<1>1. Registered(devices') = Registered(devices) /\ Registered(pre') = Registered(pre)
  BY DEF SameCounts, Registered
<1>2. Reached' = Reached
  BY <1>1 DEF Reached, SameCounts, Registered
<1>3. \A m \in MAC : Reported(m)' = Reported(m) /\ Announced(m)' = Announced(m)
  BY DEF Reported, Announced
<1> HIDE DEF Reported, Announced
<1>4. phase' = "snapshot" => phase = "snapshot"
  BY DEF Loops
<1>5. phase' = "alert" => phase = "alert"
  BY DEF Loops
<1>6. phase' \in Loops \cup {"gather", "hostnet"} => phase \in Loops \cup {"gather", "hostnet"}
  OBVIOUS
<1>7. \A m \in MAC : devices[m] # NULL =>
        devices'[m] # NULL /\ devices'[m].disappearance_count = devices[m].disappearance_count
  BY DEF SameCounts
<1>8. Reached \subseteq MAC /\ Registered(devices) \subseteq MAC /\ Registered(pre) \subseteq MAC
  BY DEF Reached, Registered
<1>9. \A m \in Registered(devices) : devices[m] # NULL
  BY DEF Registered
<1>10. Reached \subseteq Registered(devices)
  BY DEF Reached
<1> HIDE DEF Reached
<1> QED
  BY <1>1, <1>2, <1>3, <1>4, <1>5, <1>6, <1>7, <1>8, <1>9, <1>10 DEF CountsInv

\* A sighting sets a counter back.
LEMMA UpsertCounts ==
  ASSUME TypeInv, CountsInv, phase \in Loops, NEW m \in MAC, NEW s \in Sighting, Upsert(m, s)
  PROVE  CountsInv'
<1>1. devices' = UpsertDevice(devices, m, s) /\ UNCHANGED <<phase, pre>>
  BY DEF Upsert
<1>2. /\ devices'[m] # NULL /\ devices'[m].disappearance_count = 0
      /\ \A k \in MAC \ {m} : devices'[k] = devices[k]
  BY <1>1, UpsertFacts DEF TypeInv, TypeOK
<1> QED
  BY <1>1, <1>2 DEF CountsInv, Loops, Registered

LEMMA CountCounts ==
  ASSUME TypeInv, MergeInv, CountsInv, CountMissing
  PROVE  CountsInv'
<1>1. /\ phase = "hostnet" /\ phase' = "snapshot"
      /\ devices' = UpdateDisappearanceCounts(devices, seen)
      /\ UNCHANGED pre
  BY DEF CountMissing, locals
<1>2. ASSUME NEW m \in MAC, pre[m] # NULL, devices'[m] # NULL, pre[m].disappearance_count < Threshold,
             devices'[m].disappearance_count >= Threshold
      PROVE  devices'[m].disappearance_count = Threshold
  <2>1. /\ devices[m] # NULL
        /\ devices'[m].disappearance_count =
             IF m \in seen \/ devices[m].disappearance_count = MaxCount
             THEN devices[m].disappearance_count
             ELSE devices[m].disappearance_count + 1
    BY <1>1, <1>2, CountFacts DEF TypeInv, TypeOK
  <2>2. devices[m].disappearance_count \in {0, pre[m].disappearance_count}
    BY <1>1, <1>2 DEF CountsInv, Registered
  <2>3. pre[m].disappearance_count \in 0..MaxCount
    BY <1>2 DEF TypeInv, TypeOK, Table, Row
  <2>4. Threshold \in Nat /\ Threshold > 0 /\ Threshold < MaxCount /\ MaxCount \in Nat
    BY ScanConstants, TableConstants
  <2> QED
    BY <1>2, <2>1, <2>2, <2>3, <2>4
<1> QED
  BY <1>1, <1>2 DEF CountsInv, Reached, Registered, Loops

LEMMA FireCounts ==
  ASSUME TypeInv, AlertInv, CountsInv, NEW a \in alerts, FireWebhook(a[1], a[2])
  PROVE  CountsInv'
<1> DEFINE m == a[2]
<1>1. m \in MAC /\ a = <<a[1], m>> /\ a[1] \in {"device_discovered", "device_gone"}
  BY DEF TypeInv, TypeOK, Alert
<1>2. /\ phase = "alert" /\ alerts' = alerts \ {a}
      /\ UNCHANGED <<devices, phase, pre>>
  BY <1>1 DEF FireWebhook
<1>3. \A k \in MAC : (Reported(k) => Reported(k)') /\ (Announced(k) => Announced(k)')
  <2>1. CASE a[1] = "device_discovered"
    <3>1. discovered[m] = 0
      BY <1>1, <2>1 DEF AlertInv, AlertsJustified
    <3>2. gone' = gone /\ discovered'[m] = 1 /\ \A k \in MAC \ {m} : discovered'[k] = discovered[k]
      BY <1>1, <2>1, <3>1 DEF FireWebhook, Twice, TypeInv, TypeOK
    <3> HIDE DEF m
    <3> QED
      BY <1>1, <1>2, <2>1, <3>2 DEF Reported, Announced
  <2>2. CASE a[1] = "device_gone"
    <3>1. gone[m] = 0
      BY <1>1, <2>2 DEF AlertInv, AlertsJustified
    <3>2. discovered' = discovered /\ gone'[m] = 1 /\ \A k \in MAC \ {m} : gone'[k] = gone[k]
      BY <1>1, <2>2, <3>1 DEF FireWebhook, Twice, TypeInv, TypeOK
    <3> HIDE DEF m
    <3> QED
      BY <1>1, <1>2, <2>2, <3>2 DEF Reported, Announced
  <2> QED
    BY <1>1, <2>1, <2>2
<1>4. Reached' = Reached /\ Registered(devices') = Registered(devices) /\ Registered(pre') = Registered(pre)
  BY <1>2 DEF Reached, Registered
<1>5. Reached \subseteq MAC /\ Registered(devices) \subseteq MAC
  BY DEF Reached, Registered
<1> HIDE DEF Reached, Reported, Announced
<1> QED
  BY <1>2, <1>3, <1>4, <1>5 DEF CountsInv, Loops

LEMMA NextCounts == TypeInv /\ MergeInv /\ AlertInv /\ CountsInv /\ [Next]_vars => CountsInv'
<1> SUFFICES ASSUME TypeInv, MergeInv, AlertInv, CountsInv, [Next]_vars PROVE CountsInv'
  OBVIOUS
<1>1. CASE StartScan
  BY <1>1 DEF StartScan, CountsInv, Registered
<1>2. CASE Gather
  BY <1>2, QuietCounts DEF Gather, history, SameCounts, Loops
<1>3. ASSUME NEW m \in MAC,
             MergeArp(m) \/ MergeProxmox(m) \/ MergeNdp(m) \/ MergeDocker(m)
      PROVE  CountsInv'
  BY <1>3, UpsertStep, UpsertCounts
<1>4. CASE NameDevice
  BY <1>4, NameDeviceStep, QuietCounts DEF NameDevice, history
<1>5. CASE NextLoop
  <2>1. /\ phase \in Loops /\ phase' \in Loops
        /\ UNCHANGED <<devices, pre, alerts, discovered, gone>>
    BY <1>5 DEF NextLoop, EnterLoop, Loops, history
  <2> QED
    BY <2>1, QuietCounts DEF SameCounts
<1>6. CASE CollectHostNet
  BY <1>6, QuietCounts DEF CollectHostNet, SameCounts, Loops, history
<1>7. ASSUME NEW m \in MAC, ReadHostMetadata(m)
      PROVE  CountsInv'
  BY <1>7, QuietCounts DEF ReadHostMetadata, SameCounts, history
<1>8. CASE WriteHostMetadata
  BY <1>8, WriteHostStep, QuietCounts DEF WriteHostMetadata, history
<1>9. CASE CountMissing
  BY <1>9, CountCounts
<1>10. CASE CompareSnapshots
  <2>1. /\ phase = "snapshot" /\ phase' = "alert" /\ UNCHANGED <<devices, pre, discovered, gone>>
    BY <1>10 DEF CompareSnapshots, history
  <2>2. ASSUME AlertWebhook, NEW m \in Reached
        PROVE  <<"device_gone", m>> \in alerts'
    BY <1>10, <2>1, <2>2 DEF CompareSnapshots, CountsInv, Departures, Reached, Registered
  <2>3. ASSUME AlertWebhook, NEW m \in Registered(devices) \ Registered(pre)
        PROVE  <<"device_discovered", m>> \in alerts'
    BY <1>10, <2>3 DEF CompareSnapshots, Discoveries, Registered
  <2>4. Reached' = Reached /\ Registered(devices') = Registered(devices) /\ Registered(pre') = Registered(pre)
    BY <2>1 DEF Reached, Registered
  <2> QED
    BY <2>1, <2>2, <2>3, <2>4 DEF CountsInv, Reported, Announced, Loops
<1>11. ASSUME NEW a \in alerts, FireWebhook(a[1], a[2])
       PROVE  CountsInv'
  BY <1>11, FireCounts
<1>12. CASE FinishScan \/ SourceRaises \/ DatabaseRaises \/ Stop \/ Start
  BY <1>12 DEF FinishScan, SourceRaises, DatabaseRaises, Abandon, Stop, Start, CountsInv, Loops
<1>13. CASE Operator
  BY <1>13, OperatorStep, QuietCounts DEF Puts, locals
<1>14. CASE UNCHANGED vars
  BY <1>14, QuietCounts DEF vars, locals, history, SameCounts
<1> QED
  BY <1>1, <1>2, <1>3, <1>4, <1>5, <1>6, <1>7, <1>8, <1>9, <1>10, <1>11, <1>12, <1>13, <1>14
  DEF Next, ScanStep

\* A cycle that gets to its end has announced all that it added and reported all whose
\* absence it counted up to the threshold, whatever failed in earlier cycles: it is only
\* a cycle cut short that loses alerts, and it loses its own.
THEOREM CompletedCyclesAlert == Spec => CompletedCycleAlerts
<1>1. Init => CountsInv
  BY DEF Init, CountsInv, Loops
<1>2. CountsInv /\ [Next]_vars =>
        [FinishScan /\ AlertWebhook =>
           \A m \in Registered(devices) :
             IF pre[m] = NULL THEN discovered[m] = 1
             ELSE pre[m].disappearance_count < Threshold
                    /\ devices[m].disappearance_count >= Threshold => gone[m] = 1]_vars
  <2>1. ASSUME CountsInv, FinishScan, AlertWebhook, NEW m \in Registered(devices)
        PROVE  IF pre[m] = NULL THEN discovered[m] = 1
               ELSE pre[m].disappearance_count < Threshold
                      /\ devices[m].disappearance_count >= Threshold => gone[m] = 1
    <3>1. phase = "alert" /\ alerts = {} /\ m \in MAC /\ devices[m] # NULL
      BY <2>1 DEF FinishScan, Registered
    <3>2. CASE pre[m] = NULL
      <4>1. m \in Registered(devices) \ Registered(pre)
        BY <2>1, <3>2 DEF Registered
      <4> QED
        BY <2>1, <3>1, <3>2, <4>1 DEF CountsInv, Announced
    <3>3. CASE pre[m] # NULL /\ m \in Reached
      BY <2>1, <3>1, <3>3 DEF CountsInv, Reported
    <3>4. CASE pre[m] # NULL /\ m \notin Reached
      BY <3>1, <3>4 DEF Reached, Registered
    <3> QED
      BY <3>2, <3>3, <3>4
  <2> QED
    BY <2>1
<1> QED
  BY <1>1, <1>2, InitTypeInv, NextTypeInv, InitMergeInv, NextMergeInv, InitAlertInv, NextAlertInv,
     NextCounts, PTL DEF Spec, CompletedCycleAlerts

-----------------------------------------------------------------------------
(* What the merge writes.  Each loop writes a device at most once, so what  *)
(* a row says is known from the loops that have come past it: what it said  *)
(* when the cycle began, what the network's sources say of the device, or   *)
(* what all of them do; and then the host-network containers are added.     *)

NetworkLoops == {"arp", "proxmox", "ndp"}

\* A loop's key that it has upserted.
Done(loop, m) ==
  /\ m \in LoopKeys(loop, obs)
  /\ loop \in LoopsBefore(phase) \/ (phase = loop /\ m \notin todo)

\* What is known without Docker.
Undocked(o) == [o EXCEPT !.docker = [m \in MAC |-> NULL]]

Says(row, o, m, metadata) ==
  /\ row # NULL
  /\ row.ip = ExpectedIp(o, m)
  /\ row.ipv6 = Coalesce(o.ndp[m], Was(m, "ipv6", NULL))
  /\ row.device_type = ExpectedType(o, m)
  /\ row.metadata = metadata

LoopRow(m) ==
  IF Done("docker", m) THEN Says(devices[m], obs, m, ExpectedMetadata(obs, m))
  ELSE IF \E loop \in NetworkLoops : Done(loop, m)
       THEN Says(devices[m], Undocked(obs), m, ExpectedMetadata(Undocked(obs), m))
       ELSE SameSighting(devices[m], pre[m])

LoopRows == phase \in Loops => \A m \in MAC : LoopRow(m)

\* A host that has been given its containers.
HostMerged(m) ==
  hostnet[m] # {} /\ (Counted \/ m \notin todo \cup {current})

MergedRow(m) ==
  IF Observed(obs, m)
  THEN Says(devices[m], obs, m,
            IF HostMerged(m) THEN MergedMetadata(ExpectedMetadata(obs, m), hostnet[m])
            ELSE ExpectedMetadata(obs, m))
  ELSE SameSighting(devices[m], pre[m])

MergedRows == phase = "hostnet" \/ Counted => \A m \in MAC : MergedRow(m)

\* The containers go to hosts in the ARP map, each host once, and between the read
\* of its metadata and the write nobody else writes it.
HostsInv ==
  /\ phase = "hostnet" \/ Counted =>
       \E owner \in IpToMac(obs) : hostnet = HostNetContainers(obs, owner)
  /\ phase = "hostnet" => \A m \in todo \cup ({current} \ {NULL}) : hostnet[m] # {}
  /\ phase = "hostnet" /\ current # NULL =>
       current \notin todo /\ existing = devices[current].metadata

\* Nothing has been merged yet; the operator may already have written.
GatherRows == phase = "gather" => \A m \in MAC : SameSighting(devices[m], pre[m])

RowsInv == GatherRows /\ LoopRows /\ MergedRows /\ HostsInv

LEMMA UndockedFacts ==
  ASSUME NEW o \in Observation
  PROVE  /\ Undocked(o).arp = o.arp /\ Undocked(o).nmap = o.nmap /\ Undocked(o).snmp = o.snmp
         /\ Undocked(o).proxmox = o.proxmox /\ Undocked(o).ndp = o.ndp
         /\ \A m \in MAC : Undocked(o).docker[m] = NULL
BY DEF Undocked, Observation

\* It makes no difference to who is not Docker's.
LEMMA UndockedSame ==
  ASSUME NEW o \in Observation, NEW m \in MAC, o.docker[m] = NULL
  PROVE  \A row : Says(row, Undocked(o), m, ExpectedMetadata(Undocked(o), m))
                    => Says(row, o, m, ExpectedMetadata(o, m))
<1>1. GuestMetadata(Undocked(o), m) = GuestMetadata(o, m)
  BY UndockedFacts DEF GuestMetadata
<1>2. ExpectedMetadata(Undocked(o), m) = ExpectedMetadata(o, m)
  BY <1>1, UndockedFacts DEF ExpectedMetadata
<1>3. ExpectedIp(Undocked(o), m) = ExpectedIp(o, m)
  BY UndockedFacts DEF ExpectedIp
<1>4. ExpectedType(Undocked(o), m) = ExpectedType(o, m)
  BY UndockedFacts DEF ExpectedType
<1> QED
  BY <1>2, <1>3, <1>4, UndockedFacts DEF Says

\* An upsert writes what its sighting says over what the row said.
LEMMA UpsertSays ==
  ASSUME NEW table \in Table, pre \in Table, NEW m \in MAC, NEW s \in Sighting,
         SameSighting(table[m], pre[m])
  PROVE  LET new == UpsertDevice(table, m, s)[m]
         IN  /\ new # NULL
             /\ new.ip = Coalesce(s.ip, Was(m, "ip", NULL))
             /\ new.ipv6 = Coalesce(s.ipv6, Was(m, "ipv6", NULL))
             /\ new.device_type = s.device_type
             /\ new.metadata = Coalesce(s.metadata, Was(m, "metadata", NULL))
BY UpsertFacts, UpsertWrites DEF SameSighting, Was

\* Of the three loops of the network's sources, each writes what they all say of the
\* devices it is for.
LEMMA ArpSays ==
  ASSUME NEW o \in Observation, NEW table \in Table, pre \in Table, NEW m \in LoopKeys("arp", o),
         SameSighting(table[m], pre[m])
  PROVE  Says(UpsertDevice(table, m, ArpSighting(o, m))[m], Undocked(o), m,
              ExpectedMetadata(Undocked(o), m))
<1> DEFINE s == ArpSighting(o, m)
           new == UpsertDevice(table, m, s)[m]
           entry == ArpMap(o)[m]
           base_meta == [GuestMetadata(o, m) EXCEPT !.vlan = entry.intf]
<1>1. m \in MAC /\ m \in Keys(ArpMap(o))
  BY LoopKeysType DEF LoopKeys
<1>2. s \in Sighting
  BY <1>1, SightingType
<1>3. /\ new # NULL
      /\ new.ip = Coalesce(s.ip, Was(m, "ip", NULL))
      /\ new.ipv6 = Coalesce(s.ipv6, Was(m, "ipv6", NULL))
      /\ new.device_type = s.device_type
      /\ new.metadata = Coalesce(s.metadata, Was(m, "metadata", NULL))
  BY <1>1, <1>2, UpsertSays
<1>4. /\ s.ip = entry.ip
      /\ s.ipv6 = o.ndp[m]
      /\ s.device_type = IF o.proxmox[m] = NULL THEN "bare-metal" ELSE o.proxmox[m].type
      /\ s.metadata = IF base_meta = EmptyMetadata THEN NULL ELSE base_meta
  BY DEF ArpSighting
<1>5. entry \in ArpEntry /\ entry.ip \in IP /\ entry.ip # NULL
  BY <1>1, ArpMapType, TableConstants DEF Keys, ArpEntry
<1>6. /\ entry.intf = IF o.arp[m] = NULL THEN NULL ELSE o.arp[m].intf
      /\ entry.ip = IF o.arp[m] # NULL THEN o.arp[m].ip
                    ELSE IF o.nmap[m] # NULL THEN o.nmap[m] ELSE o.snmp[m]
      /\ o.arp[m] # NULL \/ o.nmap[m] # NULL \/ o.snmp[m] # NULL
  <2>1. o.arp[m] # NULL \/ o.nmap[m] # NULL \/ o.snmp[m] # NULL
    BY <1>1, ArpMapKeys
  <2>2. CASE o.arp[m] # NULL
    BY <1>1, <2>2 DEF ArpMap
  <2>3. CASE o.arp[m] = NULL
    <3>1. Coalesce(o.nmap[m], o.snmp[m]) # NULL
      BY <2>1, <2>3 DEF Coalesce
    <3>2. entry = [ip |-> Coalesce(o.nmap[m], o.snmp[m]), intf |-> NULL]
      BY <1>1, <2>3, <3>1 DEF ArpMap
    <3> QED
      BY <2>1, <2>3, <3>2 DEF Coalesce
  <2> QED
    BY <2>1, <2>2, <2>3
<1>7. base_meta # NULL
  <2>1. GuestMetadata(o, m) \in Metadata
    BY <1>1, TableConstants DEF GuestMetadata, EmptyMetadata, Metadata, Observation, ProxmoxInfo
  <2>2. base_meta \in Metadata
    BY <1>5, <2>1 DEF Metadata, ArpEntry
  <2> QED
    BY <2>2, TableConstants
<1>8. GuestMetadata(Undocked(o), m) = GuestMetadata(o, m)
  BY UndockedFacts DEF GuestMetadata
<1>9. ExpectedMetadata(Undocked(o), m) =
        IF base_meta # EmptyMetadata THEN base_meta ELSE Was(m, "metadata", NULL)
  BY <1>1, <1>6, <1>8, UndockedFacts DEF ExpectedMetadata
<1>10. ExpectedIp(Undocked(o), m) = entry.ip
  BY <1>1, <1>6, UndockedFacts DEF ExpectedIp
<1>11. ExpectedType(Undocked(o), m) = s.device_type
  BY <1>1, <1>4, UndockedFacts DEF ExpectedType
<1> HIDE DEF s, new, entry, base_meta
<1>12. Says(new, Undocked(o), m, ExpectedMetadata(Undocked(o), m))
  BY <1>3, <1>4, <1>5, <1>7, <1>9, <1>10, <1>11, UndockedFacts DEF Says, Coalesce
<1> QED
  BY <1>12 DEF new, s

\* A guest's metadata is there, and says nothing but the guest.
LEMMA GuestMetadataFacts ==
  ASSUME NEW o \in Observation, NEW m \in MAC
  PROVE  /\ GuestMetadata(o, m) \in Metadata
         /\ GuestMetadata(o, m).vlan = NULL
         /\ [GuestMetadata(o, m) EXCEPT !.vlan = NULL] = GuestMetadata(o, m)
         /\ o.proxmox[m] = NULL => GuestMetadata(o, m) = EmptyMetadata
         /\ o.proxmox[m] # NULL => GuestMetadata(o, m) # EmptyMetadata
<1>1. EmptyMetadata \in Metadata /\ EmptyMetadata.vlan = NULL /\ EmptyMetadata.guest = NULL
  BY DEF EmptyMetadata, Metadata
<1>2. CASE o.proxmox[m] = NULL
  <2>1. GuestMetadata(o, m) = EmptyMetadata
    BY <1>2 DEF GuestMetadata
  <2> QED
    BY <1>1, <1>2, <2>1 DEF Metadata
<1>3. CASE o.proxmox[m] # NULL
  <2>1. o.proxmox[m].guest \in Guest /\ o.proxmox[m].guest # NULL
    BY <1>3, TableConstants DEF Observation, ProxmoxInfo
  <2>2. GuestMetadata(o, m) = [EmptyMetadata EXCEPT !.guest = o.proxmox[m].guest]
    BY <1>3 DEF GuestMetadata
  <2>3. ASSUME NEW g \in Guest, NEW e \in Metadata
        PROVE  /\ [e EXCEPT !.guest = g] \in Metadata
               /\ [e EXCEPT !.guest = g].guest = g
               /\ [e EXCEPT !.guest = g].vlan = e.vlan
    BY DEF Metadata
  <2>4. ASSUME NEW e \in Metadata, e.vlan = NULL
        PROVE  [e EXCEPT !.vlan = NULL] = e
    BY <2>4 DEF Metadata
  <2>5. /\ GuestMetadata(o, m) \in Metadata
        /\ GuestMetadata(o, m).guest = o.proxmox[m].guest
        /\ GuestMetadata(o, m).vlan = NULL
    BY <1>1, <2>1, <2>2, <2>3
  <2>6. GuestMetadata(o, m) # EmptyMetadata
    BY <1>1, <2>1, <2>5
  <2>7. [GuestMetadata(o, m) EXCEPT !.vlan = NULL] = GuestMetadata(o, m)
    BY <2>4, <2>5
  <2> QED
    BY <1>3, <2>5, <2>6, <2>7
<1> QED
  BY <1>2, <1>3

LEMMA ProxmoxSays ==
  ASSUME NEW o \in Observation, NEW table \in Table, pre \in Table,
         NEW m \in LoopKeys("proxmox", o), SameSighting(table[m], pre[m])
  PROVE  Says(UpsertDevice(table, m, ProxmoxSighting(o, m))[m], Undocked(o), m,
              ExpectedMetadata(Undocked(o), m))
<1> DEFINE s == ProxmoxSighting(o, m)
           new == UpsertDevice(table, m, s)[m]
<1>1. /\ m \in MAC /\ o.proxmox[m] # NULL
      /\ o.arp[m] = NULL /\ o.nmap[m] = NULL /\ o.snmp[m] = NULL
  <2>1. m \in MAC /\ m \in Keys(o.proxmox) /\ m \notin Keys(ArpMap(o))
    BY LoopKeysType DEF LoopKeys
  <2> QED
    BY <2>1, ArpMapKeys DEF Keys
<1>2. s \in Sighting
  BY <1>1, SightingType
<1>3. /\ new # NULL
      /\ new.ip = Coalesce(s.ip, Was(m, "ip", NULL))
      /\ new.ipv6 = Coalesce(s.ipv6, Was(m, "ipv6", NULL))
      /\ new.device_type = s.device_type
      /\ new.metadata = Coalesce(s.metadata, Was(m, "metadata", NULL))
  BY <1>1, <1>2, UpsertSays
<1>4. /\ s.ip = o.proxmox[m].ip
      /\ s.ipv6 = o.ndp[m]
      /\ s.device_type = o.proxmox[m].type
      /\ s.metadata = GuestMetadata(o, m)
  BY DEF ProxmoxSighting
<1>5. /\ GuestMetadata(o, m) # NULL
      /\ GuestMetadata(o, m) # EmptyMetadata
      /\ [GuestMetadata(o, m) EXCEPT !.vlan = NULL] = GuestMetadata(o, m)
  BY <1>1, GuestMetadataFacts, TableConstants
<1>6. GuestMetadata(Undocked(o), m) = GuestMetadata(o, m)
  BY UndockedFacts DEF GuestMetadata
<1>7. ExpectedMetadata(Undocked(o), m) = GuestMetadata(o, m)
  BY <1>1, <1>5, <1>6, UndockedFacts DEF ExpectedMetadata
<1>8. ExpectedIp(Undocked(o), m) = Coalesce(s.ip, Was(m, "ip", NULL))
  BY <1>1, <1>4, UndockedFacts DEF ExpectedIp, Coalesce
<1>9. ExpectedType(Undocked(o), m) = s.device_type
  BY <1>1, <1>4, UndockedFacts DEF ExpectedType
<1> HIDE DEF s, new
<1>10. Says(new, Undocked(o), m, ExpectedMetadata(Undocked(o), m))
  BY <1>3, <1>4, <1>5, <1>7, <1>8, <1>9, UndockedFacts DEF Says, Coalesce
<1> QED
  BY <1>10 DEF new, s

LEMMA NdpSays ==
  ASSUME NEW o \in Observation, NEW table \in Table, pre \in Table, NEW m \in LoopKeys("ndp", o),
         SameSighting(table[m], pre[m])
  PROVE  Says(UpsertDevice(table, m, NdpSighting(o, m))[m], Undocked(o), m,
              ExpectedMetadata(Undocked(o), m))
<1> DEFINE s == NdpSighting(o, m)
           new == UpsertDevice(table, m, s)[m]
<1>1. /\ m \in MAC /\ o.proxmox[m] = NULL
      /\ o.arp[m] = NULL /\ o.nmap[m] = NULL /\ o.snmp[m] = NULL
  <2>1. m \in MAC /\ m \notin Keys(o.proxmox) /\ m \notin Keys(ArpMap(o))
    BY LoopKeysType DEF LoopKeys
  <2>2. DOMAIN o.proxmox = MAC
    BY DEF Observation
  <2> QED
    BY <2>1, <2>2, ArpMapKeys DEF Keys
<1>2. s \in Sighting
  BY <1>1, SightingType
<1>3. /\ new # NULL
      /\ new.ip = Coalesce(s.ip, Was(m, "ip", NULL))
      /\ new.ipv6 = Coalesce(s.ipv6, Was(m, "ipv6", NULL))
      /\ new.device_type = s.device_type
      /\ new.metadata = Coalesce(s.metadata, Was(m, "metadata", NULL))
  BY <1>1, <1>2, UpsertSays
<1>4. s.ip = NULL /\ s.ipv6 = o.ndp[m] /\ s.device_type = "bare-metal" /\ s.metadata = NULL
  BY DEF NdpSighting
<1>5. GuestMetadata(Undocked(o), m) = GuestMetadata(o, m)
  BY UndockedFacts DEF GuestMetadata
<1>6. ExpectedMetadata(Undocked(o), m) = Was(m, "metadata", NULL)
  BY <1>1, <1>5, GuestMetadataFacts, UndockedFacts DEF ExpectedMetadata
<1>7. ExpectedIp(Undocked(o), m) = Was(m, "ip", NULL)
  BY <1>1, UndockedFacts DEF ExpectedIp
<1>8. ExpectedType(Undocked(o), m) = "bare-metal"
  BY <1>1, UndockedFacts DEF ExpectedType
<1> HIDE DEF s, new
<1>9. Says(new, Undocked(o), m, ExpectedMetadata(Undocked(o), m))
  BY <1>3, <1>4, <1>6, <1>7, <1>8, UndockedFacts DEF Says, Coalesce
<1> QED
  BY <1>9 DEF new, s

\* Docker's loop comes last, and has the last word on all but the IPv6 address.
LEMMA DockerSays ==
  ASSUME NEW o \in Observation, NEW table \in Table, pre \in Table, NEW m \in LoopKeys("docker", o),
         \/ Says(table[m], Undocked(o), m, ExpectedMetadata(Undocked(o), m))
         \/ SameSighting(table[m], pre[m]) /\ o.ndp[m] = NULL
  PROVE  Says(UpsertDevice(table, m, DockerSighting(o, m))[m], o, m, ExpectedMetadata(o, m))
<1> DEFINE s == DockerSighting(o, m)
           new == UpsertDevice(table, m, s)[m]
           metadata == [EmptyMetadata EXCEPT !.container = o.docker[m].container]
<1>1. m \in MAC /\ o.docker[m] # NULL
  <2>1. m \in MAC /\ m \in Keys(o.docker)
    BY LoopKeysType DEF LoopKeys
  <2> QED
    BY <2>1 DEF Keys
<1>2. s \in Sighting
  BY <1>1, SightingType
<1>3. /\ s.ip = o.docker[m].ip /\ s.ip # NULL
      /\ s.ipv6 = NULL
      /\ s.device_type = "docker-container"
      /\ s.metadata = metadata /\ metadata # NULL
  <2>1. o.docker[m] \in DockerInfo
    BY <1>1 DEF Observation
  <2>2. EmptyMetadata \in Metadata
    BY DEF EmptyMetadata, Metadata
  <2>3. metadata \in Metadata
    BY <2>1, <2>2 DEF Metadata, DockerInfo
  <2> QED
    BY <2>1, <2>3, TableConstants DEF DockerSighting, DockerInfo
<1>4. /\ new # NULL
      /\ new.ip = s.ip
      /\ new.device_type = s.device_type
      /\ new.metadata = s.metadata
  BY <1>1, <1>2, <1>3, UpsertFacts, UpsertWrites DEF Coalesce
<1>5. new.ipv6 = Coalesce(o.ndp[m], Was(m, "ipv6", NULL))
  <2>1. new.ipv6 = IF table[m] = NULL THEN NULL ELSE table[m].ipv6
    BY <1>1, <1>2, <1>3, UpsertWrites DEF Coalesce
  <2>2. CASE Says(table[m], Undocked(o), m, ExpectedMetadata(Undocked(o), m))
    BY <2>1, <2>2, UndockedFacts DEF Says
  <2>3. CASE SameSighting(table[m], pre[m]) /\ o.ndp[m] = NULL
    BY <2>1, <2>3 DEF SameSighting, Was, Coalesce
  <2> QED
    BY <2>2, <2>3
<1>6. ExpectedIp(o, m) = s.ip /\ ExpectedType(o, m) = s.device_type
  BY <1>1, <1>3 DEF ExpectedIp, ExpectedType
<1>7. ExpectedMetadata(o, m) = s.metadata
  BY <1>1, <1>3 DEF ExpectedMetadata
<1> HIDE DEF s, new, metadata
<1>8. Says(new, o, m, ExpectedMetadata(o, m))
  BY <1>4, <1>5, <1>6, <1>7 DEF Says
<1> QED
  BY <1>8 DEF new, s

-----------------------------------------------------------------------------
(* The steps of the merge. *)

\* What a row should say depends on the observation and on the snapshot only.
LEMMA SaysKept ==
  ASSUME pre' = pre
  PROVE  /\ \A row, o, m, metadata : Says(row, o, m, metadata)' <=> Says(row, o, m, metadata)
         /\ \A o, m : ExpectedMetadata(o, m)' = ExpectedMetadata(o, m)
<1>1. \A m, c, default : Was(m, c, default)' = Was(m, c, default)
  BY DEF Was
<1>2. \A o, m : ExpectedIp(o, m)' = ExpectedIp(o, m)
  BY <1>1 DEF ExpectedIp
<1>3. \A o, m : ExpectedMetadata(o, m)' = ExpectedMetadata(o, m)
  BY <1>1 DEF ExpectedMetadata
<1>4. \A row, o, m, metadata : Says(row, o, m, metadata)' <=> Says(row, o, m, metadata)
  BY <1>1, <1>2 DEF Says
<1> QED
  BY <1>3, <1>4

\* A row that says the same.
LEMMA SaysSame ==
  ASSUME NEW new, NEW old, SameSighting(new, old)
  PROVE  /\ \A o, m, metadata : Says(old, o, m, metadata) => Says(new, o, m, metadata)
         /\ \A before : SameSighting(old, before) => SameSighting(new, before)
BY DEF SameSighting, Says

LEMMA InitRows == Init => RowsInv
BY DEF Init, RowsInv, GatherRows, LoopRows, MergedRows, HostsInv, Loops, Counted

\* What ends a cycle, or happens outside of one.
LEMMA IdleRows ==
  ASSUME phase' \in {"idle", "down"}
  PROVE  RowsInv'
BY DEF RowsInv, GatherRows, LoopRows, MergedRows, HostsInv, Loops, Counted

\* What writes none of the columns a sighting carries, and is no step of the loops.
LEMMA QuietRows ==
  ASSUME TypeInv, RowsInv, \A k \in MAC : SameSighting(devices'[k], devices[k]),
         \/ phase' = phase
         \/ Counted /\ Counted'
         \/ phase = "hostnet" /\ LoopDone /\ Counted',
         UNCHANGED <<pre, obs, todo, existing, hostnet>>,
         current' = current \/ phase \in Loops
  PROVE  RowsInv'
<1>1. LoopRows'
  <2> SUFFICES ASSUME phase' \in Loops, NEW m \in MAC
               PROVE  LoopRow(m)'
    BY DEF LoopRows
  <2>1. phase' = phase /\ phase \in Loops
    BY DEF Loops, Counted
  <2>2. \A loop : Done(loop, m)' <=> Done(loop, m)
    BY <2>1 DEF Done
  <2> QED
    BY <2>1, <2>2, SaysKept, SaysSame DEF RowsInv, LoopRows, LoopRow
<1>2. HostsInv'
  BY DEF RowsInv, HostsInv, Counted, Loops, LoopDone, TypeInv, TypeOK, SameSighting
<1>3. MergedRows'
  <2> SUFFICES ASSUME phase' = "hostnet" \/ Counted', NEW m \in MAC
               PROVE  MergedRow(m)'
    BY DEF MergedRows
  <2>1. (phase = "hostnet" \/ Counted) /\ (HostMerged(m)' <=> HostMerged(m))
    BY NullNoMac DEF HostMerged, Counted, LoopDone, Loops
  <2>2. Observed(obs, m)' <=> Observed(obs, m)
    BY DEF Observed
  <2> QED
    BY <2>1, <2>2, SaysKept, SaysSame DEF RowsInv, MergedRows, MergedRow
<1>4. GatherRows'
  BY SaysSame DEF RowsInv, GatherRows, Counted
<1> QED
  BY <1>1, <1>2, <1>3, <1>4 DEF RowsInv

\* A device is a key of one of the network's loops at most, and of one if a source
\* of theirs shows it.
LEMMA LoopsAreDisjoint ==
  ASSUME NEW o \in Observation, NEW m \in MAC
  PROVE  /\ m \in LoopKeys("proxmox", o) => m \notin LoopKeys("arp", o)
         /\ m \in LoopKeys("ndp", o) => m \notin LoopKeys("arp", o) /\ m \notin LoopKeys("proxmox", o)
         /\ o.ndp[m] # NULL => \E loop \in NetworkLoops : m \in LoopKeys(loop, o)
<1>1. o.ndp[m] # NULL => m \in Keys(o.ndp)
  BY DEF Keys, Observation
<1> QED
  BY <1>1 DEF LoopKeys, NetworkLoops

LEMMA UpsertRows ==
  ASSUME TypeInv, RowsInv, NEW m \in MAC,
         MergeArp(m) \/ MergeProxmox(m) \/ MergeNdp(m) \/ MergeDocker(m)
  PROVE  RowsInv'
<1> DEFINE s == IF phase = "arp" THEN ArpSighting(obs, m)
                ELSE IF phase = "proxmox" THEN ProxmoxSighting(obs, m)
                ELSE IF phase = "ndp" THEN NdpSighting(obs, m)
                ELSE DockerSighting(obs, m)
<1>1. /\ phase \in Loops /\ m \in todo /\ todo' = todo \ {m}
      /\ devices' = UpsertDevice(devices, m, s)
      /\ UNCHANGED <<phase, pre, obs, existing, hostnet>>
  BY DEF MergeArp, MergeProxmox, MergeNdp, MergeDocker, Upsert, Loops
<1>2. /\ m \in LoopKeys(phase, obs)
      /\ obs \in Observation /\ devices \in Table /\ pre \in Table
  BY <1>1 DEF TypeInv, TypeOK, LoopsTyped
<1>3. s \in Sighting
  BY <1>1, <1>2, SightingType DEF Loops
<1>4. \A k \in MAC \ {m} : devices'[k] = devices[k]
  BY <1>1, <1>2, <1>3, UpsertFacts
<1>5. /\ Done(phase, m)' /\ ~Done(phase, m)
      /\ \A loop : loop # phase => (Done(loop, m)' <=> Done(loop, m))
      /\ \A loop, k : k # m => (Done(loop, k)' <=> Done(loop, k))
  BY <1>1, <1>2 DEF Done, LoopsBefore, Loops
<1>6. ASSUME NEW k \in MAC \ {m}
      PROVE  LoopRow(k)'
  BY <1>1, <1>4, <1>5, SaysKept DEF RowsInv, LoopRows, LoopRow
<1>7. CASE phase # "docker"
  <2>1. phase \in NetworkLoops
    BY <1>1, <1>7 DEF Loops, NetworkLoops
  <2>2. ~Done("docker", m) /\ \A loop \in NetworkLoops : ~Done(loop, m)
    BY <1>1, <1>2, <1>5, <2>1, LoopsAreDisjoint DEF Done, LoopsBefore, NetworkLoops
  <2>3. SameSighting(devices[m], pre[m])
    BY <1>1, <2>2 DEF RowsInv, LoopRows, LoopRow
  <2>4. Says(devices'[m], Undocked(obs), m, ExpectedMetadata(Undocked(obs), m))
    BY <1>1, <1>2, <2>1, <2>3, ArpSays, ProxmoxSays, NdpSays DEF NetworkLoops
  <2>5. LoopRow(m)'
    <3>1. ~Done("docker", m)' /\ \E loop \in NetworkLoops : Done(loop, m)'
      BY <1>1, <1>5, <1>7, <2>1, <2>2
    <3>2. Undocked(obs)' = Undocked(obs)
      BY <1>1 DEF Undocked
    <3> QED
      BY <1>1, <2>4, <3>1, <3>2, SaysKept DEF LoopRow
  <2> QED
    BY <1>1, <1>6, <2>5 DEF RowsInv, GatherRows, LoopRows, MergedRows, HostsInv, Counted, Loops
<1>8. CASE phase = "docker"
  <2>1. Says(devices[m], Undocked(obs), m, ExpectedMetadata(Undocked(obs), m))
        \/ (SameSighting(devices[m], pre[m]) /\ obs.ndp[m] = NULL)
    <3>1. \A loop \in NetworkLoops : Done(loop, m) <=> m \in LoopKeys(loop, obs)
      BY <1>8 DEF Done, LoopsBefore, NetworkLoops
    <3>2. ~Done("docker", m)
      BY <1>5, <1>8
    <3> QED
      BY <1>1, <1>2, <3>1, <3>2, LoopsAreDisjoint DEF RowsInv, LoopRows, LoopRow
  <2>2. Says(devices'[m], obs, m, ExpectedMetadata(obs, m))
    BY <1>1, <1>2, <1>8, <2>1, DockerSays
  <2>3. LoopRow(m)'
    BY <1>1, <1>5, <1>8, <2>2, SaysKept DEF LoopRow
  <2> QED
    BY <1>1, <1>6, <1>8, <2>3 DEF RowsInv, GatherRows, LoopRows, MergedRows, HostsInv, Counted, Loops
<1> QED
  BY <1>7, <1>8

\* From loop to loop: the next one has done none of its keys.
LEMMA NextLoopRows ==
  ASSUME TypeInv, RowsInv, NextLoop
  PROVE  RowsInv'
<1>1. ASSUME NEW from \in Loops, NEW to \in Loops, EnterLoop(from, to),
             LoopsBefore(to) = LoopsBefore(from) \cup {from}, to \notin LoopsBefore(to)
      PROVE  RowsInv'
  <2>1. /\ phase = from /\ phase' = to /\ todo = {} /\ todo' = LoopKeys(to, obs)
        /\ UNCHANGED <<devices, pre, obs, hostnet, existing>>
    BY <1>1 DEF EnterLoop, LoopDone
  <2>2. \A loop, m : Done(loop, m)' <=> Done(loop, m)
    BY <1>1, <2>1 DEF Done
  <2>3. Undocked(obs)' = Undocked(obs)
    BY <2>1 DEF Undocked
  <2>4. \A m \in MAC : LoopRow(m)'
    BY <2>1, <2>2, <2>3, SaysKept DEF RowsInv, LoopRows, LoopRow
  <2> QED
    BY <2>1, <2>4 DEF RowsInv, GatherRows, LoopRows, MergedRows, HostsInv, Counted, Loops
<1>2. /\ LoopsBefore("proxmox") = LoopsBefore("arp") \cup {"arp"}
      /\ LoopsBefore("ndp") = LoopsBefore("proxmox") \cup {"proxmox"}
      /\ LoopsBefore("docker") = LoopsBefore("ndp") \cup {"ndp"}
      /\ "proxmox" \notin LoopsBefore("proxmox") /\ "ndp" \notin LoopsBefore("ndp")
      /\ "docker" \notin LoopsBefore("docker")
  BY DEF LoopsBefore
<1> QED
  BY <1>1, <1>2 DEF NextLoop, Loops

\* All loops are done: who is shown has been written, by the last loop it is a key of.
LEMMA CollectRows ==
  ASSUME TypeInv, RowsInv, CollectHostNet
  PROVE  RowsInv'
<1>1. /\ phase = "docker" /\ phase' = "hostnet" /\ todo = {} /\ current = NULL /\ current' = NULL
      /\ todo' = {m \in MAC : hostnet'[m] # {}}
      /\ \E owner \in IpToMac(obs) : hostnet' = HostNetContainers(obs, owner)
      /\ UNCHANGED <<devices, pre, obs>>
  BY DEF CollectHostNet, LoopDone
<1>2. obs \in Observation
  BY DEF TypeInv, TypeOK
<1>3. IpToMac(obs)' = IpToMac(obs) /\ \A owner : HostNetContainers(obs, owner)' = HostNetContainers(obs, owner)
  BY <1>1 DEF IpToMac, HostNetContainers
<1>4. HostsInv'
  BY <1>1, <1>3 DEF HostsInv, Counted
<1>5. ASSUME NEW m \in MAC
      PROVE  MergedRow(m)'
  <2>1. ~HostMerged(m)'
    BY <1>1 DEF HostMerged, Counted
  <2>2. LoopRow(m)
    BY <1>1 DEF RowsInv, LoopRows, Loops
  <2>3. \A loop \in Loops : Done(loop, m) <=> m \in LoopKeys(loop, obs)
    BY <1>1 DEF Done, LoopsBefore, Loops
  <2>4. Observed(obs, m) <=> \E loop \in Loops : m \in LoopKeys(loop, obs)
    BY <1>2, ObservedIsShown, LoopsCoverShown
  <2>5. Loops = NetworkLoops \cup {"docker"}
    BY DEF Loops, NetworkLoops
  <2>6. CASE Done("docker", m)
    <3>1. Says(devices[m], obs, m, ExpectedMetadata(obs, m)) /\ Observed(obs, m)
      BY <2>2, <2>3, <2>4, <2>5, <2>6 DEF LoopRow
    <3> QED
      BY <1>1, <2>1, <3>1, SaysKept DEF MergedRow, Observed
  <2>7. CASE ~Done("docker", m) /\ \E loop \in NetworkLoops : Done(loop, m)
    <3>1. obs.docker[m] = NULL
      BY <1>2, <2>3, <2>5, <2>7 DEF LoopKeys, Keys, Observation
    <3>2. Says(devices[m], Undocked(obs), m, ExpectedMetadata(Undocked(obs), m)) /\ Observed(obs, m)
      BY <2>2, <2>3, <2>4, <2>5, <2>7 DEF LoopRow
    <3>3. Says(devices[m], obs, m, ExpectedMetadata(obs, m))
      BY <1>2, <3>1, <3>2, UndockedSame
    <3> QED
      BY <1>1, <2>1, <3>2, <3>3, SaysKept DEF MergedRow, Observed
  <2>8. CASE ~Done("docker", m) /\ \A loop \in NetworkLoops : ~Done(loop, m)
    <3>1. SameSighting(devices[m], pre[m]) /\ ~Observed(obs, m)
      BY <2>2, <2>3, <2>4, <2>5, <2>8 DEF LoopRow
    <3> QED
      BY <1>1, <3>1 DEF MergedRow, Observed
  <2> QED
    BY <2>6, <2>7, <2>8
<1> QED
  BY <1>1, <1>4, <1>5 DEF RowsInv, GatherRows, LoopRows, MergedRows, Loops

LEMMA ReadHostRows ==
  ASSUME TypeInv, RowsInv, NEW m \in MAC, ReadHostMetadata(m)
  PROVE  RowsInv'
<1>1. /\ phase = "hostnet" /\ phase' = phase /\ current = NULL /\ current' = m
      /\ m \in todo /\ todo' = todo \ {m}
      /\ existing' = devices[m].metadata
      /\ UNCHANGED <<devices, pre, obs, hostnet>>
  BY DEF ReadHostMetadata
<1>2. IpToMac(obs)' = IpToMac(obs) /\ \A owner : HostNetContainers(obs, owner)' = HostNetContainers(obs, owner)
  BY <1>1 DEF IpToMac, HostNetContainers
<1>3. HostsInv'
  BY <1>1, <1>2, NullNoMac DEF RowsInv, HostsInv, Counted
<1>4. ASSUME NEW k \in MAC
      PROVE  MergedRow(k)'
  <2>1. HostMerged(k)' <=> HostMerged(k)
    BY <1>1, NullNoMac DEF HostMerged, Counted
  <2> QED
    BY <1>1, <2>1, SaysKept DEF RowsInv, MergedRows, MergedRow, Observed
<1> QED
  BY <1>1, <1>3, <1>4 DEF RowsInv, GatherRows, LoopRows, MergedRows, Loops

\* The metadata that was read is still what the row holds.
LEMMA WriteHostRows ==
  ASSUME TypeInv, MergeInv, RowsInv, WriteHostMetadata
  PROVE  RowsInv'
<1>1. /\ phase = "hostnet" /\ phase' = phase /\ current # NULL /\ current' = NULL
      /\ devices' = MergeHostContainers(devices, current, existing, hostnet[current])
      /\ UNCHANGED <<pre, obs, todo, hostnet>>
  BY DEF WriteHostMetadata
<1>2. /\ current \in MAC /\ current \notin todo /\ hostnet[current] # {}
      /\ existing = devices[current].metadata
  BY <1>1 DEF RowsInv, HostsInv, TypeInv, TypeOK
<1>3. /\ devices \in Table /\ obs \in Observation
      /\ existing \in Metadata \cup {NULL} /\ hostnet[current] \in SUBSET Container
  BY <1>2 DEF TypeInv, TypeOK
<1>4. Observed(obs, current)
  <2>1. current \in Keys(ArpMap(obs))
    BY <1>1 DEF MergeInv, Covered
  <2> QED
    BY <1>2, <1>3, <2>1, ObservedIsShown DEF Shown
<1>5. Says(devices[current], obs, current, ExpectedMetadata(obs, current))
  BY <1>1, <1>2, <1>4 DEF RowsInv, MergedRows, MergedRow, HostMerged, Counted
<1>6. Says(devices'[current], obs, current,
           MergedMetadata(ExpectedMetadata(obs, current), hostnet[current]))
  <2>1. devices[current] # NULL /\ existing = ExpectedMetadata(obs, current)
    BY <1>2, <1>5 DEF Says
  <2> QED
    BY <1>1, <1>2, <1>3, <1>5, <2>1, MergeHostWrites DEF Says
<1>7. \A k \in MAC \ {current} : devices'[k] = devices[k]
  BY <1>1, <1>2, <1>3, <1>5, MergeHostWrites DEF Says
<1>8. ASSUME NEW k \in MAC
      PROVE  MergedRow(k)'
  <2>1. CASE k = current
    <3>1. HostMerged(k)' /\ Observed(obs, k)' /\ hostnet'[k] = hostnet[current]
      BY <1>1, <1>2, <1>4, <2>1 DEF HostMerged, Observed
    <3> QED
      BY <1>1, <1>6, <2>1, <3>1, SaysKept DEF MergedRow
  <2>2. CASE k # current
    <3>1. (HostMerged(k)' <=> HostMerged(k)) /\ (Observed(obs, k)' <=> Observed(obs, k))
      BY <1>1, <2>2, NullNoMac DEF HostMerged, Counted, Observed
    <3> QED
      BY <1>1, <1>7, <2>2, <3>1, SaysKept DEF RowsInv, MergedRows, MergedRow
  <2> QED
    BY <2>1, <2>2
<1>9. HostsInv'
  <2>1. IpToMac(obs)' = IpToMac(obs)
        /\ \A owner : HostNetContainers(obs, owner)' = HostNetContainers(obs, owner)
    BY <1>1 DEF IpToMac, HostNetContainers
  <2> QED
    BY <1>1, <2>1 DEF RowsInv, HostsInv, Counted
<1> QED
  BY <1>1, <1>8, <1>9 DEF RowsInv, GatherRows, LoopRows, MergedRows, Loops

LEMMA OperatorSame ==
  ASSUME TypeInv, Operator
  PROVE  /\ \A k \in MAC : SameSighting(devices'[k], devices[k])
         /\ UNCHANGED <<phase, locals>>
<1>1. PICK m \in MAC, text \in OperatorTexts :
        PutAlias(m, text) \/ \E c \in OperatorColumn : PutOperatorColumn(m, c, text)
  BY DEF Operator
<1>2. text \in Name /\ devices \in Table
  BY ScanConstants DEF TypeInv, TypeOK
<1>3. CASE PutAlias(m, text)
  <2>1. "notes" \in OperatorColumn
    BY DEF OperatorColumn
  <2> QED
    BY <1>2, <1>3, <2>1, OtherColumnsSame DEF PutAlias, Put
<1>4. ASSUME NEW c \in OperatorColumn, PutOperatorColumn(m, c, text)
      PROVE  /\ \A k \in MAC : SameSighting(devices'[k], devices[k])
             /\ UNCHANGED <<phase, locals>>
  BY <1>2, <1>4, OtherColumnsSame DEF PutOperatorColumn, Put
<1> QED
  BY <1>1, <1>3, <1>4

LEMMA NextRows == TypeInv /\ MergeInv /\ RowsInv /\ [Next]_vars => RowsInv'
<1> SUFFICES ASSUME TypeInv, MergeInv, RowsInv, [Next]_vars
             PROVE  RowsInv'
  OBVIOUS
<1>1. devices \in Table /\ \A k \in MAC : SameSighting(devices[k], devices[k])
  BY DEF TypeInv, TypeOK, SameSighting
<1>2. CASE FinishScan \/ SourceRaises \/ DatabaseRaises \/ Stop \/ Start
  BY <1>2, IdleRows DEF FinishScan, SourceRaises, DatabaseRaises, Abandon, Stop, Start
<1>0. CASE StartScan
  BY <1>0, <1>1 DEF StartScan, RowsInv, GatherRows, LoopRows, MergedRows, HostsInv, Loops, Counted
<1>3. CASE Gather
  <2>1. /\ phase' = "arp" /\ todo' = LoopKeys("arp", obs')
        /\ UNCHANGED <<devices, pre>> /\ phase = "gather"
    BY <1>3 DEF Gather
  <2>2. \A loop, m : ~Done(loop, m)'
    BY <2>1 DEF Done, LoopsBefore
  <2>3. \A m \in MAC : SameSighting(devices'[m], pre'[m])
    BY <2>1 DEF RowsInv, GatherRows
  <2>4. LoopRows'
    BY <2>2, <2>3 DEF LoopRows, LoopRow, Loops, NetworkLoops
  <2> QED
    BY <2>1, <2>4 DEF RowsInv, GatherRows, MergedRows, HostsInv, Counted, Loops
<1>4. ASSUME NEW m \in MAC,
             MergeArp(m) \/ MergeProxmox(m) \/ MergeNdp(m) \/ MergeDocker(m)
      PROVE  RowsInv'
  BY <1>4, UpsertRows
<1>5. CASE NameDevice
  <2>1. current \in MAC /\ Hostname(phase, obs, current) \in Name \cup {NULL}
    <3>1. current \in MAC /\ obs \in Observation /\ current \in LoopKeys(phase, obs)
      BY <1>5, NameDeviceStep DEF TypeInv, TypeOK
    <3>2. phase = "docker" => obs.docker[current] # NULL
      BY <3>1 DEF LoopKeys, Keys
    <3> QED
      BY <3>1, <3>2, HostnameType
  <2>2. \A k \in MAC : SameSighting(devices'[k], devices[k])
    <3>1. "notes" \in OperatorColumn
      BY DEF OperatorColumn
    <3> QED
      BY <1>1, <1>5, <2>1, <3>1, OtherColumnsSame DEF NameDevice
  <2> QED
    BY <1>5, <2>2, QuietRows DEF NameDevice
<1>6. CASE NextLoop
  BY <1>6, NextLoopRows
<1>7. CASE CollectHostNet
  BY <1>7, CollectRows
<1>8. ASSUME NEW m \in MAC, ReadHostMetadata(m)
      PROVE  RowsInv'
  BY <1>8, ReadHostRows
<1>9. CASE WriteHostMetadata
  BY <1>9, WriteHostRows
<1>10. CASE CountMissing
  <2>1. \A k \in MAC : SameSighting(devices'[k], devices[k])
    BY <1>1, <1>10, CountSame DEF CountMissing
  <2> QED
    BY <1>10, <2>1, QuietRows DEF CountMissing, locals, Counted
<1>11. CASE CompareSnapshots
  BY <1>1, <1>11, QuietRows DEF CompareSnapshots, Counted
<1>12. ASSUME NEW a \in alerts, FireWebhook(a[1], a[2])
       PROVE  RowsInv'
  BY <1>1, <1>12, QuietRows DEF FireWebhook
<1>13. CASE Operator
  BY <1>13, OperatorSame, QuietRows DEF locals
<1>14. CASE UNCHANGED vars
  BY <1>1, <1>14, QuietRows DEF vars, locals
<1> QED
  BY <1>0, <1>2, <1>3, <1>4, <1>5, <1>6, <1>7, <1>8, <1>9, <1>10, <1>11, <1>12, <1>13, <1>14
  DEF Next, ScanStep

LEMMA RowsInvHolds == Spec => []RowsInv
BY InitTypeInv, NextTypeInv, InitMergeInv, NextMergeInv, InitRows, NextRows, PTL DEF Spec

\* Whichever sources show a device, and in whatever order the loops come to it, its
\* row holds in the end what the source with the highest priority says; a device
\* that none shows keeps what it had.
THEOREM MergeHasPriority == Spec => []MergePriority
<1>1. TypeInv /\ RowsInv => MergePriority
  <2> SUFFICES ASSUME TypeInv, RowsInv, Counted, NEW m \in MAC
               PROVE  IF Observed(obs, m)
                      THEN /\ devices[m].ip = ExpectedIp(obs, m)
                           /\ devices[m].ipv6 = Coalesce(obs.ndp[m], Was(m, "ipv6", NULL))
                           /\ devices[m].device_type = ExpectedType(obs, m)
                           /\ devices[m].metadata =
                                IF hostnet[m] = {} THEN ExpectedMetadata(obs, m)
                                ELSE MergedMetadata(ExpectedMetadata(obs, m), hostnet[m])
                      ELSE pre[m] # NULL => \A c \in {"ip", "ipv6", "device_type", "metadata"} :
                                               devices[m][c] = pre[m][c]
    BY DEF MergePriority
  <2>1. MergedRow(m)
    BY DEF RowsInv, MergedRows
  <2>2. HostMerged(m) <=> hostnet[m] # {}
    BY DEF HostMerged
  <2>3. CASE Observed(obs, m)
    BY <2>1, <2>2, <2>3 DEF MergedRow, Says
  <2>4. CASE ~Observed(obs, m)
    BY <2>1, <2>4 DEF MergedRow, SameSighting
  <2> QED
    BY <2>3, <2>4
<1> QED
  BY <1>1, RowsInvHolds, InitTypeInv, NextTypeInv, PTL DEF Spec

LEMMA ExpectedMetadataType ==
  ASSUME NEW o \in Observation, pre \in Table, NEW m \in MAC
  PROVE  ExpectedMetadata(o, m) \in Metadata \cup {NULL}
<1> DEFINE vlan == IF o.arp[m] = NULL THEN NULL ELSE o.arp[m].intf
           fresh == [GuestMetadata(o, m) EXCEPT !.vlan = vlan]
<1>1. GuestMetadata(o, m) \in Metadata
  BY GuestMetadataFacts
<1>2. o.arp[m] \in ArpEntry \cup {NULL}
  BY DEF Observation
<1>3. vlan \in Segment \cup {NULL}
  BY <1>2 DEF ArpEntry
<1> HIDE DEF vlan
<1>4. fresh \in Metadata
  BY <1>1, <1>3 DEF Metadata
<1>5. o.docker[m] # NULL => [EmptyMetadata EXCEPT !.container = o.docker[m].container] \in Metadata
  <2>1. o.docker[m] # NULL => o.docker[m].container \in Container
    BY DEF Observation, DockerInfo
  <2> QED
    BY <2>1 DEF EmptyMetadata, Metadata
<1>6. Was(m, "metadata", NULL) \in Metadata \cup {NULL}
  BY DEF Was, Table, Row
<1> QED
  BY <1>4, <1>5, <1>6 DEF ExpectedMetadata, fresh, vlan

\* No host-network container whose host is known is lost: it is on a device with the
\* address of its daemon.
THEOREM HostContainersAreAttributed == Spec => []HostContainersAttributed
<1>1. TypeInv /\ RowsInv => HostContainersAttributed
  <2> SUFFICES ASSUME TypeInv, RowsInv, Counted, NEW c \in Keys(obs.hostnet),
                      NEW h \in Keys(ArpMap(obs)), ArpMap(obs)[h].ip = obs.hostnet[c]
               PROVE  \E m \in Keys(ArpMap(obs)) :
                        /\ ArpMap(obs)[m].ip = obs.hostnet[c]
                        /\ devices[m].metadata # NULL /\ c \in devices[m].metadata.hostnet
    BY DEF HostContainersAttributed
  <2>1. PICK owner \in IpToMac(obs) : hostnet = HostNetContainers(obs, owner)
    BY DEF RowsInv, HostsInv
  <2>2. obs \in Observation /\ obs.hostnet[c] \in IP /\ c \in Container
    BY DEF TypeInv, TypeOK, Observation, Keys
  <2> DEFINE m == owner[obs.hostnet[c]]
  <2>3. m \in Keys(ArpMap(obs)) /\ ArpMap(obs)[m].ip = obs.hostnet[c]
    BY <2>2 DEF IpToMac
  <2>4. m \in MAC /\ Observed(obs, m)
    <3>1. m \in MAC
      BY <2>2, <2>3, ArpMapType DEF Keys
    <3> QED
      BY <2>2, <2>3, <3>1, ObservedIsShown DEF Shown
  <2>5. c \in hostnet[m]
    BY <2>1, <2>4 DEF HostNetContainers
  <2>6. HostMerged(m)
    BY <2>5 DEF HostMerged
  <2> HIDE DEF m
  <2>7. devices[m].metadata = MergedMetadata(ExpectedMetadata(obs, m), hostnet[m])
    BY <2>4, <2>6 DEF RowsInv, MergedRows, MergedRow, Says
  <2>8. devices[m].metadata \in Metadata /\ devices[m].metadata.hostnet = hostnet[m]
    <3>1. ExpectedMetadata(obs, m) \in Metadata \cup {NULL} /\ hostnet[m] \in SUBSET Container
      BY <2>4, ExpectedMetadataType DEF TypeInv, TypeOK
    <3>2. ASSUME NEW e \in Metadata \cup {NULL}, NEW C \in SUBSET Container
          PROVE  MergedMetadata(e, C) \in Metadata /\ MergedMetadata(e, C).hostnet = C
      BY DEF MergedMetadata, EmptyMetadata, Metadata
    <3> QED
      BY <2>7, <3>1, <3>2
  <2> QED
    BY <2>3, <2>5, <2>8, TableConstants
<1> QED
  BY <1>1, RowsInvHolds, InitTypeInv, NextTypeInv, PTL DEF Spec

-----------------------------------------------------------------------------
(* The scan cycle implements AlertContract: under the mapping of ScanAlerts  *)
(* every step of the cycle is a step of the contract, or none.               *)

ContractStep == [Contract!Next]_(Contract!vars)

LEMMA InitContract == Init => Contract!Init
BY DEF Init, Contract!Init, Round, MissedCycles, Sighted, EmptyTable, Loops, Counted

\* Same counters, same round, same sightings: nothing happened.
LEMMA StutterContract ==
  ASSUME SameCounts(devices', devices), Round' = Round, Sighted' = Sighted,
         UNCHANGED <<discovered, gone>>
  PROVE  ContractStep
<1>1. MissedCycles' = MissedCycles
  BY DEF MissedCycles, SameCounts
<1> QED
  BY <1>1 DEF ContractStep, Contract!vars

LEMMA UpsertContract ==
  ASSUME TypeInv, phase \in Loops, NEW m \in MAC, NEW s \in Sighting, Upsert(m, s)
  PROVE  ContractStep
<1>1. /\ devices' = UpsertDevice(devices, m, s)
      /\ current = NULL /\ current' = m
      /\ gone' = [gone EXCEPT ![m] = 0]
      /\ UNCHANGED <<phase, seen, discovered>>
  BY DEF Upsert
<1>2. Round = "open" /\ Round' = Round
  BY <1>1 DEF Round
<1>3. Sighted' = Sighted \cup {m}
  BY <1>1, NullNoMac DEF Sighted
<1>4. MissedCycles' = [MissedCycles EXCEPT ![m] = 0]
  <2>1. /\ devices'[m] # NULL /\ devices'[m].disappearance_count = 0
        /\ \A k \in MAC \ {m} : devices'[k] = devices[k]
    BY <1>1, UpsertFacts DEF TypeInv, TypeOK
  <2>2. \A k \in MAC : MissedCycles'[k] = IF k = m THEN 0 ELSE MissedCycles[k]
    BY <2>1 DEF MissedCycles
  <2> QED
    BY <2>2 DEF MissedCycles
<1>5. Contract!Sight(m)
  BY <1>1, <1>2, <1>3, <1>4 DEF Contract!Sight
<1> QED
  BY <1>5 DEF ContractStep, Contract!Next

LEMMA CountContract ==
  ASSUME TypeInv, CountMissing
  PROVE  ContractStep
<1>1. /\ phase = "hostnet" /\ phase' = "snapshot" /\ current = NULL
      /\ devices' = UpdateDisappearanceCounts(devices, seen)
      /\ UNCHANGED <<current, seen, discovered, gone>>
  BY DEF CountMissing, LoopDone, locals, history
<1>2. Round = "open" /\ Round' = "counted" /\ Sighted = seen /\ Sighted' = Sighted
  BY <1>1 DEF Round, Sighted, Counted, Loops
<1>3. MissedCycles' = [m \in MAC |->
                   IF MissedCycles[m] = NULL \/ m \in Sighted \/ MissedCycles[m] = MaxCount
                   THEN MissedCycles[m] ELSE MissedCycles[m] + 1]
  <2>1. ASSUME NEW m \in MAC
        PROVE  MissedCycles'[m] = IF MissedCycles[m] = NULL \/ m \in Sighted \/ MissedCycles[m] = MaxCount
                            THEN MissedCycles[m] ELSE MissedCycles[m] + 1
    <3>1. /\ devices'[m] = NULL <=> devices[m] = NULL
          /\ devices'[m] # NULL =>
               devices'[m].disappearance_count =
                 IF m \in seen \/ devices[m].disappearance_count = MaxCount
                 THEN devices[m].disappearance_count
                 ELSE devices[m].disappearance_count + 1
      BY <1>1, CountFacts DEF TypeInv, TypeOK
    <3>2. devices[m] # NULL => devices[m].disappearance_count # NULL
      BY TableConstants DEF TypeInv, TypeOK, Table, Row
    <3> QED
      BY <1>2, <3>1, <3>2 DEF MissedCycles
  <2> QED
    BY <2>1 DEF MissedCycles
<1>4. Contract!Count
  BY <1>1, <1>2, <1>3 DEF Contract!Count
<1> QED
  BY <1>4 DEF ContractStep, Contract!Next

\* A webhook announces a sighted device, or reports one absent for Threshold rounds.
LEMMA FireContract ==
  ASSUME TypeInv, MergeInv, AlertInv, NEW a \in alerts, FireWebhook(a[1], a[2])
  PROVE  ContractStep
<1> DEFINE m == a[2]
<1>1. m \in MAC /\ a = <<a[1], m>> /\ a[1] \in {"device_discovered", "device_gone"}
  BY DEF TypeInv, TypeOK, Alert
<1>2. phase = "alert" /\ UNCHANGED <<devices, phase, current, seen>>
  BY DEF FireWebhook
<1>3. Round = "counted" /\ Round' = Round /\ Sighted = seen /\ Sighted' = Sighted /\ MissedCycles' = MissedCycles
  BY <1>2 DEF Round, Sighted, MissedCycles, Counted, Loops, TypeInv, LoopsTyped
<1>4. Observed(obs, m) <=> m \in seen
  <2>1. seen = Shown(obs)
    BY <1>2, LoopsCoverShown DEF MergeInv, Covered, LoopsBefore
  <2> QED
    BY <1>1, <2>1, ObservedIsShown DEF TypeInv, TypeOK
<1>5. CASE a[1] = "device_discovered"
  <2>1. m \in Sighted /\ discovered[m] = 0
    BY <1>1, <1>3, <1>4, <1>5 DEF AlertInv, AlertsJustified
  <2>2. discovered' = [discovered EXCEPT ![m] = 1] /\ gone' = gone
    BY <1>5, <2>1 DEF FireWebhook, Twice
  <2>3. Contract!Announce(m)
    BY <1>3, <2>1, <2>2 DEF Contract!Announce
  <2> QED
    BY <1>1, <2>3 DEF ContractStep, Contract!Next
<1>6. CASE a[1] = "device_gone"
  <2>1. m \notin Sighted /\ gone[m] = 0 /\ MissedCycles[m] = Threshold
    BY <1>1, <1>3, <1>4, <1>6 DEF AlertInv, AlertsJustified, MissedCycles
  <2>2. gone' = [gone EXCEPT ![m] = 1] /\ discovered' = discovered
    BY <1>6, <2>1 DEF FireWebhook, Twice
  <2>3. Contract!Report(m)
    BY <1>3, <2>1, <2>2 DEF Contract!Report
  <2> QED
    BY <1>1, <2>3 DEF ContractStep, Contract!Next
<1> QED
  BY <1>1, <1>5, <1>6

LEMMA HostNetContract ==
  ASSUME TypeInv, MergeInv,
         CollectHostNet \/ WriteHostMetadata \/ \E m \in MAC : ReadHostMetadata(m)
  PROVE  ContractStep
<1>1. CASE CollectHostNet
  BY <1>1, StutterContract
  DEF CollectHostNet, Round, Sighted, SameCounts, Loops, history
<1>2. ASSUME NEW m \in MAC, ReadHostMetadata(m)
      PROVE  ContractStep
  <2>1. m \in seen
    BY <1>2 DEF ReadHostMetadata, MergeInv, Covered, LoopsBefore, LoopKeys, Loops
  <2> QED
    BY <1>2, <2>1, StutterContract
    DEF ReadHostMetadata, Round, Sighted, SameCounts, Loops, history, Counted
<1>3. CASE WriteHostMetadata
  BY <1>3, WriteHostStep, NullNoMac, StutterContract
  DEF WriteHostMetadata, Round, Sighted, Loops, history, Counted
<1> QED
  BY <1>1, <1>2, <1>3

\* Whatever ends a cycle closes the round.
LEMMA CloseContract ==
  ASSUME DropLocals, phase' \in {"idle", "down"}, UNCHANGED <<devices, history>>
  PROVE  ContractStep
<1>1. Round' = "closed" /\ Sighted' = {} /\ MissedCycles' = MissedCycles
  BY DEF DropLocals, Round, Sighted, MissedCycles, Counted, Loops
<1> QED
  BY <1>1 DEF ContractStep, Contract!Next, Contract!Close, history

LEMMA NextContract == TypeInv /\ MergeInv /\ AlertInv /\ [Next]_vars => ContractStep
<1> SUFFICES ASSUME TypeInv, MergeInv, AlertInv, [Next]_vars
             PROVE  ContractStep
  OBVIOUS
<1>1. CASE StartScan
  BY <1>1, StutterContract DEF StartScan, Round, Sighted, SameCounts, Counted, Loops, history
<1>2. CASE Gather
  <2>1. /\ phase = "gather" /\ phase' = "arp"
        /\ UNCHANGED <<devices, current, seen, discovered, gone>>
    BY <1>2 DEF Gather, history
  <2>2. Contract!Open
    BY <2>1 DEF Contract!Open, Round, Sighted, MissedCycles, Counted, Loops
  <2> QED
    BY <2>2 DEF ContractStep, Contract!Next
<1>3. ASSUME NEW m \in MAC,
             MergeArp(m) \/ MergeProxmox(m) \/ MergeNdp(m) \/ MergeDocker(m)
      PROVE  ContractStep
  BY <1>3, UpsertStep, UpsertContract
<1>4. CASE NameDevice
  BY <1>4, NameDeviceStep, NullNoMac, StutterContract DEF NameDevice, Round, Sighted, Counted, history
<1>5. CASE NextLoop
  BY <1>5, StutterContract DEF NextLoop, EnterLoop, Round, Sighted, SameCounts, Loops, history
<1>6. CASE CollectHostNet \/ WriteHostMetadata \/ \E m \in MAC : ReadHostMetadata(m)
  BY <1>6, HostNetContract
<1>7. CASE CountMissing
  BY <1>7, CountContract
<1>8. CASE CompareSnapshots
  BY <1>8, StutterContract
  DEF CompareSnapshots, Round, Sighted, SameCounts, Counted, Loops, history
<1>9. ASSUME NEW a \in alerts, FireWebhook(a[1], a[2])
      PROVE  ContractStep
  BY <1>9, FireContract
<1>10. CASE FinishScan \/ SourceRaises \/ DatabaseRaises \/ Stop
  BY <1>10, CloseContract DEF FinishScan, SourceRaises, DatabaseRaises, Stop, Abandon
<1>11. CASE Start
  BY <1>11, StutterContract DEF Start, locals, history, Round, Sighted, SameCounts, Counted, Loops
<1>12. CASE Operator
  BY <1>12, OperatorStep, StutterContract DEF Puts, locals, Round, Sighted, Counted
<1>13. CASE UNCHANGED vars
  BY <1>13, StutterContract DEF vars, locals, history, Round, Sighted, SameCounts, Counted
<1> QED
  BY <1>1, <1>2, <1>3, <1>4, <1>5, <1>6, <1>7, <1>8, <1>9, <1>10, <1>11, <1>12, <1>13
  DEF Next, ScanStep

\* Every behaviour of the scan loop, with its failures, restarts and PUT requests,
\* is one the contract of the alerts allows.
THEOREM ImplementsContract == Spec => KeepsContract
<1>1. TypeInv /\ MergeInv /\ AlertInv /\ [Next]_vars => [Contract!Next]_(Contract!vars)
  BY NextContract DEF ContractStep
<1> QED
  BY <1>1, InitContract, InitTypeInv, NextTypeInv, InitMergeInv, NextMergeInv, AlertInvHolds, PTL
  DEF Spec, KeepsContract, Contract!Spec

=============================================================================
