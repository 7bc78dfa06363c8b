------------------------ MODULE DeviceTableTheorems ------------------------
(***************************************************************************)
(* What each statement on the devices table preserves: types, and the one  *)
(* column the alerts depend on.                                            *)
(***************************************************************************)
EXTENDS Discovery, TLAPS

(* What a scan knows of a source is of the right type. *)

\* The ARP map with nmap and SNMP folded in maps MACs to ARP entries.
LEMMA ArpMapType ==
  ASSUME NEW o \in Observation
  PROVE  ArpMap(o) \in [MAC -> ArpEntry \cup {NULL}]
BY DEF ArpMap, Observation, ArpEntry, Coalesce

\* The sighting of each merge loop is a well-formed row of the upsert statement.
LEMMA SightingType ==
  ASSUME NEW o \in Observation, NEW m \in MAC
  PROVE  /\ m \in LoopKeys("arp", o) => ArpSighting(o, m) \in Sighting
         /\ m \in LoopKeys("proxmox", o) => ProxmoxSighting(o, m) \in Sighting
         /\ m \in LoopKeys("ndp", o) => NdpSighting(o, m) \in Sighting
         /\ m \in LoopKeys("docker", o) => DockerSighting(o, m) \in Sighting
<1> USE DEF Sighting, Keys, LoopKeys
<1>1. EmptyMetadata \in Metadata
  BY DEF EmptyMetadata, Metadata
<1>2. GuestMetadata(o, m) \in Metadata
  BY <1>1 DEF GuestMetadata, EmptyMetadata, Metadata, Observation, ProxmoxInfo
<1>3. ASSUME m \in LoopKeys("arp", o)
      PROVE  ArpSighting(o, m) \in Sighting
  <2> DEFINE entry == ArpMap(o)[m]
             base_meta == [GuestMetadata(o, m) EXCEPT !.vlan = entry.intf]
  <2>1. entry \in ArpEntry
    BY <1>3, ArpMapType
  <2>2. base_meta \in Metadata
    BY <1>2, <2>1 DEF Metadata, ArpEntry
  <2>3. entry.ip \in IP
    BY <2>1 DEF ArpEntry
  <2>4. o.ndp[m] \in IPv6 \cup {NULL}
    BY DEF Observation
  <2>5. (IF o.proxmox[m] = NULL THEN "bare-metal" ELSE o.proxmox[m].type) \in DeviceType
    BY DEF Observation, ProxmoxInfo, GuestType, DeviceType
  <2> QED
    BY <2>2, <2>3, <2>4, <2>5 DEF ArpSighting
<1>4. ASSUME m \in LoopKeys("proxmox", o)
      PROVE  ProxmoxSighting(o, m) \in Sighting
  <2>1. o.proxmox[m] \in ProxmoxInfo
    BY <1>4 DEF Observation
  <2> QED
    BY <1>2, <2>1 DEF ProxmoxSighting, ProxmoxInfo, GuestType, DeviceType, Observation
<1>5. NdpSighting(o, m) \in Sighting
  BY DEF NdpSighting, Observation, DeviceType
<1>6. ASSUME m \in LoopKeys("docker", o)
      PROVE  DockerSighting(o, m) \in Sighting
  <2>1. o.docker[m] \in DockerInfo
    BY <1>6 DEF Observation
  <2>2. [EmptyMetadata EXCEPT !.container = o.docker[m].container] \in Metadata
    BY <1>1, <2>1 DEF Metadata, DockerInfo
  <2> QED
    BY <2>1, <2>2 DEF DockerSighting, DockerInfo, DeviceType
<1> QED
  BY <1>3, <1>4, <1>5, <1>6

LEMMA LoopKeysType ==
  ASSUME NEW o \in Observation, NEW loop \in {"arp", "proxmox", "ndp", "docker"}
  PROVE  LoopKeys(loop, o) \subseteq MAC
BY ArpMapType DEF LoopKeys, Keys, Observation

\* A hostname offered to set_hostname_if_unset is a name or nothing.
LEMMA HostnameType ==
  ASSUME NEW o \in Observation, NEW m \in MAC, NEW loop
  PROVE  /\ loop # "docker" => Hostname(loop, o, m) \in Name \cup {NULL}
         /\ o.docker[m] # NULL => Hostname(loop, o, m) \in Name \cup {NULL}
BY DEF Hostname, Observation, ProxmoxInfo, DockerInfo

-----------------------------------------------------------------------------
(* The statements. *)

\* upsert_device yields a table, resets the counter of its device and touches no other row.
LEMMA UpsertFacts ==
  ASSUME NEW table \in Table, NEW m \in MAC, NEW s \in Sighting
  PROVE  /\ UpsertDevice(table, m, s) \in Table
         /\ UpsertDevice(table, m, s)[m] # NULL
         /\ UpsertDevice(table, m, s)[m].disappearance_count = 0
         /\ \A k \in MAC \ {m} : UpsertDevice(table, m, s)[k] = table[k]
<1>1. InsertedRow(s) \in Row /\ InsertedRow(s).disappearance_count = 0
  BY TableConstants DEF InsertedRow, Row, Sighting
<1>2. ASSUME table[m] # NULL
      PROVE  UpdatedRow(table[m], s) \in Row /\ UpdatedRow(table[m], s).disappearance_count = 0
  <2>1. table[m] \in Row
    BY <1>2 DEF Table
  <2> DEFINE row == table[m]
  <2>2. /\ Coalesce(s.ip, row.ip) \in IP \cup {NULL}
        /\ Coalesce(s.ipv6, row.ipv6) \in IPv6 \cup {NULL}
        /\ Coalesce(s.metadata, row.metadata) \in Metadata \cup {NULL}
        /\ s.device_type \in DeviceType
    BY <2>1 DEF Row, Sighting, Coalesce
  <2>3. 0 \in 0..MaxCount
    BY TableConstants
  <2> HIDE DEF row
  <2>4. row \in Row
    BY <2>1 DEF row
  <2>5. UpdatedRow(row, s) \in Row
    BY <2>2, <2>3, <2>4 DEF UpdatedRow, Row
  <2>6. UpdatedRow(row, s).disappearance_count = 0
    BY <2>4 DEF UpdatedRow, Row
  <2> QED
    BY <2>5, <2>6 DEF row
<1> DEFINE row == IF table[m] = NULL THEN InsertedRow(s) ELSE UpdatedRow(table[m], s)
<1>3. row \in Row /\ row.disappearance_count = 0
  BY <1>1, <1>2
<1>4. row # NULL
  BY <1>3, TableConstants
<1>5. UpsertDevice(table, m, s) = [table EXCEPT ![m] = row]
  BY DEF UpsertDevice
<1> HIDE DEF row
<1> QED
  BY <1>3, <1>4, <1>5 DEF Table

\* SameCounts(new, old): the tables hold the same devices with the same counters.
SameCounts(new, old) ==
  \A k \in MAC :
    /\ new[k] = NULL <=> old[k] = NULL
    /\ new[k] # NULL => new[k].disappearance_count = old[k].disappearance_count

\* Replacing a row by one with the same counter keeps devices and counters.
LEMMA UpdateRowFacts ==
  ASSUME NEW table \in Table, NEW m \in MAC, NEW row,
         table[m] # NULL => row \in Row /\ row.disappearance_count = table[m].disappearance_count
  PROVE  UpdateRow(table, m, row) \in Table /\ SameCounts(UpdateRow(table, m, row), table)
<1>1. CASE table[m] = NULL
  BY <1>1 DEF UpdateRow, Table, SameCounts
<1>2. CASE table[m] # NULL
  <2>1. row \in Row /\ row # NULL
    BY <1>2, TableConstants
  <2>2. UpdateRow(table, m, row) = [table EXCEPT ![m] = row]
    BY <1>2 DEF UpdateRow
  <2> QED
    BY <1>2, <2>1, <2>2 DEF Table, SameCounts
<1> QED
  BY <1>1, <1>2

LEMMA SetHostnameFacts ==
  ASSUME NEW table \in Table, NEW m \in MAC, NEW hostname \in Name
  PROVE  /\ SetHostnameIfUnset(table, m, hostname) \in Table
         /\ SameCounts(SetHostnameIfUnset(table, m, hostname), table)
<1> DEFINE row == [table[m] EXCEPT !.alias = Coalesce(table[m].alias, hostname)]
<1>1. table[m] # NULL => row \in Row /\ row.disappearance_count = table[m].disappearance_count
  BY DEF Table, Row, Coalesce
<1> QED
  BY <1>1, UpdateRowFacts DEF SetHostnameIfUnset

LEMMA SetAliasFacts ==
  ASSUME NEW table \in Table, NEW m \in MAC, NEW text \in Name
  PROVE  /\ SetDeviceAlias(table, m, text) \in Table
         /\ SameCounts(SetDeviceAlias(table, m, text), table)
<1> DEFINE row == [table[m] EXCEPT !.alias = text]
<1>1. table[m] # NULL => row \in Row /\ row.disappearance_count = table[m].disappearance_count
  BY DEF Table, Row
<1> QED
  BY <1>1, UpdateRowFacts DEF SetDeviceAlias

LEMMA SetOperatorColumnFacts ==
  ASSUME NEW table \in Table, NEW m \in MAC, NEW c \in OperatorColumn, NEW text \in Name
  PROVE  /\ SetOperatorColumn(table, m, c, text) \in Table
         /\ SameCounts(SetOperatorColumn(table, m, c, text), table)
<1> DEFINE row == [table[m] EXCEPT !.operator[c] = Cleared(text)]
<1>1. Cleared(text) \in Name \cup {NULL}
  BY DEF Cleared
<1>2. table[m] # NULL => row \in Row /\ row.disappearance_count = table[m].disappearance_count
  BY <1>1 DEF Table, Row
<1> QED
  BY <1>2, UpdateRowFacts DEF SetOperatorColumn

LEMMA MergeHostFacts ==
  ASSUME NEW table \in Table, NEW m \in MAC,
         NEW existing \in Metadata \cup {NULL}, NEW containers \in SUBSET Container
  PROVE  /\ MergeHostContainers(table, m, existing, containers) \in Table
         /\ SameCounts(MergeHostContainers(table, m, existing, containers), table)
<1> DEFINE row == [table[m] EXCEPT !.metadata = MergedMetadata(existing, containers)]
<1>1. MergedMetadata(existing, containers) \in Metadata
  BY DEF MergedMetadata, EmptyMetadata, Metadata
<1>2. table[m] # NULL => row \in Row /\ row.disappearance_count = table[m].disappearance_count
  BY <1>1 DEF Table, Row
<1> QED
  BY <1>2, UpdateRowFacts DEF MergeHostContainers

\* update_disappearance_counts adds one to the counter of every device that was
\* not seen, below the bound, and keeps every other counter.
LEMMA CountFacts ==
  ASSUME NEW table \in Table, NEW seen
  PROVE  LET new == UpdateDisappearanceCounts(table, seen)
         IN  /\ new \in Table
             /\ \A m \in MAC :
                  /\ new[m] = NULL <=> table[m] = NULL
                  /\ new[m] # NULL =>
                       new[m].disappearance_count =
                         IF m \in seen \/ table[m].disappearance_count = MaxCount
                         THEN table[m].disappearance_count
                         ELSE table[m].disappearance_count + 1
<1> DEFINE new == UpdateDisappearanceCounts(table, seen)
           counted(m) == [table[m] EXCEPT !.disappearance_count =
                            IF @ < MaxCount THEN @ + 1 ELSE @]
<1>1. ASSUME NEW m \in MAC, table[m] # NULL
      PROVE  /\ counted(m) \in Row /\ counted(m) # NULL
             /\ counted(m).disappearance_count =
                  IF table[m].disappearance_count = MaxCount
                  THEN table[m].disappearance_count
                  ELSE table[m].disappearance_count + 1
  <2>1. table[m] \in Row
    BY <1>1 DEF Table
  <2>2. table[m].disappearance_count \in 0..MaxCount
    BY <2>1 DEF Row
  <2>3. counted(m) \in Row
    BY <2>1, <2>2, TableConstants DEF Row
  <2> QED
    BY <2>1, <2>2, <2>3, TableConstants DEF Row
<1>2. new = [m \in MAC |-> IF table[m] = NULL \/ m \in seen THEN table[m] ELSE counted(m)]
  BY DEF UpdateDisappearanceCounts
<1> HIDE DEF new, counted
<1>3. new \in Table
  BY <1>1, <1>2 DEF Table
<1>4. ASSUME NEW m \in MAC
      PROVE  /\ new[m] = NULL <=> table[m] = NULL
             /\ new[m] # NULL =>
                  new[m].disappearance_count =
                    IF m \in seen \/ table[m].disappearance_count = MaxCount
                    THEN table[m].disappearance_count
                    ELSE table[m].disappearance_count + 1
  BY <1>1, <1>2
<1> QED
  BY <1>3, <1>4 DEF new

-----------------------------------------------------------------------------
(* What the statements keep of a row. *)

\* No device is deleted, no address or name becomes NULL.
KeepsAddresses(new, old) ==
  \A k \in MAC : old[k] # NULL =>
    /\ new[k] # NULL
    /\ old[k].ip # NULL => new[k].ip # NULL
    /\ old[k].ipv6 # NULL => new[k].ipv6 # NULL
    /\ old[k].alias # NULL => new[k].alias # NULL

\* No device is deleted, and what the operator can set keeps its value; an
\* alias that is NULL may be filled in.
KeepsOperator(new, old) ==
  \A k \in MAC : old[k] # NULL =>
    /\ new[k] # NULL
    /\ new[k].operator = old[k].operator
    /\ old[k].alias # NULL => new[k].alias = old[k].alias

\* The statements of the scan keep both.
LEMMA UpsertKeeps ==
  ASSUME NEW table \in Table, NEW m \in MAC, NEW s \in Sighting
  PROVE  /\ KeepsAddresses(UpsertDevice(table, m, s), table)
         /\ KeepsOperator(UpsertDevice(table, m, s), table)
<1> DEFINE new == UpsertDevice(table, m, s)
<1>1. ASSUME NEW k \in MAC, table[k] # NULL, k = m
      PROVE  /\ new[k].operator = table[k].operator
             /\ new[k].alias = table[k].alias
             /\ new[k].ip = Coalesce(s.ip, table[k].ip)
             /\ new[k].ipv6 = Coalesce(s.ipv6, table[k].ipv6)
  <2>1. table[k] \in Row
    BY <1>1 DEF Table
  <2>2. new[k] = UpdatedRow(table[k], s)
    BY <1>1 DEF UpsertDevice, Table
  <2> QED
    BY <2>1, <2>2 DEF UpdatedRow, Row
<1>2. \A k \in MAC : table[k] # NULL => new[k] # NULL
  BY UpsertFacts
<1>3. \A k \in MAC \ {m} : new[k] = table[k]
  BY UpsertFacts
<1> HIDE DEF new
<1>4. KeepsAddresses(new, table)
  BY <1>1, <1>2, <1>3 DEF KeepsAddresses, Coalesce
<1>5. KeepsOperator(new, table)
  BY <1>1, <1>2, <1>3 DEF KeepsOperator
<1> QED
  BY <1>4, <1>5 DEF new

LEMMA SetHostnameKeeps ==
  ASSUME NEW table \in Table, NEW m \in MAC, NEW hostname \in Name
  PROVE  /\ KeepsAddresses(SetHostnameIfUnset(table, m, hostname), table)
         /\ KeepsOperator(SetHostnameIfUnset(table, m, hostname), table)
<1> DEFINE row == [table[m] EXCEPT !.alias = Coalesce(table[m].alias, hostname)]
<1>1. table[m] # NULL => row \in Row /\ row # NULL
  BY TableConstants DEF Table, Row, Coalesce
<1>2. table[m] # NULL => /\ row.ip = table[m].ip
                         /\ row.ipv6 = table[m].ipv6
                         /\ row.operator = table[m].operator
                         /\ row.alias = Coalesce(table[m].alias, hostname)
  BY DEF Table, Row
<1>3. SetHostnameIfUnset(table, m, hostname) =
        [table EXCEPT ![m] = IF table[m] = NULL THEN NULL ELSE row]
  BY DEF SetHostnameIfUnset, UpdateRow
<1> HIDE DEF row
<1> QED
  BY <1>1, <1>2, <1>3 DEF KeepsAddresses, KeepsOperator, Table, Coalesce

LEMMA MergeHostKeeps ==
  ASSUME NEW table \in Table, NEW m \in MAC,
         NEW existing \in Metadata \cup {NULL}, NEW containers \in SUBSET Container
  PROVE  /\ KeepsAddresses(MergeHostContainers(table, m, existing, containers), table)
         /\ KeepsOperator(MergeHostContainers(table, m, existing, containers), table)
<1> DEFINE row == [table[m] EXCEPT !.metadata = MergedMetadata(existing, containers)]
<1>1. MergedMetadata(existing, containers) \in Metadata
  BY DEF MergedMetadata, EmptyMetadata, Metadata
<1>2. table[m] # NULL => row \in Row /\ row # NULL
  BY <1>1, TableConstants DEF Table, Row
<1>3. table[m] # NULL => /\ row.ip = table[m].ip
                         /\ row.ipv6 = table[m].ipv6
                         /\ row.operator = table[m].operator
                         /\ row.alias = table[m].alias
  BY DEF Table, Row
<1>4. MergeHostContainers(table, m, existing, containers) =
        [table EXCEPT ![m] = IF table[m] = NULL THEN NULL ELSE row]
  BY DEF MergeHostContainers, UpdateRow
<1> HIDE DEF row
<1> QED
  BY <1>2, <1>3, <1>4 DEF KeepsAddresses, KeepsOperator, Table

LEMMA CountKeeps ==
  ASSUME NEW table \in Table, NEW seen
  PROVE  /\ KeepsAddresses(UpdateDisappearanceCounts(table, seen), table)
         /\ KeepsOperator(UpdateDisappearanceCounts(table, seen), table)
<1> DEFINE new == UpdateDisappearanceCounts(table, seen)
<1>1. \A k \in MAC : table[k] # NULL => new[k] # NULL
  BY CountFacts
<1>2. ASSUME NEW k \in MAC, table[k] # NULL
      PROVE  /\ new[k].ip = table[k].ip
             /\ new[k].ipv6 = table[k].ipv6
             /\ new[k].operator = table[k].operator
             /\ new[k].alias = table[k].alias
  <2>1. table[k] \in Row
    BY <1>2 DEF Table
  <2> QED
    BY <1>2, <2>1 DEF UpdateDisappearanceCounts, Row
<1> HIDE DEF new
<1>3. KeepsAddresses(new, table) /\ KeepsOperator(new, table)
  BY <1>1, <1>2 DEF KeepsAddresses, KeepsOperator
<1> QED
  BY <1>3 DEF new

\* The operator's statements write the one column they are for.
LEMMA SetAliasKeeps ==
  ASSUME NEW table \in Table, NEW m \in MAC, NEW text \in Name, table[m] # NULL
  PROVE  /\ KeepsAddresses(SetDeviceAlias(table, m, text), table)
         /\ SetDeviceAlias(table, m, text)[m].alias = text
         /\ SetDeviceAlias(table, m, text)[m].operator = table[m].operator
         /\ \A k \in MAC \ {m} : SetDeviceAlias(table, m, text)[k] = table[k]
<1> DEFINE row == [table[m] EXCEPT !.alias = text]
<1>1. row \in Row /\ row # NULL /\ text # NULL
  BY TableConstants DEF Table, Row
<1>2. /\ row.ip = table[m].ip
      /\ row.ipv6 = table[m].ipv6
      /\ row.operator = table[m].operator
      /\ row.alias = text
  BY DEF Table, Row
<1>3. SetDeviceAlias(table, m, text) = [table EXCEPT ![m] = row]
  BY DEF SetDeviceAlias, UpdateRow
<1> HIDE DEF row
<1> QED
  BY <1>1, <1>2, <1>3 DEF KeepsAddresses, Table

LEMMA SetOperatorColumnKeeps ==
  ASSUME NEW table \in Table, NEW m \in MAC, NEW c \in OperatorColumn, NEW text \in Name,
         table[m] # NULL
  PROVE  /\ KeepsAddresses(SetOperatorColumn(table, m, c, text), table)
         /\ SetOperatorColumn(table, m, c, text)[m].alias = table[m].alias
         /\ \A d \in OperatorColumn :
              SetOperatorColumn(table, m, c, text)[m].operator[d] =
                IF d = c THEN Cleared(text) ELSE table[m].operator[d]
         /\ \A k \in MAC \ {m} : SetOperatorColumn(table, m, c, text)[k] = table[k]
<1> DEFINE row == [table[m] EXCEPT !.operator[c] = Cleared(text)]
<1>1. Cleared(text) \in Name \cup {NULL}
  BY DEF Cleared
<1>2. row \in Row /\ row # NULL
  BY <1>1, TableConstants DEF Table, Row
<1>3. /\ row.ip = table[m].ip
      /\ row.ipv6 = table[m].ipv6
      /\ row.alias = table[m].alias
      /\ \A d \in OperatorColumn :
           row.operator[d] = IF d = c THEN Cleared(text) ELSE table[m].operator[d]
  BY DEF Table, Row
<1>4. SetOperatorColumn(table, m, c, text) = [table EXCEPT ![m] = row]
  BY DEF SetOperatorColumn, UpdateRow
<1> HIDE DEF row
<1> QED
  BY <1>2, <1>3, <1>4 DEF KeepsAddresses, Table

-----------------------------------------------------------------------------
(* What the sources say of a device: the columns a sighting carries. *)

\* SameSighting(new, old): two rows agree in them, or there is no row twice.
SameSighting(new, old) ==
  /\ new = NULL <=> old = NULL
  /\ new # NULL => /\ new.ip = old.ip
                   /\ new.ipv6 = old.ipv6
                   /\ new.device_type = old.device_type
                   /\ new.metadata = old.metadata

\* What an upsert leaves in them.
LEMMA UpsertWrites ==
  ASSUME NEW table \in Table, NEW m \in MAC, NEW s \in Sighting
  PROVE  LET new    == UpsertDevice(table, m, s)[m]
             was(c) == IF table[m] = NULL THEN NULL ELSE table[m][c]
         IN  /\ new.ip = Coalesce(s.ip, was("ip"))
             /\ new.ipv6 = Coalesce(s.ipv6, was("ipv6"))
             /\ new.device_type = s.device_type
             /\ new.metadata = Coalesce(s.metadata, was("metadata"))
<1>1. CASE table[m] = NULL
  <2>1. UpsertDevice(table, m, s)[m] = InsertedRow(s)
    BY <1>1 DEF UpsertDevice, Table
  <2> QED
    BY <1>1, <2>1 DEF InsertedRow, Coalesce
<1>2. CASE table[m] # NULL
  <2>1. UpsertDevice(table, m, s)[m] = UpdatedRow(table[m], s) /\ table[m] \in Row
    BY <1>2 DEF UpsertDevice, Table
  <2>2. ASSUME NEW row \in Row
        PROVE  /\ UpdatedRow(row, s).ip = Coalesce(s.ip, row.ip)
               /\ UpdatedRow(row, s).ipv6 = Coalesce(s.ipv6, row.ipv6)
               /\ UpdatedRow(row, s).device_type = s.device_type
               /\ UpdatedRow(row, s).metadata = Coalesce(s.metadata, row.metadata)
    BY DEF UpdatedRow, Row
  <2> QED
    BY <1>2, <2>1, <2>2
<1> QED
  BY <1>1, <1>2

\* An UPDATE of other columns leaves them as they are, in every row.
LEMMA UpdateRowSame ==
  ASSUME NEW table \in Table, NEW m \in MAC, NEW row,
         table[m] # NULL => SameSighting(row, table[m])
  PROVE  \A k \in MAC : SameSighting(UpdateRow(table, m, row)[k], table[k])
<1>1. \A k \in MAC : SameSighting(table[k], table[k])
  BY DEF SameSighting
<1>2. ASSUME NEW k \in MAC, k # m
      PROVE  UpdateRow(table, m, row)[k] = table[k]
  BY <1>2 DEF UpdateRow, Table
<1>3. UpdateRow(table, m, row)[m] = IF table[m] = NULL THEN NULL ELSE row
  BY DEF UpdateRow, Table
<1> QED
  BY <1>1, <1>2, <1>3

LEMMA OtherColumnsSame ==
  ASSUME NEW table \in Table, NEW m \in MAC, NEW text \in Name, NEW c \in OperatorColumn
  PROVE  \A k \in MAC :
           /\ SameSighting(SetHostnameIfUnset(table, m, text)[k], table[k])
           /\ SameSighting(SetDeviceAlias(table, m, text)[k], table[k])
           /\ SameSighting(SetOperatorColumn(table, m, c, text)[k], table[k])
<1>1. ASSUME NEW row \in Row, NEW alias \in Name \cup {NULL}
      PROVE  /\ [row EXCEPT !.alias = alias] \in Row
             /\ SameSighting([row EXCEPT !.alias = alias], row)
  <2>1. /\ [row EXCEPT !.alias = alias] \in Row
        /\ [row EXCEPT !.alias = alias].ip = row.ip
        /\ [row EXCEPT !.alias = alias].ipv6 = row.ipv6
        /\ [row EXCEPT !.alias = alias].device_type = row.device_type
        /\ [row EXCEPT !.alias = alias].metadata = row.metadata
    BY DEF Row
  <2> QED
    BY <2>1, TableConstants DEF SameSighting
<1>2. ASSUME NEW row \in Row, NEW value \in Name \cup {NULL}
      PROVE  SameSighting([row EXCEPT !.operator[c] = value], row)
  <2>1. /\ [row EXCEPT !.operator[c] = value] \in Row
        /\ [row EXCEPT !.operator[c] = value].ip = row.ip
        /\ [row EXCEPT !.operator[c] = value].ipv6 = row.ipv6
        /\ [row EXCEPT !.operator[c] = value].device_type = row.device_type
        /\ [row EXCEPT !.operator[c] = value].metadata = row.metadata
    BY DEF Row
  <2> QED
    BY <2>1, TableConstants DEF SameSighting
<1>3. table[m] # NULL => table[m] \in Row
  BY DEF Table
<1>4. \A k \in MAC : SameSighting(SetHostnameIfUnset(table, m, text)[k], table[k])
  <2>1. table[m] # NULL => Coalesce(table[m].alias, text) \in Name \cup {NULL}
    BY <1>3 DEF Coalesce, Row
  <2> QED
    BY <1>1, <1>3, <2>1, UpdateRowSame DEF SetHostnameIfUnset
<1>5. \A k \in MAC : SameSighting(SetDeviceAlias(table, m, text)[k], table[k])
  BY <1>1, <1>3, UpdateRowSame DEF SetDeviceAlias
<1>6. \A k \in MAC : SameSighting(SetOperatorColumn(table, m, c, text)[k], table[k])
  <2>1. Cleared(text) \in Name \cup {NULL}
    BY DEF Cleared
  <2> QED
    BY <1>2, <1>3, <2>1, UpdateRowSame DEF SetOperatorColumn
<1> QED
  BY <1>4, <1>5, <1>6

LEMMA CountSame ==
  ASSUME NEW table \in Table, NEW seen
  PROVE  \A k \in MAC : SameSighting(UpdateDisappearanceCounts(table, seen)[k], table[k])
<1> SUFFICES ASSUME NEW k \in MAC
             PROVE  SameSighting(UpdateDisappearanceCounts(table, seen)[k], table[k])
  OBVIOUS
<1>1. /\ UpdateDisappearanceCounts(table, seen)[k] = NULL <=> table[k] = NULL
  BY CountFacts
<1>2. table[k] # NULL => table[k] \in Row
  BY DEF Table
<1>3. ASSUME NEW row \in Row, NEW n
      PROVE  /\ [row EXCEPT !.disappearance_count = n].ip = row.ip
             /\ [row EXCEPT !.disappearance_count = n].ipv6 = row.ipv6
             /\ [row EXCEPT !.disappearance_count = n].device_type = row.device_type
             /\ [row EXCEPT !.disappearance_count = n].metadata = row.metadata
  BY DEF Row
<1> QED
  BY <1>1, <1>2, <1>3 DEF UpdateDisappearanceCounts, SameSighting

\* The containers are added to a host's metadata as they were read, and nothing else.
LEMMA MergeHostWrites ==
  ASSUME NEW table \in Table, NEW m \in MAC, table[m] # NULL,
         NEW existing \in Metadata \cup {NULL}, NEW containers \in SUBSET Container
  PROVE  LET new == MergeHostContainers(table, m, existing, containers)
         IN  /\ new[m] # NULL
             /\ new[m].ip = table[m].ip
             /\ new[m].ipv6 = table[m].ipv6
             /\ new[m].device_type = table[m].device_type
             /\ new[m].metadata = MergedMetadata(existing, containers)
             /\ \A k \in MAC \ {m} : new[k] = table[k]
<1>1. table[m] \in Row
  BY DEF Table
<1>2. MergedMetadata(existing, containers) \in Metadata
  BY DEF MergedMetadata, EmptyMetadata, Metadata
<1>3. ASSUME NEW row \in Row, NEW metadata \in Metadata
      PROVE  /\ [row EXCEPT !.metadata = metadata] \in Row
             /\ [row EXCEPT !.metadata = metadata].ip = row.ip
             /\ [row EXCEPT !.metadata = metadata].ipv6 = row.ipv6
             /\ [row EXCEPT !.metadata = metadata].device_type = row.device_type
             /\ [row EXCEPT !.metadata = metadata].metadata = metadata
  BY DEF Row
<1> DEFINE row == [table[m] EXCEPT !.metadata = MergedMetadata(existing, containers)]
<1>4. row # NULL
  BY <1>1, <1>2, <1>3, TableConstants
<1>5. MergeHostContainers(table, m, existing, containers) = [table EXCEPT ![m] = row]
  BY DEF MergeHostContainers, UpdateRow
<1>6. /\ row.ip = table[m].ip
      /\ row.ipv6 = table[m].ipv6
      /\ row.device_type = table[m].device_type
      /\ row.metadata = MergedMetadata(existing, containers)
  BY <1>1, <1>2, <1>3
<1> HIDE DEF row
<1> QED
  BY <1>4, <1>5, <1>6 DEF Table
=============================================================================
