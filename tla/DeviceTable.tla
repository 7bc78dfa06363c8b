---------------------------- MODULE DeviceTable ----------------------------
(***************************************************************************)
(* The devices table of src/database.py, one row per MAC, and the SQL      *)
(* statements that write it, each as an operator from table to table.      *)
(* vendor is a function of device_type in every caller and is left out;    *)
(* so are the wall-clock columns and scan_count, which only the dashboard  *)
(* reads.                                                                  *)
(***************************************************************************)
EXTENDS Naturals

CONSTANTS
  MAC,          \* device identities (primary keys)
  IP,           \* IPv4 addresses
  IPv6,         \* IPv6 addresses
  Segment,      \* network segment labels (interface or VLAN names)
  Container,    \* container identities
  Guest,        \* Proxmox inventory records (vm_id, node, status) as stored in metadata
  Name,         \* hostnames and operator texts, EmptyText among them
  EmptyText,    \* the empty string
  NULL,         \* SQL NULL, and "no such row" where a row is expected
  MaxCount      \* disappearance_count saturates here, see UpdateDisappearanceCounts

DeviceType == {"bare-metal", "vm", "lxc", "docker-container"}

\* Columns only the operator writes, besides alias which a scan may fill in.
OperatorColumn == {"custom_type", "notes", "syslog_ip"}

\* The JSON metadata blob, by the keys the scan loop writes.
Metadata ==
  [guest     : Guest \cup {NULL},      \* vm_id, node, status, proxmox_type
   container : Container \cup {NULL},  \* container_name, image, docker_host, ...
   vlan      : Segment \cup {NULL},    \* intf, intf_description, vlan
   hostnet   : SUBSET Container]       \* host_network_containers

EmptyMetadata ==
  [guest |-> NULL, container |-> NULL, vlan |-> NULL, hostnet |-> {}]

Row ==
  [ip                  : IP \cup {NULL},
   ipv6                : IPv6 \cup {NULL},
   device_type         : DeviceType,
   metadata            : Metadata \cup {NULL},
   alias               : Name \cup {NULL},
   operator            : [OperatorColumn -> Name \cup {NULL}],
   disappearance_count : 0..MaxCount]

Table == [MAC -> Row \cup {NULL}]

\* What one upsert_device call carries: the `excluded` row of its statement.
Sighting ==
  [ip          : IP \cup {NULL},
   ipv6        : IPv6 \cup {NULL},
   device_type : DeviceType,
   metadata    : Metadata \cup {NULL}]

\* NULL is no value of any column, and no row.
ASSUME TableConstants ==
  /\ MaxCount \in Nat
  /\ EmptyText \in Name
  /\ \A S \in {MAC, IP, IPv6, Segment, Container, Guest, Name} : NULL \notin S
  /\ NULL \notin Nat /\ NULL \notin Metadata /\ NULL \notin Row

EmptyTable == [m \in MAC |-> NULL]

Registered(table) == {m \in MAC : table[m] # NULL}

-----------------------------------------------------------------------------

\* CASE WHEN excluded.c IS NOT NULL THEN excluded.c ELSE c END
Coalesce(new, old) == IF new # NULL THEN new ELSE old

\* Faulty variant, to test the properties with: no default for the counter.
InsertedRow_NoDefault(s) ==
  [ip                  |-> s.ip,
   ipv6                |-> s.ipv6,
   device_type         |-> s.device_type,
   metadata            |-> s.metadata,
   alias               |-> NULL,
   operator            |-> [c \in OperatorColumn |-> NULL],
   disappearance_count |-> NULL]

InsertedRow(s) ==
  [ip                  |-> s.ip,
   ipv6                |-> s.ipv6,
   device_type         |-> s.device_type,
   metadata            |-> s.metadata,
   alias               |-> NULL,
   operator            |-> [c \in OperatorColumn |-> NULL],
   disappearance_count |-> 0]

\* Faulty variant, to test the properties with: the counter is not reset.
UpdatedRow_NoReset(row, s) ==
  [row EXCEPT !.ip          = Coalesce(s.ip, row.ip),
              !.ipv6        = Coalesce(s.ipv6, row.ipv6),
              !.device_type = s.device_type,
              !.metadata    = Coalesce(s.metadata, row.metadata)]

\* Faulty variant, to test the properties with: NULL overwrites a stored address.
UpdatedRow_NullOverwrites(row, s) ==
  [row EXCEPT !.ip                  = s.ip,
              !.ipv6                = s.ipv6,
              !.device_type         = s.device_type,
              !.metadata            = Coalesce(s.metadata, row.metadata),
              !.disappearance_count = 0]

UpdatedRow(row, s) ==
  [row EXCEPT !.ip                  = Coalesce(s.ip, row.ip),
              !.ipv6                = Coalesce(s.ipv6, row.ipv6),
              !.device_type         = s.device_type,
              !.metadata            = Coalesce(s.metadata, row.metadata),
              !.disappearance_count = 0]

UpsertDevice(table, m, s) ==
  [table EXCEPT ![m] = IF table[m] = NULL THEN InsertedRow(s)
                                          ELSE UpdatedRow(table[m], s)]

\* UPDATE ... WHERE mac = ?: a missing row is left missing.
UpdateRow(table, m, row) == [table EXCEPT ![m] = IF table[m] = NULL THEN NULL ELSE row]

\* Faulty variant, to test the properties with: AND alias IS NULL is missing.
SetHostname_Always(table, m, hostname) ==
  UpdateRow(table, m, [table[m] EXCEPT !.alias = hostname])

SetHostnameIfUnset(table, m, hostname) ==
  UpdateRow(table, m, [table[m] EXCEPT !.alias = Coalesce(table[m].alias, hostname)])

\* An alias is stored as given: the empty text is not turned into NULL.
SetDeviceAlias(table, m, alias) ==
  UpdateRow(table, m, [table[m] EXCEPT !.alias = alias])

\* set_custom_type, set_device_notes and set_device_syslog_ip clear on empty text.
Cleared(text) == IF text = EmptyText THEN NULL ELSE text

SetOperatorColumn(table, m, c, text) ==
  UpdateRow(table, m, [table[m] EXCEPT !.operator[c] = Cleared(text)])

\* Faulty variant, to test the properties with: nothing is counted when nothing was seen.
UpdateDisappearanceCounts_SkipEmpty(table, seen) ==
  [m \in MAC |->
     IF table[m] = NULL \/ m \in seen \/ seen = {} THEN table[m]
     ELSE [table[m] EXCEPT !.disappearance_count =
             IF @ < MaxCount THEN @ + 1 ELSE @]]

\* The counter grows without bound in the code.  The scan compares it with one
\* threshold only, so it stops here at MaxCount, above that threshold.
UpdateDisappearanceCounts(table, seen) ==
  [m \in MAC |->
     IF table[m] = NULL \/ m \in seen THEN table[m]
     ELSE [table[m] EXCEPT !.disappearance_count =
             IF @ < MaxCount THEN @ + 1 ELSE @]]

\* The UPDATE of merge_host_containers, given the metadata its SELECT returned.
MergedMetadata(existing, containers) ==
  [(IF existing = NULL THEN EmptyMetadata ELSE existing) EXCEPT !.hostnet = containers]

MergeHostContainers(table, m, existing, containers) ==
  UpdateRow(table, m, [table[m] EXCEPT !.metadata = MergedMetadata(existing, containers)])
=============================================================================
