--------------------------- MODULE SourcesProofs ---------------------------
(***************************************************************************)
(* What the sources return, for any replies, hosts and failures: what a    *)
(* cycle of ScanCycle expects of a gather, and of two hosts that know a    *)
(* MAC what the later one says.                                            *)
(***************************************************************************)
EXTENDS Sources, SequenceTheorems, WellFoundedInduction, TLAPS

-----------------------------------------------------------------------------
(* Updated: what a dictionary holds after a sequence of updates. *)

LEMMA Induction ==
  ASSUME NEW P \in SUBSET Nat, 0 \in P, \A n \in P : n + 1 \in P
  PROVE  P = Nat
<1> SUFFICES ASSUME Nat \ P # {} PROVE FALSE
  OBVIOUS
<1> DEFINE R == {ss \in Nat \X Nat : ss[1] < ss[2]}
<1>1. IsWellFoundedOn(R, Nat)
  BY NatLessThanWellFounded DEF OpToRel
<1>2. PICK n \in Nat \ P : \A k \in Nat \ P : <<k, n>> \notin R
  BY <1>1, WFMin
<1>3. n - 1 \in Nat /\ <<n - 1, n>> \in R
  BY <1>2
<1>4. n - 1 \in P
  BY <1>2, <1>3
<1>5. (n - 1) + 1 \in P
  BY <1>4
<1> QED
  BY <1>2, <1>5

\* The function that UpdatedUpTo(map, newer) is, if there is one.
Updates(f, map, newer, k) ==
  f = [n \in 0..k |-> IF n = 0 THEN map ELSE Update(f[n - 1], newer[n])]

LEMMA UpdatesExist ==
  ASSUME NEW map, NEW newer, NEW k \in Nat
  PROVE  \E f : Updates(f, map, newer, k)
<1> DEFINE P == {n \in Nat : \E f : Updates(f, map, newer, n)}
<1>1. 0 \in P
  <2> DEFINE f == [n \in 0..0 |-> map]
  <2>1. Updates(f, map, newer, 0)
    BY DEF Updates
  <2> QED
    BY <2>1
<1>2. ASSUME NEW j \in P
      PROVE  j + 1 \in P
  <2>1. PICK f : Updates(f, map, newer, j)
    BY <1>2
  <2> DEFINE last == Update(f[j], newer[j + 1])
             g    == [n \in 0..(j + 1) |-> IF n = j + 1 THEN last ELSE f[n]]
  <2>2. \A n \in 0..j : f[n] = IF n = 0 THEN map ELSE Update(f[n - 1], newer[n])
    BY <2>1 DEF Updates
  <2>3. \A n \in 0..j : g[n] = f[n]
    OBVIOUS
  <2>4. ASSUME NEW n \in 0..(j + 1)
        PROVE  g[n] = IF n = 0 THEN map ELSE Update(g[n - 1], newer[n])
    <3>1. CASE n = j + 1
      <4>1. n # 0 /\ n - 1 = j /\ j \in 0..j
        BY <3>1
      <4>2. g[n - 1] = f[j] /\ g[n] = last
        BY <2>3, <3>1, <4>1
      <4> QED
        BY <3>1, <4>1, <4>2
    <3>2. CASE n = 0
      <4>1. n \in 0..j
        BY <3>2
      <4> QED
        BY <2>2, <2>3, <3>2, <4>1
    <3>3. CASE n # 0 /\ n # j + 1
      <4>1. n \in 0..j /\ n - 1 \in 0..j
        BY <3>3
      <4> QED
        BY <2>2, <2>3, <3>3, <4>1
    <3> QED
      BY <3>1, <3>2, <3>3
  <2>5. Updates(g, map, newer, j + 1)
    BY <2>4 DEF Updates
  <2> QED
    BY <2>5
<1>3. P = Nat
  BY <1>1, <1>2, Induction
<1> QED
  BY <1>3

LEMMA UpdatedStep ==
  ASSUME NEW map, NEW newer, Len(newer) \in Nat
  PROVE  /\ UpdatedUpTo(map, newer)[0] = map
         /\ \A n \in 1..Len(newer) :
              UpdatedUpTo(map, newer)[n] = Update(UpdatedUpTo(map, newer)[n - 1], newer[n])
<1>1. UpdatedUpTo(map, newer) = CHOOSE f : Updates(f, map, newer, Len(newer))
  BY DEF UpdatedUpTo, Updates
<1>2. \E f : Updates(f, map, newer, Len(newer))
  BY UpdatesExist
<1>3. Updates(UpdatedUpTo(map, newer), map, newer, Len(newer))
  BY <1>1, <1>2
<1> HIDE DEF UpdatedUpTo
<1> DEFINE f == UpdatedUpTo(map, newer)
<1>4. \A n \in 0..Len(newer) : f[n] = IF n = 0 THEN map ELSE Update(f[n - 1], newer[n])
  <2> HIDE DEF f
  <2>1. Updates(f, map, newer, Len(newer))
    BY <1>3 DEF f
  <2> QED
    BY <2>1 DEF Updates
<1> QED
  BY <1>4

\* What n updates leave at key k: the last value given, or what was there.
Settled(map, newer, n, k, value) ==
  \/ value = map[k] /\ \A i \in 1..n : newer[i][k] = NULL
  \/ \E i \in 1..n : /\ newer[i][k] # NULL
                     /\ value = newer[i][k]
                     /\ \A j \in 1..n : newer[j][k] # NULL => j <= i

LEMMA UpdatedSettles ==
  ASSUME NEW map, NEW newer, Len(newer) \in Nat
  PROVE  /\ \A k \in DOMAIN map : Settled(map, newer, Len(newer), k, Updated(map, newer)[k])
         /\ DOMAIN Updated(map, newer) = DOMAIN map
         /\ map = [k \in DOMAIN map |-> map[k]] =>
              Updated(map, newer) = [k \in DOMAIN map |-> Updated(map, newer)[k]]
<1> DEFINE U(n) == UpdatedUpTo(map, newer)[n]
           Good(n) == /\ DOMAIN U(n) = DOMAIN map
                      /\ \A k \in DOMAIN map : Settled(map, newer, n, k, U(n)[k])
           P == {n \in Nat : n <= Len(newer) => Good(n)}
<1>0. U(0) = map /\ \A n \in 1..Len(newer) : U(n) = Update(U(n - 1), newer[n])
  BY UpdatedStep
<1> HIDE DEF U
<1>1. 0 \in P
  BY <1>0 DEF Settled
<1>2. ASSUME NEW n \in P, n + 1 <= Len(newer)
      PROVE  Good(n + 1)
  <2>1. n \in Nat /\ Good(n) /\ n + 1 \in 1..Len(newer) /\ (n + 1) - 1 = n
    BY <1>2
  <2>2. U(n + 1) = Update(U(n), newer[n + 1])
    BY <1>0, <2>1
  <2>3. U(n + 1) = [k \in DOMAIN map |-> Coalesce(newer[n + 1][k], U(n)[k])]
    BY <2>1, <2>2 DEF Update
  <2>4. ASSUME NEW k \in DOMAIN map
        PROVE  Settled(map, newer, n + 1, k, U(n + 1)[k])
    <3>1. U(n + 1)[k] = IF newer[n + 1][k] # NULL THEN newer[n + 1][k] ELSE U(n)[k]
      BY <2>3 DEF Coalesce
    <3>2. Settled(map, newer, n, k, U(n)[k])
      BY <2>1
    <3>3. \A i \in 1..(n + 1) : i \in 1..n \/ i = n + 1
      BY <2>1
    <3>4. 1..n \subseteq 1..(n + 1) /\ n + 1 \in 1..(n + 1) /\ \A i \in 1..(n + 1) : i <= n + 1
      BY <2>1
    <3>5. CASE newer[n + 1][k] # NULL
      BY <3>1, <3>4, <3>5 DEF Settled
    <3>6. CASE newer[n + 1][k] = NULL
      BY <3>1, <3>2, <3>3, <3>4, <3>6 DEF Settled
    <3> QED
      BY <3>5, <3>6
  <2> QED
    BY <2>3, <2>4
<1>3. \A n \in P : n + 1 \in P
  BY <1>2
<1>4. P = Nat
  BY <1>1, <1>3, Induction
<1>5. Good(Len(newer)) /\ Updated(map, newer) = U(Len(newer))
  BY <1>4 DEF Updated, U
<1>6. ASSUME map = [k \in DOMAIN map |-> map[k]]
      PROVE  U(Len(newer)) = [k \in DOMAIN map |-> U(Len(newer))[k]]
  <2>1. CASE Len(newer) = 0
    BY <1>0, <1>6, <2>1
  <2>2. CASE Len(newer) # 0
    <3>1. Len(newer) \in 1..Len(newer) /\ Len(newer) - 1 \in P /\ Good(Len(newer) - 1)
      BY <1>4, <2>2
    <3>2. DOMAIN U(Len(newer) - 1) = DOMAIN map
      BY <3>1
    <3>3. U(Len(newer)) = Update(U(Len(newer) - 1), newer[Len(newer)])
      BY <1>0, <3>1
    <3> QED
      BY <3>2, <3>3 DEF Update
  <2> QED
    BY <2>1, <2>2
<1> QED
  BY <1>5, <1>6

\* A table keeps its type, and what a reply says of a key replaces what was known.
LEMMA UpdatedType ==
  ASSUME NEW K, NEW V, NEW map \in [K -> V \cup {NULL}], NEW newer, Len(newer) \in Nat,
         \A i \in 1..Len(newer) : newer[i] \in [K -> V \cup {NULL}]
  PROVE  Updated(map, newer) \in [K -> V \cup {NULL}]
<1>1. map = [k \in K |-> map[k]] /\ DOMAIN map = K
  OBVIOUS
<1>2. /\ Updated(map, newer) = [k \in K |-> Updated(map, newer)[k]]
      /\ \A k \in K : Settled(map, newer, Len(newer), k, Updated(map, newer)[k])
  BY <1>1, UpdatedSettles
<1>3. \A k \in K : Updated(map, newer)[k] \in V \cup {NULL}
  BY <1>2 DEF Settled
<1> QED
  BY <1>2, <1>3

\* What is new replaces what was known, and nothing else does.
LEMMA UpdatedOver ==
  ASSUME NEW map, NEW none, NEW newer, Len(newer) \in Nat, DOMAIN none = DOMAIN map,
         NEW k \in DOMAIN map, none[k] = NULL
  PROVE  Updated(map, newer)[k] = Coalesce(Updated(none, newer)[k], map[k])
<1>1. /\ Settled(map, newer, Len(newer), k, Updated(map, newer)[k])
      /\ Settled(none, newer, Len(newer), k, Updated(none, newer)[k])
  BY UpdatedSettles
<1>2. CASE \A i \in 1..Len(newer) : newer[i][k] = NULL
  BY <1>1, <1>2 DEF Settled, Coalesce
<1>3. CASE \E i \in 1..Len(newer) : newer[i][k] # NULL
  <2>1. PICK i \in 1..Len(newer) :
               /\ newer[i][k] # NULL
               /\ Updated(map, newer)[k] = newer[i][k]
               /\ \A j \in 1..Len(newer) : newer[j][k] # NULL => j <= i
    BY <1>1, <1>3 DEF Settled
  <2>2. PICK j \in 1..Len(newer) :
               /\ newer[j][k] # NULL
               /\ Updated(none, newer)[k] = newer[j][k]
               /\ \A l \in 1..Len(newer) : newer[l][k] # NULL => l <= j
    BY <1>1, <1>3 DEF Settled
  <2>3. i = j
    BY <2>1, <2>2
  <2> QED
    BY <2>1, <2>2, <2>3 DEF Coalesce
<1> QED
  BY <1>2, <1>3

LEMMA LenOfTable ==
  ASSUME NEW S, NEW reply \in Seq(S), NEW newer, newer = [i \in DOMAIN reply |-> newer[i]]
  PROVE  Len(newer) = Len(reply) /\ Len(reply) \in Nat /\ 1..Len(newer) = DOMAIN reply
<1>1. Len(reply) \in Nat /\ DOMAIN reply = 1..Len(reply)
  OBVIOUS
<1>2. newer = [i \in 1..Len(reply) |-> newer[i]]
  BY <1>1
<1>3. newer \in Seq({newer[i] : i \in 1..Len(reply)})
  BY <1>1, <1>2
<1> QED
  BY <1>1, <1>2, <1>3

LEMMA ElementOfReply ==
  ASSUME NEW S, NEW reply \in Seq(S)
  PROVE  \A i \in DOMAIN reply : reply[i] \in S
OBVIOUS

LEMMA TableType ==
  ASSUME NEW K, NEW V, NEW map \in [K -> V \cup {NULL}], NEW S, NEW reply \in Seq(S),
         NEW newer, newer = [i \in DOMAIN reply |-> newer[i]],
         \A i \in DOMAIN reply : newer[i] \in [K -> V \cup {NULL}]
  PROVE  Updated(map, newer) \in [K -> V \cup {NULL}]
<1>1. Len(newer) \in Nat /\ 1..Len(newer) = DOMAIN reply
  BY LenOfTable, Zenon
<1>2. \A i \in 1..Len(newer) : newer[i] \in [K -> V \cup {NULL}]
  BY <1>1
<1> QED
  BY <1>1, <1>2, UpdatedType

LEMMA EntryType ==
  ASSUME NEW V
  PROVE  /\ NoEntries \in [MAC -> V \cup {NULL}]
         /\ \A m \in MAC, v \in V : Only(m, v) \in [MAC -> V \cup {NULL}]
BY DEF NoEntries, Only

LEMMA EntryValue ==
  ASSUME NEW m \in MAC, NEW v
  PROVE  Only(m, v)[m] = v /\ \A n \in MAC \ {m} : Only(m, v)[n] = NULL
BY DEF NoEntries, Only

-----------------------------------------------------------------------------
(* What each source makes of a reply has the type a cycle expects. *)

LEMMA DockerAddsType ==
  ASSUME NEW c \in Listed("docker")
  PROVE  DockerAdds(c) \in [MAC -> DockerInfo \cup {NULL}]
<1> DEFINE N == [mac : MAC \cup {EmptyText}, ip : IP \cup {EmptyText}]
<1>1. c.container \in Container /\ c.name \in Name /\ c.networks \in Seq(N)
  BY DEF Listed
<1>2. CASE c.hostmode \/ Usable(c) = {}
  BY <1>2, EntryType DEF DockerAdds
<1>3. CASE ~c.hostmode /\ Usable(c) # {}
  <2> DEFINE k == CHOOSE k \in Usable(c) : \A l \in Usable(c) : k <= l
             R == {ss \in Nat \X Nat : ss[1] < ss[2]}
  <2>1. Usable(c) \subseteq DOMAIN c.networks /\ DOMAIN c.networks \subseteq Nat
    <3>1. DOMAIN c.networks = 1..Len(c.networks) /\ Len(c.networks) \in Nat
      BY <1>1
    <3> QED
      BY <3>1 DEF Usable
  <2>2. \E l \in Usable(c) : \A j \in Usable(c) : l <= j
    <3>1. IsWellFoundedOn(R, Nat)
      BY NatLessThanWellFounded DEF OpToRel
    <3>2. PICK l \in Usable(c) : \A j \in Usable(c) : <<j, l>> \notin R
      BY <1>3, <2>1, <3>1, WFMin
    <3>3. ASSUME NEW j \in Usable(c) PROVE l <= j
      <4>1. j \in Nat /\ l \in Nat /\ <<j, l>> \notin R
        BY <2>1, <3>2
      <4>2. ~(j < l)
        BY <4>1
      <4> QED
        BY <4>1, <4>2
    <3> QED
      BY <3>3
  <2>3. k \in Usable(c)
    BY <2>2
  <2> HIDE DEF k
  <2>4. c.networks[k] \in N /\ c.networks[k].ip # EmptyText /\ c.networks[k].mac # EmptyText
    <3>1. k \in DOMAIN c.networks
      BY <2>1, <2>3
    <3>2. c.networks[k] \in N
      BY <1>1, <3>1, ElementOfReply
    <3> QED
      BY <2>3, <3>2 DEF Usable
  <2>5. c.networks[k].mac \in MAC /\ c.networks[k].ip \in IP
    BY <2>4
  <2>6. [container |-> c.container, name |-> c.name, ip |-> c.networks[k].ip] \in DockerInfo
    BY <1>1, <2>5 DEF DockerInfo
  <2>7. DockerAdds(c) = Only(c.networks[k].mac, [container |-> c.container, name |-> c.name,
                                                ip |-> c.networks[k].ip])
    BY <1>3 DEF DockerAdds, k
  <2>8. \A m \in MAC, v \in DockerInfo : Only(m, v) \in [MAC -> DockerInfo \cup {NULL}]
    BY EntryType
  <2> QED
    BY <2>5, <2>6, <2>7, <2>8, Zenon
<1> QED
  BY <1>2, <1>3

LEMMA AddsType ==
  ASSUME NEW s \in Walk, NEW e \in Listed(s)
  PROVE  Adds(s, e) \in Map(s)
<1>1. CASE s = "arp"
  <2>1. CASE OpnsenseMac(e.mac) /\ e.ip # EmptyText
    <3>1. e.mac \in MAC /\ [ip |-> e.ip, intf |-> e.intf] \in ArpEntry
      BY <1>1, <2>1 DEF Listed, ArpEntry, OpnsenseMac
    <3> QED
      BY <1>1, <2>1, <3>1, EntryType DEF Adds, ArpAdds, Map, Value
  <2> QED
    BY <1>1, <2>1, EntryType DEF Adds, ArpAdds, Map, Value
<1>2. CASE s = "dhcp"
  BY <1>2, EntryType DEF Adds, DhcpAdds, Map, Value, Listed
<1>3. CASE s = "ndp"
  BY <1>3, EntryType DEF Adds, NdpAdds, Map, Value, Listed, OpnsenseMac
<1>4. CASE s = "nmap"
  BY <1>4, EntryType DEF Adds, NmapAdds, Map, Value, Listed
<1>5. CASE s = "snmp"
  BY <1>5, EntryType DEF Adds, SnmpAdds, Map, Value, Listed
<1>6. CASE s = "docker"
  BY <1>6, DockerAddsType DEF Adds, Map, Value
<1> QED
  BY <1>1, <1>2, <1>3, <1>4, <1>5, <1>6 DEF Walk

LEMMA CollectType ==
  ASSUME NEW s \in Walk, NEW map \in Map(s), NEW reply \in Seq(Listed(s))
  PROVE  Collect(s, map, reply) \in Map(s)
<1> DEFINE newer == [i \in DOMAIN reply |-> Adds(s, reply[i])]
<1>1. \A i \in DOMAIN reply : reply[i] \in Listed(s)
  BY ElementOfReply
<1>2. \A i \in DOMAIN reply : newer[i] \in [MAC -> Value(s) \cup {NULL}]
  BY <1>1, AddsType DEF Map
<1>3. newer = [i \in DOMAIN reply |-> newer[i]]
  OBVIOUS
<1>4. Collect(s, map, reply) = Updated(map, newer)
  BY DEF Collect
<1> HIDE DEF newer
<1>5. map \in [MAC -> Value(s) \cup {NULL}]
  BY DEF Map
<1>6. Updated(map, newer) \in [MAC -> Value(s) \cup {NULL}]
  BY <1>2, <1>3, <1>5, TableType
<1> QED
  BY <1>4, <1>6 DEF Map

LEMMA HostnetType ==
  ASSUME NEW daemon \in Host, NEW containers \in Seq(Listed("docker"))
  PROVE  DockerTable(daemon, containers).hostnet \in [Container -> IP \cup {NULL}]
<1> DEFINE newer == [i \in DOMAIN containers |-> HostnetAdds(daemon, containers[i])]
<1>1. ASSUME NEW i \in DOMAIN containers
      PROVE  newer[i] \in [Container -> IP \cup {NULL}]
  <2>1. containers[i] \in Listed("docker")
    BY ElementOfReply
  <2>2. containers[i].container \in Container
    BY <2>1 DEF Listed
  <2>3. DaemonIp[daemon] \in IP \cup {NULL}
    BY SourcesConstants
  <2> QED
    BY <2>2, <2>3 DEF HostnetAdds, NoHostnet
<1>2. newer = [i \in DOMAIN containers |-> newer[i]]
  OBVIOUS
<1>3. DockerTable(daemon, containers).hostnet = Updated(NoHostnet, newer)
  BY DEF DockerTable
<1> HIDE DEF newer
<1>4. NoHostnet \in [Container -> IP \cup {NULL}]
  BY DEF NoHostnet
<1>5. Updated(NoHostnet, newer) \in [Container -> IP \cup {NULL}]
  <2> DEFINE S == Listed("docker")
  <2>1. containers \in Seq(S)
    OBVIOUS
  <2> HIDE DEF S
  <2> QED
    BY <1>1, <1>2, <1>4, <2>1, TableType
<1> QED
  BY <1>3, <1>5

LEMMA AddType ==
  ASSUME NEW s \in Walk, NEW map \in Result(s), NEW host \in Host, NEW reply \in Reply(s)
  PROVE  Add(s, map, host, reply) \in Result(s)
<1>1. reply \in Seq(Listed(s))
  BY DEF Reply, Walk
<1>2. CASE s # "docker"
  BY <1>1, <1>2, CollectType DEF Add, Result
<1>3. CASE s = "docker"
  <2>1. NoEntries \in Map("docker")
    BY DEF NoEntries, Map
  <2>2. Collect("docker", NoEntries, reply) \in Map("docker")
    BY <1>1, <1>3, <2>1, CollectType
  <2>3. DockerTable(host, reply).macs \in Map("docker")
    BY <2>2 DEF DockerTable
  <2>4. DockerTable(host, reply).hostnet \in [Container -> IP \cup {NULL}]
    BY <1>1, <1>3, HostnetType
  <2>5. map.macs \in Map("docker") /\ map.hostnet \in [Container -> IP \cup {NULL}]
    BY <1>3 DEF Result
  <2>6. Update(map.macs, DockerTable(host, reply).macs) \in Map("docker")
    BY <2>3, <2>5 DEF Update, Coalesce, Map
  <2>7. Update(map.hostnet, DockerTable(host, reply).hostnet) \in [Container -> IP \cup {NULL}]
    BY <2>4, <2>5 DEF Update, Coalesce
  <2> QED
    BY <1>3, <2>6, <2>7 DEF Add, DockerUpdate, Result
<1> QED
  BY <1>2, <1>3

-----------------------------------------------------------------------------
(* Type correctness, with what it says of a gather: its answers are an       *)
(* Observation, whatever failed.                                             *)

LEMMA HostsFacts ==
  /\ \A s \in Source : Hosts[s] \in Seq(Host) /\ Len(Hosts[s]) \in Nat
  /\ Walk \subseteq Source
  /\ ProxmoxHosts = 1..Len(Hosts["proxmox"]) /\ Len(Hosts["proxmox"]) \in Nat
<1>1. \A s \in Source : Hosts[s] \in Seq(Host)
  BY SourcesConstants
<1>2. \A s \in Source : Len(Hosts[s]) \in Nat
  BY <1>1
<1> QED
  BY <1>1, <1>2 DEF ProxmoxHosts, Source

LEMMA NothingType == \A s \in Walk : Nothing(s) \in Result(s)
BY DEF Walk, Nothing, Result, NoContainers, NoEntries, NoHostnet, Map

LEMMA NothingObservedType == NothingObserved \in Observation
BY DEF NothingObserved, Observation

LEMMA CleanType ==
  /\ \A s \in Walk : 1 \in 1..(Len(Hosts[s]) + 1)
  /\ \A s \in Walk : [t \in Walk |-> Nothing(t)][s] \in Result(s)
BY HostsFacts, NothingType

\* The list that ProxmoxMap uses: no partial result is awaited, and one that failed is empty.
LEMMA ProxmoxList ==
  ASSUME TypeOK, \A i \in ProxmoxHosts : partials[i] # PENDING,
         NEW newer, newer = [i \in ProxmoxHosts |-> Answer(i)]
  PROVE  /\ Len(newer) = Len(Hosts["proxmox"])
         /\ \A i \in ProxmoxHosts : newer[i] \in Map("proxmox")
<1>1. ASSUME NEW i \in ProxmoxHosts
      PROVE  Answer(i) \in Map("proxmox")
  <2>1. partials[i] = NULL \/ partials[i] \in Replies["proxmox"]
    BY DEF TypeOK
  <2>2. \A reply \in Replies["proxmox"] : reply \in Map("proxmox")
    BY SourcesConstants DEF Source, Reply, Map, Value
  <2> QED
    BY <2>1, <2>2 DEF Answer, NoEntries, Map
<1>2. ProxmoxHosts = 1..Len(Hosts["proxmox"]) /\ Len(Hosts["proxmox"]) \in Nat
  BY HostsFacts
<1>3. newer \in Seq(Map("proxmox"))
  BY <1>1, <1>2
<1> QED
  BY <1>1, <1>2, <1>3

LEMMA ProxmoxMapType ==
  ASSUME TypeOK, \A i \in ProxmoxHosts : partials[i] # PENDING
  PROVE  ProxmoxMap \in [MAC -> ProxmoxInfo \cup {NULL}]
<1> DEFINE newer == [i \in ProxmoxHosts |-> Answer(i)]
<1>1. /\ Len(newer) \in Nat
      /\ \A i \in 1..Len(newer) : newer[i] \in [MAC -> ProxmoxInfo \cup {NULL}]
  BY ProxmoxList, HostsFacts DEF Map, Value
<1>2. ProxmoxMap = Updated(NoEntries, newer)
  BY DEF ProxmoxMap
<1>3. NoEntries \in [MAC -> ProxmoxInfo \cup {NULL}]
  BY DEF NoEntries
<1> HIDE DEF newer
<1> QED
  BY <1>1, <1>2, <1>3, UpdatedType

\* found and at, and the partial results, are types conjunct by conjunct.
LEMMA TypeStep == TypeOK /\ [Next]_vars => TypeOK'
<1> SUFFICES ASSUME TypeOK, [Next]_vars PROVE TypeOK'
  OBVIOUS
<1>1. CASE UNCHANGED vars
  BY <1>1 DEF vars, TypeOK, ProxmoxHosts
<1>2. CASE Gather
  BY <1>2 DEF Gather, TypeOK, ProxmoxHosts
<1>3. ASSUME NEW s \in Walk, HostAnswers(s)
      PROVE  TypeOK'
  <2>1. PICK reply \in Replies[s] :
               found' = [found EXCEPT ![s] = Add(s, found[s], Hosts[s][at[s]], reply)]
    BY <1>3 DEF HostAnswers
  <2>2. at[s] \in 1..Len(Hosts[s]) /\ Len(Hosts[s]) \in Nat
    BY <1>3, HostsFacts DEF HostAnswers, CanAsk, Finished, TypeOK
  <2>3. Hosts[s][at[s]] \in Host
    BY <2>2, HostsFacts
  <2>4. reply \in Reply(s) /\ found[s] \in Result(s)
    BY <2>1, SourcesConstants, HostsFacts DEF TypeOK
  <2>5. Add(s, found[s], Hosts[s][at[s]], reply) \in Result(s)
    BY <2>3, <2>4, AddType
  <2>6. DOMAIN found' = Walk /\ \A t \in Walk : found'[t] \in Result(t)
    BY <2>1, <2>5 DEF TypeOK
  <2>7. DOMAIN at' = Walk /\ \A t \in Walk : at'[t] \in 1..(Len(Hosts[t]) + 1)
    BY <1>3, <2>2 DEF HostAnswers, TypeOK
  <2> QED
    BY <1>3, <2>6, <2>7 DEF HostAnswers, CanAsk, TypeOK, ProxmoxHosts
<1>4. ASSUME NEW s \in Walk, HostFails(s) \/ ToolMissing(s)
      PROVE  TypeOK'
  <2>1. at[s] \in 1..Len(Hosts[s]) /\ Len(Hosts[s]) \in Nat
    BY <1>4, HostsFacts DEF HostFails, ToolMissing, CanAsk, Finished, TypeOK
  <2>2. DOMAIN at' = Walk /\ \A t \in Walk : at'[t] \in 1..(Len(Hosts[t]) + 1)
    BY <1>4, <2>1 DEF HostFails, ToolMissing, TypeOK
  <2> QED
    BY <1>4, <2>2 DEF HostFails, ToolMissing, TypeOK, ProxmoxHosts
<1>5. ASSUME NEW i \in ProxmoxHosts, ProxmoxStep(i)
      PROVE  TypeOK'
  BY <1>5 DEF ProxmoxStep, ProxmoxAnswers, ProxmoxFails, TypeOK, ProxmoxHosts
<1>6. CASE Gathered
  <2>1. ProxmoxMap \in [MAC -> ProxmoxInfo \cup {NULL}]
    BY <1>6, ProxmoxMapType DEF Gathered
  <2>2. /\ found["arp"] \in [MAC -> ArpEntry \cup {NULL}]
        /\ found["docker"].macs \in [MAC -> DockerInfo \cup {NULL}]
        /\ found["docker"].hostnet \in [Container -> IP \cup {NULL}]
        /\ found["dhcp"] \in [MAC -> Name \cup {NULL}]
        /\ found["ndp"] \in [MAC -> IPv6 \cup {NULL}]
        /\ found["nmap"] \in [MAC -> IP \cup {NULL}]
        /\ found["snmp"] \in [MAC -> IP \cup {NULL}]
    BY DEF TypeOK, Walk, Result, Map, Value
  <2>3. obs' \in Observation
    BY <1>6, <2>1, <2>2 DEF Gathered, Observation
  <2> QED
    BY <1>6, <2>3 DEF Gathered, TypeOK, ProxmoxHosts
<1>7. CASE CycleEnds \/ \E s \in Walk : QueryRaises(s)
  BY <1>7, CleanType, NothingObservedType
    DEF CycleEnds, QueryRaises, Forget, TypeOK, ProxmoxHosts
<1> QED
  BY <1>1, <1>2, <1>3, <1>4, <1>5, <1>6, <1>7 DEF Next, WalkStep

\* Whatever the hosts answer, or fail to, what a gather returns is an Observation,
\* as ScanCycle takes it, and every walk stays within its hosts.
THEOREM TypeCorrect == Spec => []TypeOK
<1>1. Init => TypeOK
  BY CleanType, NothingObservedType DEF Init, TypeOK
<1> QED
  BY <1>1, TypeStep, PTL DEF Spec

-----------------------------------------------------------------------------
(* The last host wins. *)

\* What was told before a walk's position, and by which Proxmox host what.
ToldInv ==
  /\ \A t \in told :
       \/ t[1] \in Walk /\ t[2] \in Nat /\ t[2] < at[t[1]] /\ t[3] \in Replies[t[1]]
       \/ t[1] = "proxmox" /\ t[2] \in ProxmoxHosts /\ t[3] = partials[t[2]] /\ t[3] \in Replies["proxmox"]
  /\ \A i \in ProxmoxHosts :
       partials[i] \in Replies["proxmox"] => <<"proxmox", i, partials[i]>> \in told

\* Those who said something of a MAC, and the value the last of them gave.
Tells(s, m) == {t \in told : t[1] = s /\ Alone(s, t[3])[m] # NULL}

LastTold(s, m, value) ==
  IF Tells(s, m) = {} THEN value = NULL
  ELSE \E t \in Tells(s, m) : /\ \A u \in Tells(s, m) : u[2] <= t[2]
                              /\ value = Alone(s, t[3])[m]

Found(s) == IF s = "docker" THEN found[s].macs ELSE found[s]

\* The last host wins at every position of every walk.
FoundInv == \A s \in Walk, m \in MAC : LastTold(s, m, Found(s)[m])

\* What the cycle uses is what the queries found.
ObsInv ==
  phase = "merge" =>
    /\ \A i \in ProxmoxHosts : partials[i] # PENDING
    /\ obs.proxmox = ProxmoxMap
    /\ obs.docker = Found("docker") /\ obs.ndp = Found("ndp")
    /\ obs.nmap = Found("nmap") /\ obs.snmp = Found("snmp")

SourcesInv == TypeOK /\ ToldInv /\ FoundInv /\ ObsInv

\* A reply changes a walk's map where it says something, and only there.
LEMMA AddSays ==
  ASSUME NEW s \in Walk, NEW map \in Result(s), NEW host, NEW reply \in Reply(s), NEW m \in MAC
  PROVE  LET macs(r) == IF s = "docker" THEN r.macs ELSE r
         IN  macs(Add(s, map, host, reply))[m] = Coalesce(Alone(s, reply)[m], macs(map)[m])
<1> DEFINE newer == [i \in DOMAIN reply |-> Adds(s, reply[i])]
<1>1. reply \in Seq(Listed(s)) /\ s # "proxmox"
  BY DEF Reply, Walk
<1>2. newer = [i \in DOMAIN reply |-> newer[i]]
  OBVIOUS
<1>3. \A old : Collect(s, old, reply) = Updated(old, newer)
  BY DEF Collect
<1> HIDE DEF newer
<1>4. Len(newer) \in Nat
  <2> DEFINE S == Listed(s)
  <2>1. reply \in Seq(S)
    BY <1>1
  <2> HIDE DEF S
  <2>2. Len(newer) = Len(reply) /\ Len(reply) \in Nat
    BY <1>2, <2>1, LenOfTable
  <2> QED
    BY <2>2
<1>5. DOMAIN NoEntries = MAC /\ NoEntries[m] = NULL
  BY DEF NoEntries
<1>6. CASE s # "docker"
  <2>1. map \in [MAC -> Value(s) \cup {NULL}]
    BY <1>6 DEF Result, Map
  <2>2. DOMAIN map = MAC
    BY <2>1
  <2>3. Updated(map, newer)[m] = Coalesce(Updated(NoEntries, newer)[m], map[m])
    BY <1>4, <1>5, <2>2, UpdatedOver
  <2> QED
    BY <1>1, <1>3, <1>6, <2>3 DEF Add, Alone
<1>7. CASE s = "docker"
  <2>1. DOMAIN map.macs = MAC
    BY <1>7 DEF Result, Map
  <2>2. DockerTable(host, reply).macs = Alone(s, reply)
    BY <1>1, <1>7 DEF DockerTable, Alone
  <2>3. Add(s, map, host, reply).macs = Update(map.macs, Alone(s, reply))
    BY <1>7, <2>2 DEF Add, DockerUpdate
  <2>4. Add(s, map, host, reply).macs[m] = Coalesce(Alone(s, reply)[m], map.macs[m])
    BY <2>1, <2>3 DEF Update
  <2> QED
    BY <1>7, <2>4
<1> QED
  BY <1>6, <1>7

LEMMA AnswerFound ==
  ASSUME TypeOK, ToldInv, FoundInv, NEW s \in Walk, HostAnswers(s)
  PROVE  ToldInv' /\ FoundInv'
<1>1. PICK reply \in Replies[s] :
             /\ found' = [found EXCEPT ![s] = Add(s, found[s], Hosts[s][at[s]], reply)]
             /\ told' = told \cup {<<s, at[s], reply>>}
  BY DEF HostAnswers
<1>2. at[s] \in Nat /\ at' = [at EXCEPT ![s] = @ + 1] /\ DOMAIN at = Walk /\ \A t \in Walk : at[t] \in Nat
  BY HostsFacts DEF HostAnswers, TypeOK
<1>3. at'[s] = at[s] + 1 /\ \A t \in Walk \ {s} : at'[t] = at[t]
  BY <1>2
<1>4. partials' = partials /\ ProxmoxHosts' = ProxmoxHosts /\ s # "proxmox"
  BY DEF HostAnswers, ProxmoxHosts, Walk
<1>5. reply \in Reply(s) /\ found[s] \in Result(s)
  BY SourcesConstants, HostsFacts DEF TypeOK
<1>6. ToldInv'
  <2>1. ASSUME NEW t \in told'
        PROVE  \/ t[1] \in Walk /\ t[2] \in Nat /\ t[2] < at'[t[1]] /\ t[3] \in Replies[t[1]]
               \/ /\ t[1] = "proxmox" /\ t[2] \in ProxmoxHosts' /\ t[3] = partials'[t[2]]
                  /\ t[3] \in Replies["proxmox"]
    <3>1. CASE t \in told
      BY <1>2, <1>3, <1>4, <3>1 DEF ToldInv
    <3>2. CASE t = <<s, at[s], reply>>
      BY <1>2, <1>3, <3>2
    <3> QED
      BY <1>1, <3>1, <3>2
  <2> QED
    BY <1>1, <1>4, <2>1 DEF ToldInv
<1>7. ASSUME NEW r \in Walk, NEW m \in MAC
      PROVE  LastTold(r, m, Found(r)[m])'
  <2> DEFINE new == <<s, at[s], reply>>
  <2>1. LastTold(r, m, Found(r)[m])
    BY DEF FoundInv
  <2>2. CASE r # s
    <3>1. Tells(r, m)' = Tells(r, m)
      BY <1>1, <2>2 DEF Tells
    <3>2. Found(r)' = Found(r)
      BY <1>1, <2>2 DEF Found, TypeOK
    <3> QED
      BY <2>1, <3>1, <3>2 DEF LastTold
  <2>3. CASE r = s
    <3>1. Found(s)'[m] = Coalesce(Alone(s, reply)[m], Found(s)[m])
      BY <1>1, <1>5, AddSays DEF Found, TypeOK
    <3>2. CASE Alone(s, reply)[m] # NULL
      <4>1. new \in Tells(s, m)'
        BY <1>1, <3>2 DEF Tells
      <4>2. \A u \in Tells(s, m)' : u[2] <= new[2]
        BY <1>1, <1>2 DEF Tells, ToldInv, Walk
      <4>3. Found(s)'[m] = Alone(s, new[3])[m]
        BY <3>1, <3>2 DEF Coalesce
      <4> QED
        BY <2>3, <4>1, <4>2, <4>3 DEF LastTold
    <3>3. CASE Alone(s, reply)[m] = NULL
      <4>1. Tells(s, m)' = Tells(s, m)
        BY <1>1, <3>3 DEF Tells
      <4>2. Found(s)'[m] = Found(s)[m]
        BY <3>1, <3>3 DEF Coalesce
      <4> QED
        BY <2>1, <2>3, <4>1, <4>2 DEF LastTold
    <3> QED
      BY <3>2, <3>3
  <2> QED
    BY <2>2, <2>3
<1> QED
  BY <1>6, <1>7 DEF FoundInv

LEMMA ForgetFound ==
  ASSUME Forget
  PROVE  ToldInv' /\ FoundInv'
<1>1. told' = {} /\ \A s \in Walk : found'[s] = Nothing(s)
  BY DEF Forget
<1>2. \A i \in ProxmoxHosts' : partials'[i] \notin Replies["proxmox"]
  BY SourcesConstants DEF Forget, ProxmoxHosts
<1>3. \A s \in Walk, m \in MAC : Found(s)'[m] = NULL
  BY <1>1 DEF Found, Nothing, NoContainers, NoEntries
<1> QED
  BY <1>1, <1>2, <1>3 DEF ToldInv, FoundInv, LastTold, Tells

LEMMA SourcesStep == SourcesInv /\ [Next]_vars => SourcesInv'
<1> SUFFICES ASSUME SourcesInv, [Next]_vars PROVE SourcesInv'
  OBVIOUS
<1>1. TypeOK /\ ToldInv /\ FoundInv /\ ObsInv /\ TypeOK'
  BY TypeStep DEF SourcesInv
<1>2. CASE UNCHANGED vars \/ Gather
  BY <1>1, <1>2
    DEF vars, Gather, SourcesInv, ToldInv, FoundInv, ObsInv, LastTold, Tells, Found, ProxmoxHosts,
        ProxmoxMap, Answer
<1>3. ASSUME NEW s \in Walk, HostAnswers(s)
      PROVE  SourcesInv'
  <2>1. ObsInv'
    BY <1>3 DEF HostAnswers, CanAsk, ObsInv
  <2> QED
    BY <1>1, <1>3, <2>1, AnswerFound DEF SourcesInv
<1>4. ASSUME NEW s \in Walk, HostFails(s) \/ ToolMissing(s)
      PROVE  SourcesInv'
  <2>1. phase = "gather" /\ UNCHANGED <<phase, found, partials, obs, told>>
    BY <1>4 DEF HostFails, ToolMissing, CanAsk
  <2>2. \A t \in Walk : at'[t] \in Nat /\ at[t] \in Nat /\ at[t] <= at'[t]
    <3>1. \A t \in Walk : at[t] \in Nat /\ DOMAIN at = Walk /\ Len(Hosts[t]) \in Nat
      BY <1>1, HostsFacts DEF TypeOK
    <3>2. CASE HostFails(s)
      BY <3>1, <3>2 DEF HostFails
    <3>3. CASE ToolMissing(s)
      BY <3>1, <3>3 DEF ToolMissing
    <3> QED
      BY <1>4, <3>2, <3>3
  <2>3. ToldInv'
    BY <1>1, <2>1, <2>2 DEF ToldInv, ProxmoxHosts
  <2>4. FoundInv' /\ ObsInv'
    BY <1>1, <2>1 DEF FoundInv, ObsInv, LastTold, Tells, Found
  <2> QED
    BY <1>1, <2>3, <2>4 DEF SourcesInv
<1>5. ASSUME NEW i \in ProxmoxHosts, ProxmoxStep(i)
      PROVE  SourcesInv'
  <2>1. /\ phase = "gather" /\ UNCHANGED <<phase, at, found, obs>> /\ partials[i] = PENDING
        /\ ProxmoxHosts' = ProxmoxHosts
    BY <1>5 DEF ProxmoxStep, ProxmoxAnswers, ProxmoxFails, ProxmoxHosts
  <2>2. \A t \in told : t[1] = "proxmox" => t[2] # i
    BY <1>1, <2>1, SourcesConstants DEF ToldInv, Walk
  <2>3. ToldInv'
    <3>1. CASE ProxmoxFails(i)
      BY <1>1, <2>1, <2>2, <3>1, SourcesConstants DEF ToldInv, ProxmoxFails, TypeOK
    <3>2. CASE ProxmoxAnswers(i)
      <4>1. PICK reply \in Replies["proxmox"] :
                   /\ partials' = [partials EXCEPT ![i] = reply]
                   /\ told' = told \cup {<<"proxmox", i, reply>>}
        BY <3>2 DEF ProxmoxAnswers
      <4>2. partials'[i] = reply /\ \A j \in ProxmoxHosts \ {i} : partials'[j] = partials[j]
        BY <1>1, <4>1 DEF TypeOK
      <4> QED
        BY <1>1, <2>1, <2>2, <4>1, <4>2 DEF ToldInv
    <3> QED
      BY <1>5, <3>1, <3>2 DEF ProxmoxStep
  <2>4. \A s \in Walk, m \in MAC : Tells(s, m)' = Tells(s, m)
    BY <1>5 DEF Tells, ProxmoxStep, ProxmoxFails, ProxmoxAnswers, Walk
  <2>5. FoundInv' /\ ObsInv'
    BY <1>1, <2>1, <2>4 DEF FoundInv, ObsInv, LastTold, Found
  <2> QED
    BY <1>1, <2>3, <2>5 DEF SourcesInv
<1>6. CASE Gathered
  <2>1. UNCHANGED <<at, found, partials, told>> /\ \A i \in ProxmoxHosts : partials[i] # PENDING
    BY <1>6 DEF Gathered
  <2>2. ToldInv' /\ FoundInv'
    BY <1>1, <2>1 DEF ToldInv, FoundInv, LastTold, Tells, Found, ProxmoxHosts
  <2>3. ObsInv'
    BY <1>6, <2>1 DEF Gathered, ObsInv, Found, ProxmoxMap, Answer, ProxmoxHosts
  <2> QED
    BY <1>1, <2>2, <2>3 DEF SourcesInv
<1>7. CASE CycleEnds \/ \E s \in Walk : QueryRaises(s)
  <2>1. Forget /\ phase' = "idle"
    BY <1>7 DEF CycleEnds, QueryRaises
  <2> QED
    BY <1>1, <2>1, ForgetFound DEF SourcesInv, ObsInv
<1> QED
  BY <1>2, <1>3, <1>4, <1>5, <1>6, <1>7 DEF Next, WalkStep

LEMMA SourcesInitially == Init => SourcesInv
<1> SUFFICES ASSUME Init PROVE SourcesInv
  OBVIOUS
<1>1. TypeOK
  BY CleanType, NothingObservedType DEF Init, TypeOK
<1>2. \A s \in Walk, m \in MAC : Found(s)[m] = NULL
  BY DEF Init, Found, Nothing, NoContainers, NoEntries
<1>3. \A i \in ProxmoxHosts : partials[i] \notin Replies["proxmox"]
  BY SourcesConstants DEF Init
<1> QED
  BY <1>1, <1>2, <1>3 DEF Init, SourcesInv, ToldInv, FoundInv, ObsInv, LastTold, Tells

\* The partial results are used in the order of the configuration, so the last one stays.
LEMMA ProxmoxSaysLast ==
  ASSUME SourcesInv, phase = "merge", NEW m \in MAC
  PROVE  LastTold("proxmox", m, obs.proxmox[m])
<1> DEFINE newer == [i \in ProxmoxHosts |-> Answer(i)]
           n == Len(Hosts["proxmox"])
<1>1. /\ TypeOK /\ ToldInv /\ obs.proxmox = ProxmoxMap
      /\ \A i \in ProxmoxHosts : partials[i] # PENDING
  BY DEF SourcesInv, ObsInv
<1>2. Len(newer) = n /\ n \in Nat /\ ProxmoxHosts = 1..n
  BY <1>1, ProxmoxList, HostsFacts
<1>3. \A i \in 1..n : newer[i] = Answer(i)
  BY <1>2
<1>4. ProxmoxMap = Updated(NoEntries, newer)
  BY DEF ProxmoxMap
<1>5. DOMAIN NoEntries = MAC /\ NoEntries[m] = NULL
  BY DEF NoEntries
<1> HIDE DEF newer, n
<1>6. Settled(NoEntries, newer, n, m, obs.proxmox[m])
  BY <1>1, <1>2, <1>4, <1>5, UpdatedSettles
<1>7. ASSUME NEW i \in 1..n, newer[i][m] # NULL
      PROVE  <<"proxmox", i, partials[i]>> \in Tells("proxmox", m) /\ newer[i][m] = partials[i][m]
  <2>1. partials[i] # NULL
    BY <1>3, <1>5, <1>7 DEF Answer
  <2>2. Answer(i) = partials[i] /\ partials[i] \in Replies["proxmox"]
    BY <1>1, <1>2, <2>1 DEF Answer, TypeOK
  <2>3. <<"proxmox", i, partials[i]>> \in told
    BY <1>1, <1>2, <2>2 DEF ToldInv
  <2> QED
    BY <1>3, <1>7, <2>2, <2>3 DEF Tells, Alone
<1>8. ASSUME NEW t \in Tells("proxmox", m)
      PROVE  t[2] \in 1..n /\ newer[t[2]][m] # NULL
  <2>1. t \in told /\ t[1] = "proxmox" /\ t[3][m] # NULL
    BY DEF Tells, Alone
  <2>2. t[2] \in 1..n /\ t[3] = partials[t[2]] /\ t[3] \in Replies["proxmox"]
    BY <1>1, <1>2, <2>1 DEF ToldInv, Walk
  <2>3. partials[t[2]] # NULL
    BY <2>2, SourcesConstants
  <2> QED
    BY <1>3, <2>1, <2>2, <2>3 DEF Answer
<1>9. CASE \A i \in 1..n : newer[i][m] = NULL
  <2>1. Tells("proxmox", m) = {}
    BY <1>8, <1>9
  <2> QED
    BY <1>5, <1>6, <1>9, <2>1 DEF Settled, LastTold
<1>10. CASE \E i \in 1..n : newer[i][m] # NULL
  <2>1. PICK i \in 1..n : /\ newer[i][m] # NULL /\ obs.proxmox[m] = newer[i][m]
                          /\ \A j \in 1..n : newer[j][m] # NULL => j <= i
    BY <1>6, <1>10 DEF Settled
  <2> DEFINE t == <<"proxmox", i, partials[i]>>
  <2>2. t \in Tells("proxmox", m) /\ obs.proxmox[m] = Alone("proxmox", t[3])[m]
    BY <1>7, <2>1 DEF Alone
  <2>3. \A u \in Tells("proxmox", m) : u[2] <= t[2]
    BY <1>8, <2>1
  <2> HIDE DEF t
  <2> QED
    BY <2>2, <2>3 DEF LastTold
<1> QED
  BY <1>9, <1>10

LEMMA LastHostWinsHolds == SourcesInv => LastHostWins
<1> SUFFICES ASSUME SourcesInv, phase = "merge",
                    NEW s \in {"nmap", "snmp", "docker", "proxmox"}, NEW m \in MAC
             PROVE  LastTold(s, m, obs[s][m])
  BY DEF LastHostWins, LastTold, Tells
<1>1. CASE s = "proxmox"
  BY <1>1, ProxmoxSaysLast
<1>2. CASE s # "proxmox"
  <2>1. s \in Walk /\ obs[s] = Found(s)
    BY <1>2 DEF Walk, SourcesInv, ObsInv
  <2> QED
    BY <2>1 DEF SourcesInv, FoundInv
<1> QED
  BY <1>1, <1>2

\* For any hosts, replies and failures, in whatever order the answers come in: what a
\* source says of a MAC is what the last of its hosts that knows it said.
THEOREM LastHostWinsAlways == Spec => []LastHostWins
BY SourcesInitially, SourcesStep, LastHostWinsHolds, PTL DEF Spec

-----------------------------------------------------------------------------
(* Neighbours.  The last NDP reply that says something of a device gives one *)
(* of the usable addresses, and one with a usable address says something.    *)

LEMMA NdpSays ==
  ASSUME NEW reply \in Seq(Listed("ndp")), NEW m \in MAC
  PROVE  LET usable == {ip \in IPv6 \ LinkLocal :
                          \E k \in DOMAIN reply : reply[k] = [mac |-> m, ip |-> ip]}
             value == Alone("ndp", reply)[m]
         IN  IF m \in NoDevice \/ usable = {} THEN value = NULL ELSE value \in usable
<1> DEFINE usable == {ip \in IPv6 \ LinkLocal :
                        \E k \in DOMAIN reply : reply[k] = [mac |-> m, ip |-> ip]}
           newer == [i \in DOMAIN reply |-> Adds("ndp", reply[i])]
           value == Alone("ndp", reply)[m]
<1>1. \A i \in DOMAIN reply : newer[i] = NdpAdds(reply[i])
  BY DEF Adds
<1>2. value = Updated(NoEntries, newer)[m]
  BY DEF Alone, Collect
<1>3. Len(newer) \in Nat /\ 1..Len(newer) = DOMAIN reply
  <2> DEFINE S == Listed("ndp")
  <2>1. reply \in Seq(S) /\ newer = [i \in DOMAIN reply |-> newer[i]]
    OBVIOUS
  <2> HIDE DEF S, newer
  <2> QED
    BY <2>1, LenOfTable, Zenon
<1>4. DOMAIN NoEntries = MAC /\ NoEntries[m] = NULL
  BY DEF NoEntries
<1> HIDE DEF newer, value
<1>5. Settled(NoEntries, newer, Len(newer), m, value)
  BY <1>2, <1>3, <1>4, UpdatedSettles
<1>6. ASSUME NEW i \in DOMAIN reply
      PROVE  /\ newer[i][m] # NULL => m \notin NoDevice /\ newer[i][m] \in usable
             /\ \A ip \in IPv6 \ LinkLocal :
                  m \notin NoDevice /\ reply[i] = [mac |-> m, ip |-> ip] => newer[i][m] # NULL
  <2> DEFINE e == reply[i]
  <2>1. e \in [mac : MAC \cup {Malformed}, ip : IPv6 \cup {EmptyText}]
    BY ElementOfReply DEF Listed
  <2>2. newer[i] = NdpAdds(e)
    BY <1>1
  <2>3. e = [mac |-> e.mac, ip |-> e.ip]
    BY <2>1
  <2>4. ASSUME newer[i][m] # NULL
        PROVE  m \notin NoDevice /\ newer[i][m] \in usable
    <3>1. OpnsenseMac(e.mac) /\ e.ip \in IPv6 \ LinkLocal /\ newer[i] = Only(e.mac, e.ip)
      BY <1>4, <2>1, <2>2, <2>4 DEF NdpAdds
    <3>2. e.mac \in MAC /\ e.ip \in IPv6
      BY <3>1 DEF OpnsenseMac
    <3>3. e.mac = m
      BY <2>4, <3>1, <3>2, EntryValue
    <3>4. newer[i][m] = e.ip
      BY <3>1, <3>2, <3>3, EntryValue
    <3> QED
      BY <2>3, <3>1, <3>3, <3>4 DEF OpnsenseMac
  <2>5. ASSUME NEW ip \in IPv6 \ LinkLocal, m \notin NoDevice, e = [mac |-> m, ip |-> ip]
        PROVE  newer[i][m] # NULL
    <3>1. newer[i] = Only(m, ip)
      BY <2>2, <2>5, SourcesConstants DEF NdpAdds, OpnsenseMac
    <3>2. Only(m, ip)[m] = ip
      BY EntryValue
    <3> QED
      BY <3>1, <3>2, TableConstants
  <2> QED
    BY <2>4, <2>5
<1> HIDE DEF usable
<1>7. m \in NoDevice => value = NULL
  BY <1>3, <1>4, <1>5, <1>6 DEF Settled
<1>8. value = NULL \/ value \in usable
  BY <1>3, <1>4, <1>5, <1>6 DEF Settled
<1>9. ASSUME m \notin NoDevice, usable # {}
      PROVE  value # NULL
  <2>1. PICK ip \in usable : TRUE
    BY <1>9
  <2>2. \E i \in 1..Len(newer) : newer[i][m] # NULL
    BY <1>3, <1>6, <1>9, <2>1 DEF usable
  <2> QED
    BY <1>5, <2>2 DEF Settled
<1>10. usable = {} => value = NULL
  BY <1>8
<1>11. IF m \in NoDevice \/ usable = {} THEN value = NULL ELSE value \in usable
  BY <1>7, <1>8, <1>9, <1>10
<1> QED
  BY <1>11 DEF usable, value

LEMMA NeighboursUsableHolds == SourcesInv => NeighboursUsable
<1> SUFFICES ASSUME SourcesInv, phase = "merge", NEW m \in MAC
             PROVE  LET usable == {ip \in IPv6 \ LinkLocal :
                                     \E t \in told : /\ t[1] = "ndp"
                                                     /\ \E k \in DOMAIN t[3] :
                                                          t[3][k] = [mac |-> m, ip |-> ip]}
                    IN  IF m \in NoDevice \/ usable = {} THEN obs.ndp[m] = NULL
                        ELSE obs.ndp[m] \in usable
  BY DEF NeighboursUsable
<1> DEFINE in(reply)  == {ip \in IPv6 \ LinkLocal :
                            \E k \in DOMAIN reply : reply[k] = [mac |-> m, ip |-> ip]}
           usable     == {ip \in IPv6 \ LinkLocal :
                            \E t \in told : /\ t[1] = "ndp"
                                            /\ \E k \in DOMAIN t[3] : t[3][k] = [mac |-> m, ip |-> ip]}
           says(reply) == Alone("ndp", reply)[m]
<1>1. LastTold("ndp", m, obs.ndp[m])
  BY DEF SourcesInv, FoundInv, ObsInv, Walk
<1>2. \A t \in told : t[1] = "ndp" => t[3] \in Seq(Listed("ndp"))
  BY SourcesConstants DEF SourcesInv, ToldInv, Source, Walk, Reply
<1>3. \A t \in told : t[1] = "ndp" =>
        IF m \in NoDevice \/ in(t[3]) = {} THEN says(t[3]) = NULL ELSE says(t[3]) \in in(t[3])
  BY <1>2, NdpSays
<1>4. /\ \A t \in told : t[1] = "ndp" => in(t[3]) \subseteq usable
      /\ \A ip \in usable : \E t \in told : t[1] = "ndp" /\ ip \in in(t[3])
  OBVIOUS
<1>5. NULL \notin usable
  BY TableConstants
<1>6. Tells("ndp", m) = {t \in told : t[1] = "ndp" /\ says(t[3]) # NULL}
  BY DEF Tells
<1> HIDE DEF in, usable, says
<1>7. CASE m \in NoDevice \/ usable = {}
  <2>1. Tells("ndp", m) = {}
    BY <1>3, <1>4, <1>6, <1>7
  <2> QED
    BY <1>1, <1>7, <2>1 DEF LastTold, usable
<1>8. CASE m \notin NoDevice /\ usable # {}
  <2>1. PICK t \in told : t[1] = "ndp" /\ in(t[3]) # {}
    BY <1>4, <1>8
  <2>2. NULL \notin in(t[3])
    BY <1>4, <1>5, <2>1
  <2>3. Tells("ndp", m) # {}
    BY <1>3, <1>6, <1>8, <2>1, <2>2
  <2>4. PICK u \in Tells("ndp", m) : obs.ndp[m] = says(u[3])
    BY <1>1, <2>3 DEF LastTold, says
  <2>5. obs.ndp[m] \in usable
    BY <1>3, <1>4, <1>6, <2>4
  <2> QED
    BY <1>8, <2>5 DEF usable
<1> QED
  BY <1>7, <1>8

\* For any replies to the NDP query, with their entries in any order: a device is a
\* neighbour when it has an address that is no link-local one, and under such an address.
THEOREM NeighboursAreUsable == Spec => []NeighboursUsable
BY SourcesInitially, SourcesStep, NeighboursUsableHolds, PTL DEF Spec

=============================================================================
