SPECIFICATION FairSpec
CONSTANTS
  m1 = m1  m2 = m2  bcast = bcast  bad = bad
  ip1 = ip1  ip2 = ip2  v6 = v6  fe80 = fe80  lan = lan
  c1 = c1  c2 = c2  g1 = g1  n1 = n1  empty = empty  h1 = h1  h2 = h2
  NULL = NULL
  PENDING = PENDING
  EmptyText = empty
  MAC = {m1, m2, bcast}
  IP = {ip1, ip2}
  IPv6 = {v6, fe80}
  Segment = {lan}
  Container = {c1, c2}
  Guest = {g1}
  Name = {n1, empty}
  MaxCount = 1
  NoDevice = {bcast}
  Malformed = bad
  LinkLocal = {fe80}
  IpShaped = {}
  Host = {h1, h2}
  DaemonIp <- Daemons
  Replies <- MCReplies
  Hosts <- Configured
  Failures = {"host", "tool", "raise"}
INVARIANTS
  LastHostWins
  NeighboursUsable
PROPERTIES
  GatherEnds
