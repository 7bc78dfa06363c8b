SPECIFICATION Spec
CONSTANTS
  m1 = m1  m2 = m2
  ip1 = ip1  ip2 = ip2  ip3 = ip3  ip4 = ip4  v6 = v6  lan = lan
  c1 = c1  c2 = c2  g1 = g1
  n1 = n1  n2 = n2  empty = empty
  NULL = NULL
  EmptyText = empty
  MAC = {m1, m2}
  IP = {ip1}
  IPv6 = {v6}
  Segment = {lan}
  Container = {c1}
  Guest = {g1}
  Name = {n1, empty}
  MaxCount = 3
  Threshold = 2
  Observations <- OneDeviceObservations
  OperatorTexts = {}
  AlertWebhook = TRUE
  Failures = {"stop"}
INVARIANTS
  ArrivalsAnnounced
