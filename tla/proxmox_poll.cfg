SPECIFICATION Spec
CONSTANTS
  g1 = g1  g2 = g2  g3 = g3  m1 = m1  m2 = m2  m3 = m3  lo = lo  ip1 = ip1
  NULL = NULL
  p1 = p1  p2 = p2
  Node = {p1, p2}
  Guest = {g1, g2, g3}
  MAC = {m1, m2, m3}
  IP = {lo, ip1}
  Routable = {ip1}
  Kind <- MCKind
  Macs <- MCMacs
  Interfaces <- MCInterfaces
  MaxChanges = 2
INVARIANTS
  TypeOK
  RecordsWereTrue
  StayersReported
