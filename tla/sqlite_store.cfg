SPECIFICATION FairSpec
CONSTANTS
  m1 = m1  m2 = m2  m3 = m3
  scan = scan  operator = operator
  vm = vm  iot = iot
  NULL = NULL
  MAC = {m1, m2, m3}
  Type = {vm, iot}
  Writer = {scan, operator}
  Client = client
  Requests <- WriteRequests
  Filters <- TypeFilters
  Limits <- PageLimits
  Tables <- StartTables
INVARIANTS
  TypeOK
  SomeCallProceeds
  WalkComplete
PROPERTIES
  CallsAreAtomic
  CallsEnd
