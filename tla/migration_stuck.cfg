SPECIFICATION FairSpec
CONSTANTS
  m1 = m1  m2 = m2
  EmptyIp = empty
  SomeIp = address
  NULL = NULL
  MAC = {m1, m2}
  Column = {"notes", "syslog_ip"}
  MaxStops = 1
CHECK_DEADLOCK FALSE
PROPERTIES
  MigrationCompletes
