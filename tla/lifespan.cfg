SPECIFICATION FairSpec
CONSTANTS
  m1 = m1  s1 = s1  s2 = s2
  EmptyIp = empty
  SomeIp = address
  NULL = NULL
  MAC = {m1, s1, s2}
  Column = {"notes", "syslog_ip"}
  MaxStops = 2
  Seed <- DemoSeed
  SeedLines = 2
  MaxLines = 3
INVARIANTS
  RowsSurvive
  WritersFindSchema
  DemoServesSeed
PROPERTIES
  MigrationOnce
  StartComesUp
