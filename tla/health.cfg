SPECIFICATION FairSpec
CONSTANTS
  NULL = NULL
  Configured <- OpnsenseOnly
  Interval = 3
  GatherLimit = 2
  MergeLimit = 1
  Failures = {"source", "merge"}
INVARIANTS
  GreenMeansRecent
  SteadySourcesOk
PROPERTIES
  Recovers
