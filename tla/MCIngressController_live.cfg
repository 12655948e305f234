CONSTANTS
  None = None
  Keys = {k1}
  Hosts = {1}
  Specs <- ClassSpecs
  Configs <- OneConfig
  InitConfig <- CfgA
  Workers = {w1}
  MaxEdits = 3
  MaxIncarnations = 2
  MaxFaults = 1
  MaxLag = 1
  WatchesBreak = FALSE
  MaxAttempts = 2
SPECIFICATION FairSpec
INVARIANTS
  QuietMeansConverged
PROPERTIES
  EventuallyConverged
CHECK_DEADLOCK FALSE
