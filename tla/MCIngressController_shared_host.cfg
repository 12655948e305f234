CONSTANTS
  None = None
  Keys = {k1, k2}
  Hosts = {1}
  Specs <- SharedHostSpecs
  Configs <- OneConfig
  InitConfig <- CfgA
  Workers = {w1}
  MaxEdits = 2
  MaxIncarnations = 1
  MaxFaults = 0
  MaxLag = 2
  WatchesBreak = FALSE
  MaxAttempts = 2
SPECIFICATION Spec
INVARIANTS
  OwnerConverges
CHECK_DEADLOCK FALSE
