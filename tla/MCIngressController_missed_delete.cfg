CONSTANTS
  None = None
  Keys = {k1}
  Hosts = {1}
  Specs <- OneHostSpecs
  Configs <- OneConfig
  InitConfig <- CfgA
  Workers = {w1}
  MaxEdits = 1
  MaxIncarnations = 1
  MaxFaults = 1
  MaxLag = 1
  WatchesBreak = TRUE
  MaxAttempts = 2
SPECIFICATION Spec
INVARIANTS
  QuietMeansConverged
CHECK_DEADLOCK FALSE
