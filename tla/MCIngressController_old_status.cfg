CONSTANTS
  None = None
  Keys = {k1}
  Hosts = {1}
  Specs <- OneHostSpecs
  Configs <- OneConfig
  InitConfig <- CfgA
  Workers = {w1, w2}
  MaxEdits = 3
  MaxIncarnations = 2
  MaxFaults = 0
  MaxLag = 2
  WatchesBreak = FALSE
  MaxAttempts = 2
SPECIFICATION Spec
SYMMETRY WorkerSymmetry
INVARIANTS
  ReadyImpliesProbed
CHECK_DEADLOCK FALSE
