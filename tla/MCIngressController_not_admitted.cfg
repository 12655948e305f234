CONSTANTS
  None = None
  Keys = {k1}
  Hosts = {1, 2}
  Specs <- TwoRuleSpecs
  Configs <- OneConfig
  InitConfig <- CfgA
  Workers = {w1, w2}
  MaxEdits = 1
  MaxIncarnations = 1
  MaxFaults = 0
  MaxLag = 2
  WatchesBreak = FALSE
  MaxAttempts = 2
SPECIFICATION Spec
SYMMETRY WorkerSymmetry
INVARIANTS
  ReadyMeansAdmitted
CHECK_DEADLOCK FALSE
