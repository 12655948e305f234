CONSTANTS
  None = None
  Keys = {k1}
  Hosts = {1, 2}
  Specs <- EditedSpecs
  Configs <- TwoConfigs
  InitConfig <- CfgA
  Workers = {w1, w2}
  MaxEdits = 2
  MaxIncarnations = 1
  MaxFaults = 0
  MaxLag = 2
  WatchesBreak = TRUE
  MaxAttempts = 2
SPECIFICATION Spec
SYMMETRY WorkerSymmetry
INVARIANTS
  TypeOK
  SingleFlight
  ReadyImpliesProbed
  ReadyHasLoadBalancer
  QuietMeansConverged
PROPERTIES
  RouteNeverRegresses
  ObservedGenerationMonotone
CHECK_DEADLOCK FALSE
