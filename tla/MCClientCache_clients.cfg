SPECIFICATION Spec
CONSTANTS
  None = None
  NamespacedIds <- MCNamespacedIds
  ClusterIds <- MCClusterIds
  Labels = {"x", "y"}
  Bodies <- MCBodies
  Setups <- MCSetups
  MaxWrites = 2
  MaxExpiries = 1
INVARIANTS ListersShowASnapshot FakeAgrees
PROPERTIES ImplementsVersionLog CacheCatchesUp
CHECK_DEADLOCK FALSE
