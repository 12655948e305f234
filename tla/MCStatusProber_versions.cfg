CONSTANTS
  None = None
  Keys = {k1}
  Hashes = {h1, h2}
  IPs = {p1}
  URLs = {u1, u2}
  MaxStates = 2
  MaxLost = 1
SPECIFICATION Spec
SYMMETRY Interchangeable
INVARIANTS
  PendingCountsPods
  ReadyMeansAllAccepted
  NoLostWakeup
PROPERTIES
  ImplementsContract
