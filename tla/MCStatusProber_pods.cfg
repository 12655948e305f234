CONSTANTS
  None = None
  Keys = {k1}
  Hashes = {h1, h2}
  IPs = {p1, p2}
  URLs = {u1, u2}
  MaxStates = 1
  MaxLost = 0
SPECIFICATION FairSpec
INVARIANTS
  TypeOK
  PendingCountsPods
  CallbackOnce
  ReadyMeansAllAccepted
  NoLostWakeup
PROPERTIES
  ImplementsContract
  ProbingEnds
