CONSTANTS
  None = None
  Keys = {k1}
  Hashes = {h1}
  IPs = {p1}
  URLs = {u1}
  MaxStates = 1
  MaxLost = 1
SPECIFICATION FairSpec
PROPERTIES
  ProbingEnds
