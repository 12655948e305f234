SPECIFICATION Spec
CONSTANTS
  None = None
  GatewayContents <- MCGatewayContents
  NetworkContents = {"good", "bad"}
  MaxEdits = 2
  MaxCrashes = 1
INVARIANTS TypeOK LoadedIsComplete NoChangeIsLost
PROPERTIES ConfigTakesEffect
CHECK_DEADLOCK FALSE
