SPECIFICATION Spec
CONSTANTS
  Ingresses <- MCIngresses
  Edits <- MCEdits
  MaxEdits = 1
  Hosts = {1, 2, 3}
  UserHeaders = {"tag"}
  HeaderMaps <- MCHeaderMaps
  MaxItems = 4
INVARIANTS RoutesLikeIngress ProbeVerifiesRule
CHECK_DEADLOCK FALSE
