CONSTANTS
  n1 = n1
  Nodes = {n1}
  ApiServers <- EveryApiServer
  MaxTurns = 2
  MaxVersions = 2
  MaxFaults = 1
SPECIFICATION Spec
INVARIANT TypeOK
PROPERTIES ClaimKept Settles
CHECK_DEADLOCK FALSE
