SPECIFICATION HalvesSpec
CONSTANTS
  a = a
  b = b
  a1 = a1
  a2 = a2
  a3 = a3
  b1 = b1
  NoConn = NoConn
  NoEndpoint = NoEndpoint
  Endpoint <- TwoEndpoints
  Conn <- PairConns
  EndpointOf <- OwnerOfPair
  MultiThread = TRUE
  Destination <- NoDestination
  ShutdownAllowed = TRUE
  ChannelCapacity = 1
  MaxLag = 1
  Link = {l}
INVARIANTS
  ShutdownStopsClients
  GuardIsHeld
  GracefulStops
PROPERTIES
  ShutdownReturns
  ServerStops
CHECK_DEADLOCK FALSE
