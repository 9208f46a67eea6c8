SPECIFICATION FairSpec
CONSTANTS
  a = a
  b = b
  a1 = a1
  a2 = a2
  a3 = a3
  b1 = b1
  NoConn = NoConn
  NoEndpoint = NoEndpoint
  Endpoint <- OneEndpoint
  Conn <- StackPair
  EndpointOf <- OwnerInPair
  MultiThread = TRUE
  Destination <- NoDestination
  ShutdownAllowed = FALSE
  ChannelCapacity = 1
  MaxLag = 1
PROPERTY EndedLeaveRegistry
