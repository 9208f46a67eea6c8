SPECIFICATION Spec
CONSTANTS
  a = a
  b = b
  a1 = a1
  a2 = a2
  a3 = a3
  b1 = b1
  NoConn = NoConn
  NoEndpoint = NoEndpoint
  Endpoint <- TwoEndpoints
  Conn <- PairConns
  EndpointOf <- OwnerOfPair
  MultiThread = TRUE
  Destination <- OnlyB
  ShutdownAllowed = FALSE
  ChannelCapacity = 1
  MaxLag = 1
INVARIANT ReceiversAreTold
