SPECIFICATION PathsSpec
CONSTANTS
  A = A
  B = B
  a1 = a1
  b1 = b1
  x = x
  NoPath = NoPath
  RemoteOf <- MCRemoteOf
  Tuple <- DirectPaths
  Addr <- DirectAddrs
  Relay <- Nothing
  Conn <- OneConn
  Client <- Nothing
  MaxNonRelay = 2
  MaxInactive = 1
  MaxPending = 1
  MaxItem = 1
PROPERTIES
  KeepsRecentlyClosed
CHECK_DEADLOCK FALSE
