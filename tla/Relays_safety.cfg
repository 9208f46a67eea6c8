SPECIFICATION RelaysSpec
CONSTANTS
  a = a
  b = b
  a1 = a1
  a2 = a2
  a3 = a3
  b1 = b1
  NoConn = NoConn
  NoEndpoint = NoEndpoint
  Endpoint <- TwoEndpoints
  Conn <- StackAndPeer
  EndpointOf <- OwnerOfAll
  MultiThread = TRUE
  Destination <- OnlyB
  ShutdownAllowed = FALSE
  ChannelCapacity = 1
  MaxLag = 1
  u1 = u1
  u2 = u2
  RelayUrl <- TwoRelays
  Peer = {p}
  RelayInbox = 1
  SendQueue = 1
CONSTRAINTS
  StackOrPeer
  BeforeOverwrite
SYMMETRY RelaysSymmetry
INVARIANTS
  MostRecentIsActive
  RunningIsListed
  DeadEntriesAreLate
  StatusMatchesRole
  SentToNotLeaked
  ToldOrOvertaken
  MetricOffByLate
  HomeIsServed
  HomeStatusIsTrue
CHECK_DEADLOCK FALSE
