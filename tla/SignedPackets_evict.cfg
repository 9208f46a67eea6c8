SPECIFICATION FairSpec
CONSTANTS
  k1 = k1
  c1 = c1
  None = None
  Key <- OneKey
  Packet <- ThreePackets
  Client <- OneClient
  MaxTime = 3
  Eviction = 0
  InboxCapacity = 1
  MaxBatch = 2
  MaxRestarts = 1
  MayFail = TRUE
INVARIANTS
  IndexCovers
PROPERTIES
  ImplementsStore
  ExpiredRemoved
  DropReturns
CHECK_DEADLOCK FALSE
