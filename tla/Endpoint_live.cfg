SPECIFICATION EndpointSpec
CONSTANTS
  DoneCapacity = 1
  MaxChanges = 2
  Caller = {x, y}
  Incoming = {i, j}
  Protocol = {p}
  RouterLoop = router
INVARIANTS
  ShutdownIsComplete
PROPERTIES
  DirectAddrsCatchUp
  QuicIsTold
  CloseFinishes
CHECK_DEADLOCK FALSE
