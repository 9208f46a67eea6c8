SPECIFICATION Spec
CONSTANTS
  e1 = e1
  a1 = a1
  a2 = a2
  a3 = a3
  a4 = a4
  r1 = r1
  None = None
  Endpoint <- OneEndpoint
  Actor <- TwoActors
  Reader <- OneReader
  InboxCapacity = 1
  MultiThread = TRUE
  ShutdownAllowed = FALSE
  Kinds <- AllKinds
  MaxMessages = 2
INVARIANTS
  NothingLost
CHECK_DEADLOCK FALSE
