SPECIFICATION TasksSpec
CONSTANTS
  e1 = e1
  a1 = a1
  a2 = a2
  a3 = a3
  a4 = a4
  r1 = r1
  None = None
  Endpoint <- OneEndpoint
  Actor <- FourActors
  Reader <- OneReader
  InboxCapacity = 1
  MultiThread = FALSE
  ShutdownAllowed = TRUE
  Kinds <- AllKinds
  MaxMessages = 2
  Task = {t1, t2}
  Nobody = Nobody
  MaxRetries = 2
  ClientLimit = 2
  ServerLimit = 1
  MaxDials = 4
INVARIANTS
  NothingLost
  GivesUpOnlyWhenDown
  DialsAlone
PROPERTIES
  ImplementsInbox
  ResolveAnswered
  SendReturns
  ShutdownEndsTasks
  TasksEnd
  StreamsServed
CHECK_DEADLOCK FALSE
