SPECIFICATION PartsSpec
CONSTANTS
  x1 = x1
  x2 = x2
  A = A
  B = B
  R = R
  p1 = p1
  p2 = p2
  p3 = p3
  ProbedRelay <- Two
  QadRelay <- Two
  HttpsProbes = TRUE
  Family <- Families
  Latency <- Latencies46
  Attempts = 1
  MaxHistory = 2
  MaxVersion = 1
  MaxStamp = 2
  Resolver = {r}
  Dht = TRUE
  Endpoint <- Two
  Actor = {i1, i2, i3}
  Reader = {q}
  None = None
  InboxCapacity = 1
  MultiThread = TRUE
  ShutdownAllowed = TRUE
  Kinds = {"ResolveEmpty", "AddConnection", "SendDatagram"}
  MaxMessages = 2
  Tuple <- Paths
  Addr = {A, B, R}
  RemoteOf <- PathTo
  Relay = {R}
  Conn <- Two
  Client <- Two
  NoPath = NoPath
  MaxNonRelay = 2
  MaxInactive = 1
  MaxPending = 1
  MaxItem = 1
SYMMETRY PartsSymmetry
INVARIANTS
  PartsTypeOK
  SuccessIsStored
  StaleOnlyIfCrossed
  WaitingIsLookedUp
  WaitingMeansNoPaths
  SelectedWorks
PROPERTIES
  KeepsUseful
  PreferredIsGood
  BlankIsChecked
CHECK_DEADLOCK FALSE
