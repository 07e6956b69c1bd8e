SPECIFICATION ProgressSpec
CONSTANTS
  NumLinks = 1
  Legacy = FALSE
  Fresh = 0
  MaxEvents = 1
  Warmup = 1
  Replies = {"ok"}
  MaxNow = 2
  MaxBatch = 2
  IdleSeconds = 1
  PongSeconds = 1
  StaleSeconds = 1
  MaxBackoff = 2
  MaxClock = 3
  MaxMessage = 1
  MaxConn = 2
  Node = {ue0}
  Period = 2
  Duration = 0
  Iterations = 2
  MaxMonotonic = 4
  MaxFrame = 1
  Broker = {c0, c1}
  BatchLinks = 1
  MaxUpdate = 1
  MaxSession = 1
  MaxOutage = 1
  Robot = {r0, r1}
  Brained = {r0}
  TTL = 0
  RejectWindow = 2
  MaxOvertaken = 1
  StatePeriod = 1
  Balance = TRUE
  HoldMax = 0
  TimeLimit = 1
  MaxCatchup = 2
  OverRepeats = 1
  MaxSeconds = 1
  MaxCmd = 2
  MaxReceived = 1
  NumFights = 3
  NumSlots = 2
  Handicapped = {0}
  Modems = {1}
  MaxFail = 1
  p1 = p1
  p2 = p2
  TxPort = {p1, p2}
  RxPort = {r1}
  Lane = {l1, l2}
  Src <- MCSrc
  Wave <- MCWave
  Row <- MCRow
  Batch = 2
  QueueSamples = 4
  RxRingBatches = 2
  FewerCopies = TRUE
  DirectRows = TRUE
  Torn = Torn
  Blank = Blank
  MsgSizes = {0, 1, 3, 5}
  MaxTxSeq = 6
  MaxRxSeq = 6
PROPERTIES
  EverythingEnds
CHECK_DEADLOCK FALSE
