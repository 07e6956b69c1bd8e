SPECIFICATION PortsSpec
CONSTANTS
  p1 = p1
  p2 = p2
  TxPort = {p1, p2}
  RxPort = {r1}
  Lane = {l1, l2}
  Src <- MCSrc
  Wave <- MCWave
  Row <- MCRow
  Batch = 2
  QueueSamples = 4
  RxRingBatches = 2
  FewerCopies = TRUE
  DirectRows = TRUE
  Torn = Torn
  Blank = Blank
  MsgSizes = {0, 1, 3, 5}
  MaxTxSeq = 8
  MaxRxSeq = 10
  TxThread = {t1}
  RxThread = {x1}
  Chunks = {4}
  WedgePolls = 1
  Second = 10
  Rate = 3
  Unit = 4
  Recovery = 1
  Budget = 6
  Windows = {1, 2}
  MaxPace = 12
INVARIANTS
  RxReplyIntact
  RxRingSound
  RxNeverThrows
  LanesAligned
  NoSampleLost
  NoLostWake
  PacerPaced
PROPERTIES
  ImplementsWindowQueue
  ThreadsEnd
  
CHECK_DEADLOCK FALSE
