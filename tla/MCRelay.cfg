SPECIFICATION RelaySpec
CONSTANTS
  A = A
  B = B
  Node = {A, B}
  TxPort <- OneTx
  RxPort <- TwoRx
  Lane <- FanOutLanes
  Src <- MCSrc
  Dst <- MCDst
  TxNode <- MCTxNode
  RxNode <- MCRxNode
  Wave <- MCWave
  Row <- AlignedRow
  Blank = Blank
  Torn = Torn
  Batch = 3
  QueueSamples = 6
  RxRingBatches = 2
  FewerCopies = TRUE
  DirectRows = TRUE
  MsgSizes = {1, 3}
  HeadStart = 3
  MaxTxSeq = 3
  MaxRxSeq = 3
INVARIANTS
  SiblingWindows
PROPERTIES
  ImplementsRxPorts
  StreamDelivered
