SPECIFICATION DashboardSpec
CONSTANTS
  NumLinks = 2
  Legacy = FALSE
  Fresh = 0
  MaxEvents = 1
  Warmup = 1
  Replies = {"ok"}
  MaxNow = 2
  MaxBatch = 2
  IdleSeconds = 1
  PongSeconds = 1
  StaleSeconds = 1
  MaxBackoff = 2
  MaxClock = 3
  MaxMessage = 2
  MaxConn = 2
  Pid = {p1, p2}
  UtilInterval = 2
  PcieInterval = 3
  SmHold = 2
  GpuRetain = 2
  GpuEntries = 2
  MaxSampleClock = 5
  InitialTail = 3
  MaxRecord = 5
  MaxRetries = 3
  MaxSlot = 3
  Node = {ue0}
  Period = 2
  Duration = 0
  Iterations = 3
  MaxMonotonic = 6
  MaxFrame = 2
  Broker = {c0, c1}
  BatchLinks = 2
  MaxUpdate = 1
  MaxSession = 2
  MaxOutage = 1
  Courses <- MCCourses
  MaxElapsed = 16
  Delays = {0, 1, 2, 3, 7}
  Magnitudes = {0, 1, 2, 6}
  MaxRays = 3
  MaxTaps = 2
  MaxBin = 3
  MinGain = 2
  MaxGain = 5
  MaxPoints = 2
  Files <- MCFiles
  Renames <- MCRenames
  MaxLanes = 4
INVARIANTS
  AgreedFrameCurrent
  StoreTruthful
  FeedTruthful
  InputsExact
  
  UpdatesWhole
  ProfilesFaithful
PROPERTIES
  MotionFaithful
CHECK_DEADLOCK FALSE
