SPECIFICATION RobotFightSpec
CONSTANTS
  Robot = {r0, r1}
  Brained = {r0}
  TTL = 0
  RejectWindow = 2
  MaxOvertaken = 2
  StatePeriod = 1
  Balance = TRUE
  HoldMax = 1
  TimeLimit = 2
  MaxCatchup = 2
  OverRepeats = 1
  MaxSeconds = 2
  MaxCmd = 3
  MaxReceived = 2
  NumFights = 3
  NumSlots = 2
  Handicapped = {0, 1}
  Modems = {1}
  MaxFail = 2
  MaxStep = 1
  HeadOn = 2
  Disengage = 2
  Escape = 1
  Dodge = 2
  Stall = 2
  Backoff = 2
  MaxMoment = 12
  Delays = {0, 1, 3, 5}
  StateEvery = 1
  CtrlEvery = 2
  Ttl = 3
  HistLen = 9
  MaxHorizon = 12
  Blackouts = {0, 1, 4}
  Duration = 20
  VMax = 3
  Accel = 1
  MaxDt = 2
  Limit = 2
  Wishes <- MCWishes
  Feedbacks <- MCFeedbacks
  Steers <- MCSteers
  MaxTime = 6
  End = 3
  Second = 2
  MaxLines = 5
  MaxSeq = 2
  Timeout = 1
  Slow = 0
  MinRun = 2
  MaxEchoes = 1
  MaxProbeTime = 3
INVARIANTS
  RunnerClean
  PredictionHolds
  RecordsExact
PROPERTIES
  FightAccounted
  
  BalanceHolds
CHECK_DEADLOCK FALSE
