SPECIFICATION ExperimentsSpec
CONSTANTS
  Snrs = {200}
  Depth = 2
  Entries = {0, 1}
  Length = 3
  Floor = 20
  MaxWindows = 3
  CellNames <- PlanCells
  MaxFlows = 3
  Offsets <- BenchOffsets
  Measure = 2
  Shift = 1
  Horizon = 3
  MaxLag = 1
  MaxDelay = 1
  MaxDup = 2
  MaxNow = 7
  Modulus = 8
  MaxLate = 1
  MaxGap = 2
  MaxSlot = 26
  MaxSeconds = 3
  MaxSegments = 120
INVARIANTS
  ConfigurationsAgree
  
  
  

  
CHECK_DEADLOCK FALSE
