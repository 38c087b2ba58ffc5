SPECIFICATION Spec
CONSTANTS
  NumNodes = 2
  PoolThreads = 2
  Scanners <- MCScanners
  LogsOn <- MCLogsOn
  Sizes <- MCSizes
  Batch = 2
  MaxScan = 3
INVARIANTS TypeOK ResultsReady FrameOutlivesTasks
PROPERTIES ScanEnds PoolStops
CHECK_DEADLOCK FALSE
