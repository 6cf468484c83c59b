CONSTANTS
  TimestampScale = 700000
  PgsTracks = {1, 2}
  Files <- MCFiles
  ActiveSets <- MCActive
  WorkerCounts <- MCWorkers
  CueThreshold = 1
  MayFail = TRUE
SPECIFICATION FairCollectSpec
INVARIANTS
  WorkersReadApart
  CollectsContent
  FailureIsReported
PROPERTIES
  Returns
CHECK_DEADLOCK FALSE
