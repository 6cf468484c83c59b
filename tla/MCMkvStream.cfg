CONSTANTS
  TimestampScale = 700000
  PgsTracks = {1, 2}
  Files <- MCFiles
  ActiveSets <- MCActive
  Ranges <- SomeRanges
  MayFail = TRUE
SPECIFICATION FairSpec
INVARIANTS
  BlocksInFileOrder
  YieldsContent
  RangeIsComplete
PROPERTIES
  Terminates
  IsTrackStream
CHECK_DEADLOCK FALSE
