CONSTANTS
  TimestampScale = 700000
  PgsTracks = {1, 2}
  Files <- MCHalfOrFullyCued
  ActiveSets <- MCActive
  Ranges <- MCNoneOrFirst
  MayFail = FALSE
SPECIFICATION FairSpec
INVARIANTS
  AllInRangeExtracted
CHECK_DEADLOCK FALSE
