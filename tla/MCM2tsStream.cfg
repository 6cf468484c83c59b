CONSTANTS
  Pids = {1, 2}
  Written <- MCWritten
  Files <- MCFiles
  JunkSets <- MCJunk
  BlockCells = 3
  ResyncCells = 3
  Untested = {1}
  PtsOffset = 1
  MayFail = TRUE
SPECIFICATION FairSpec
INVARIANTS
  GenuineUnlessPacketLost
  ScannedSetsAreYielded
  TrackOrder
  
PROPERTIES
  NeverRescans
  BlocksAdvance
  Terminates
  IsTrackStream
CHECK_DEADLOCK FALSE
