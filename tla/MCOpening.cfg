CONSTANTS
  MayFail = TRUE
  PacketSize = 2
  PatLimit = 4
  PmtLimit = 5
  TailSize = 9
  ProbeSize = 6
  SeekMargin = 5
  MaxProbes = 2
  SyncCount = 2
  Starts <- MCStarts
  OpenedFiles <- MCOpenedFiles
SPECIFICATION FairSpec
INVARIANTS
  HealthyFilesOpen
  StartsAheadOfRange
  LayoutIsTheFiles
  TracksDescribeFile
PROPERTIES
  Terminates
CHECK_DEADLOCK FALSE
