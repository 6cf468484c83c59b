CONSTANTS
  TicksPerMs = 90
  TailCells = 14
  MarginCap = 4
  MarginPart = 5
  ProbeCells = 12
  MayFail = TRUE
  Files <- MCFiles
  Starts <- MCStarts
SPECIFICATION FairSpec
INVARIANTS
  YieldsFromAim
  CountMatchesIterator
PROPERTIES
  Terminates
  IsTrackStream
CHECK_DEADLOCK FALSE
