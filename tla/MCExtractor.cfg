CONSTANTS
  Tracks = {0, 1, 2}
  Files <- MCFiles
  Filters <- MCFilters
  Ranges <- MCRanges
  MaxSetup = 2
  MayFail = TRUE
  AnyOrder = TRUE
SPECIFICATION FairSpec
INVARIANTS
  DeliversOnlyTheRequest
  EndsWithTheRequest
  HistoryIsDelivered
PROPERTIES
  Fused
  Terminates
CHECK_DEADLOCK FALSE
