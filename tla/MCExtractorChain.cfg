CONSTANTS
  Tracks = {0, 1, 2}
  Files <- MCFiles
  Filters <- MCFilters
  Ranges <- MCRanges
  MaxSetup = 2
  MayFail = FALSE
  AnyOrder = TRUE
SPECIFICATION FairSpec
INVARIANT
  ChainableInAnyOrder
CHECK_DEADLOCK FALSE
