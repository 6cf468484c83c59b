CONSTANTS
  TicksPerMs = 90
  TailCells = 14
  MarginCap = 4
  MarginPart = 5
  ProbeCells = 12
  MayFail = FALSE
  Files <- MCIncomplete
  Starts <- MCStarts
SPECIFICATION Spec
INVARIANTS
  RangeIsComplete
CHECK_DEADLOCK FALSE
