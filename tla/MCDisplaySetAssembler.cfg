CONSTANTS
  Segment <- MCSegment
  MaxCalls = 6
SPECIFICATION Spec
INVARIANTS
  ReturnsExactlyTheRuns
  HoldsTheOpenRun
CHECK_DEADLOCK FALSE
