CONSTANTS
  ShortRun = 3
  U8 = 4
  U16 = 128
  U32 = 8
  MaxPayload = 20
  PipeLines = 2
  MayFail = FALSE
  Setups <- MCLossySetups
  Edits <- MCEdits
SPECIFICATION Spec
INVARIANTS
  IdentityRoundTrip
CHECK_DEADLOCK FALSE
