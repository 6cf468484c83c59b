CONSTANTS
  ShortRun = 3
  U8 = 4
  U16 = 128
  U32 = 8
  MaxPayload = 20
  PipeLines = 2
  MayFail = TRUE
  Setups <- MCSetups
  Edits <- MCEdits
SPECIFICATION FairSpec
INVARIANTS
  RoundTrip
  LeavesNoFile
  AcceptsWhatStreamWrites
  ExtractIsLossless
PROPERTIES
  EncodesWhatIsSaid
  Terminates
CHECK_DEADLOCK FALSE
