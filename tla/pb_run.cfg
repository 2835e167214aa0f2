SPECIFICATION FairSpec
CONSTANTS
  Maximum = 1
  MaxWritten = 2
  PipeSize = 2
INVARIANTS OutputIsWhole FailureEndsTheGroup
PROPERTY CallReturns
CHECK_DEADLOCK FALSE
