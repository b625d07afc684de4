SPECIFICATION FairSpec
CONSTANTS
  U16 = 65536
  ULLONG_MAX = 255
  Callers <- MCCallers
  Inputs <- MCInputs
INVARIANTS
  SplitInvariance
  PauseTransparency
  AssertionsHold
  ReportedAsWritten
PROPERTIES
  Terminates
CHECK_DEADLOCK FALSE
