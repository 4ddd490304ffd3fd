SPECIFICATION FairSpec
CONSTANTS
  StdinCapacity = 1
  PipeCapacity = 1
  KillMayFail = TRUE
  MaxHeld = 4
PROPERTIES WaitReturns PumpReturns SendReturnsToReader
CHECK_DEADLOCK FALSE
