CONSTANTS
  Steps <- MCSteps
  WriteCanFail = TRUE
SPECIFICATION Spec
INVARIANT NoTempFileLeft
CHECK_DEADLOCK FALSE
