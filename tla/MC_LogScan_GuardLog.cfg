CONSTANTS
  trace = trace
  debug = debug
  None = None
  Levels <- MCLevels
  MaxLines = 4
  Files <- MCFilesGuardLog
SPECIFICATION Spec
INVARIANT NoMissedFinding
CHECK_DEADLOCK FALSE
