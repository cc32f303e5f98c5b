CONSTANTS
  trace = trace
  debug = debug
  None = None
  Levels <- MCLevels
  MaxLines = 5
  Files <- MCFilesBase
SPECIFICATION Spec
INVARIANTS TypeOK NoMissedFinding NoSpuriousFinding
PROPERTIES Termination
CHECK_DEADLOCK FALSE
