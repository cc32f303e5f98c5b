CONSTANTS
  trace = trace
  debug = debug
  None = None
  Levels <- MCLevels
  MaxLines = 4
  Files <- MCFilesNested
SPECIFICATION Spec
INVARIANT NoSpuriousFinding
CHECK_DEADLOCK FALSE
