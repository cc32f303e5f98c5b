CONSTANTS
  trace = trace
  debug = debug
  Unreadable = Unreadable
  Levels <- MCLevels
  Outcomes <- MCOutcomes
  Tree <- MCTreeTopTests
  HotPatterns <- MCHot
  SkipPatterns <- MCSkip
  TestPrefixed <- MCTestPrefixed
  TestSuffixed <- MCTestSuffixed
  Root <- MCRoot
  RootAbsolute = TRUE
SPECIFICATION Spec
INVARIANT TestTagged
CHECK_DEADLOCK FALSE
