CONSTANTS
  trace = trace
  debug = debug
  Unreadable = Unreadable
  Levels <- MCLevels
  Outcomes <- MCOutcomes
  Tree <- MCTree
  HotPatterns <- MCHot
  SkipPatterns <- MCSkip
  TestPrefixed <- MCTestPrefixed
  TestSuffixed <- MCTestSuffixed
  Root <- MCRootDot
  RootAbsolute = FALSE
SPECIFICATION Spec
INVARIANT NoExcludedScanned
CHECK_DEADLOCK FALSE
