CONSTANTS
  trace = trace
  debug = debug
  Unreadable = Unreadable
  Levels <- MCLevels
  Outcomes <- MCOutcomes
  Tree <- MCTree
  HotPatterns <- MCHot
  SkipPatterns <- MCSkip
  TestPrefixed <- MCTestPrefixed
  TestSuffixed <- MCTestSuffixed
  Root <- MCRoot
  RootAbsolute = TRUE
SPECIFICATION Spec
INVARIANTS TypeOK TotalMatchesStored NoExcludedScanned CompleteSummary
PROPERTY ImplementsFindingsWalk
CHECK_DEADLOCK FALSE
