CONSTANTS
  Ages <- MCAges
  Histories <- MCHistories
  Stakes <- MCStakes
  Lengths <- MCLengths
  Difficulties <- MCDifficulties
  Elapsed <- MCElapsed
SPECIFICATION Spec
INVARIANT TypeOK
PROPERTY StandingNeverHurts
