CONSTANTS
  Lengths <- MCLengths
  Difficulties <- MCDifficulties
  Scores <- MCScores
SPECIFICATION Spec
INVARIANT TypeOK
PROPERTIES GasNeverFallsWithLength RewardNeverFallsWithScore
