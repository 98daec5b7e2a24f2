SPECIFICATION Spec
CONSTANTS
  Month = 2
  Files <- MCFiles
  max_rows = 4
  Epochs = 1
  Rounds = 1
  Factor = 2
  MaxScore = 3
INVARIANTS
  
  NegativesAreNegative
  MetricsMatch
CHECK_DEADLOCK FALSE
