SPECIFICATION TimelySpec
CONSTANTS
  N = 3
  StartingStack = 1
  Word = 16
  MaxAttempts = 1
  MaxRounds = 3
  MaxCrashes = 0
  Acts <- FoldCheck
CHECK_DEADLOCK FALSE
PROPERTIES
  ResponsiveHandEnds
