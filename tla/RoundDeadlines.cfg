SPECIFICATION FairSpec
CONSTANTS
  N = 2
  StartingStack = 1
  Word = 16
  MaxAttempts = 2
  MaxRounds = 2
  MaxCrashes = 1
  Acts <- FoldCheck
CHECK_DEADLOCK FALSE
PROPERTIES
  RoundsEnd
INVARIANTS
  EntriesAreSigned
  ReplaySeesEveryFold
