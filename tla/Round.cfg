SPECIFICATION Spec
CONSTANTS
  N = 3
  StartingStack = 1
  Word = 16
  MaxAttempts = 1
  MaxRounds = 2
  MaxCrashes = 0
  Acts <- CallRaise
CHECK_DEADLOCK FALSE
PROPERTIES
  ImplementsAgreedLog
INVARIANTS
  Agreement
  AutoFoldIsUnanimous
