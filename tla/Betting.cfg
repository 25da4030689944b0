SPECIFICATION FairSpec
CONSTANTS
  N = 3
  StartingStack = 3
  Word = 16
  Amounts = {0, 1, 2, 3, 4}
INVARIANTS
  NoUnderflow
  StreetCanClose
  ChipsConserved
  TurnCanAct
PROPERTIES
  StreetEndsSettledBeforeFolds
  OnlyActorPays
  HandEnds
CHECK_DEADLOCK FALSE
