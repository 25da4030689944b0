SPECIFICATION FairSpec
CONSTANTS
  N = 3
  DeckSize = 11
  Shuffles <- OneShuffle
  MaxHands = 1
  MaxCrashes = 0
  Fixed <- SomeFixed
  NoCard = NoCard
  Best <- SumMod3
INVARIANTS
  FinalDeckAgrees
  CardsAreTrue
  HolesStayCovered
  BoardWaitsForAll
  ShowdownAgrees
CHECK_DEADLOCK FALSE
PROPERTY HandEnds
