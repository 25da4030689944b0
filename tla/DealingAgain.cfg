SPECIFICATION Spec
CONSTANTS
  N = 2
  DeckSize = 9
  Shuffles <- TwoShuffles
  MaxHands = 2
  MaxCrashes = 1
  Fixed <- SomeFixed
  NoCard = NoCard
  Best <- SumMod3
INVARIANTS
  CardsStayReadable
CHECK_DEADLOCK FALSE
