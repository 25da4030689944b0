SPECIFICATION FairSpec
CONSTANTS
  k1 = k1
  k2 = k2
  Callers <- TwoCallers
  MaxConns = 2
  MaxRequests = 2
  MaxDrops = 1
CHECK_DEADLOCK FALSE
INVARIANTS
  NoForgottenConnection
  AnswersAreOwn
  PendingIsInFlight
PROPERTIES
  CallsReturn
