SPECIFICATION FairSpec
CONSTANTS
  w1 = w1
  p1 = p1
  s1 = s1
  s2 = s2
  Waiters <- OneWaiter
  Players <- OnePlayer
  Streams <- OneStream
  Cap = 2
  MaxLives = 2
  MaxStarts = 2
CHECK_DEADLOCK FALSE
INVARIANTS
  NoSendOnClosed
  StartIsSeenFirst
  
PROPERTIES
  StartWakesWaiters
  SlowStreamsHoldNoOne
