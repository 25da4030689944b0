SPECIFICATION Spec
CONSTANTS
  Requests <- AllRequests
  NotANumber = 1000
CHECK_DEADLOCK FALSE
INVARIANTS
  RefusesOnlyNonsense
  CompareIsByWorth
  BestIsBest
