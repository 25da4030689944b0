SPECIFICATION FairSpec
CONSTANTS
  Callers = {a, b}
  Runner = r
  Calls <- OnlySubmit
CHECK_DEADLOCK FALSE
PROPERTY CallsReturn
