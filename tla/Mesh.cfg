SPECIFICATION FairSpec
CONSTANTS
  a = a
  b = b
  Nodes <- TwoNodes
  Readers <- OneReader
  Hosts <- OneHost
  MaxConns = 2
  MaxReads = 2
  MaxVersions = 1
  MaxFaults = 1
CHECK_DEADLOCK FALSE
INVARIANTS
  EntriesAreServed
  ReadIsFresh
  MeshForms
PROPERTIES
  ReadsReturn
