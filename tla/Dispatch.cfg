SPECIFICATION Spec
CONSTANTS
  c1 = c1
  c2 = c2
  n1 = n1
  n2 = n2
  s1 = s1
  s2 = s2
  None = None
  Conns <- TwoConns
  Ids <- TwoIds
  Names <- TwoNames
  Kinds <- AllKinds
SYMMETRY Interchangeable
CHECK_DEADLOCK FALSE
INVARIANTS
  NoEmptySession
  MembershipIsOwned
  NoDeadRegistration
