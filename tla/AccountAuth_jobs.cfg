SPECIFICATION FairSpec
CONSTANTS
  Workers = {w1, w2}
  Tokens = {1, 2, 3, 4, 5, 6}
  None = None
  Real = Real
  Marker = Marker
  Paths = {p1, p2}
  TargetLimit = 1
  Legacy = {TRUE, FALSE}
  MaxWithdrawals = 2
  MaxRequests = 2
  MaxFaults = 1
INVARIANTS
  TypeOK
  ActiveHasRealEmail
  WithdrawnIsReleased
PROPERTIES
  ImplementsAccess
  JobsEnd
CHECK_DEADLOCK FALSE
