SPECIFICATION FairSpec
CONSTANTS
  Workers = {w1}
  Tokens = {1, 2, 3, 4, 5, 6}
  None = None
  Real = Real
  Marker = Marker
  Paths = {}
  TargetLimit = 1
  Legacy = {TRUE}
  MaxWithdrawals = 1
  MaxRequests = 0
  MaxFaults = 1
PROPERTIES
  RepairEnds
CHECK_DEADLOCK FALSE
