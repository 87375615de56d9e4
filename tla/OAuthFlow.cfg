SPECIFICATION FairSpec
CONSTANTS
  Anons = {a0, a1}
  Earlier = {a0}
  Flows = {1, 2}
  Targets = {t1}
  Workers = {w1, w2}
  None = None
  MaxFaults = 1
INVARIANTS
  TypeOK
  OneSignIn
  DeletedLeavesNothing
PROPERTIES
  RecordsWait
  SignInSettles
CHECK_DEADLOCK FALSE
