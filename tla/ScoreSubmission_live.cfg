SPECIFICATION FairSpec
CONSTANTS
  Tabs = {t1}
  Requests = {r1}
  Games = {g1}
  Anon = Anon
  Mem = Mem
  None = None
  Memberships = {TRUE}
  Closable = {Anon, Mem}
  Unforeseen = TRUE
  MaxAttempts = 2
  MaxEntries = 1
INVARIANTS
  RefusalHasCause
PROPERTY
  MemberGameIsCounted
CHECK_DEADLOCK FALSE
