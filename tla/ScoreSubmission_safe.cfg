SPECIFICATION Spec
CONSTANTS
  Tabs = {t1, t2}
  Requests = {r1, r2}
  Games = {g1}
  Anon = Anon
  Mem = Mem
  None = None
  Memberships = {FALSE}
  Closable = {Anon}
  Unforeseen = FALSE
  MaxAttempts = 1
  MaxEntries = 1
SYMMETRY Symmetric
INVARIANTS
  TypeOK
  ClearedWasReported
  NoVisibleScoreOfBanned
  GameCountsOnceUnlessStale
CHECK_DEADLOCK FALSE
