SPECIFICATION FairSpec
CONSTANTS
  w1 = w1  w2 = w2  r1 = r1  r2 = r2  c1 = c1  c2 = c2
  Slots = {c1, c2}
  Workers = {w1}
  Recoverers = {r1}
  None = None
  Old = Old
  MaxFaults = 1
PROPERTIES
  EndedIsCleaned
CHECK_DEADLOCK FALSE
