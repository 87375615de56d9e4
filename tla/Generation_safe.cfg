SPECIFICATION Spec
CONSTANTS
  w1 = w1  w2 = w2  r1 = r1  r2 = r2  c1 = c1  c2 = c2
  Slots = {c1}
  Workers = {w1, w2}
  Recoverers = {r1, r2}
  None = None
  Old = Old
  MaxFaults = 1
SYMMETRY TwoOfEach
INVARIANTS
  TypeOK
  SubmittedOnce
  OfferedImagesExist
  CleanedStaysEmpty
PROPERTIES
  RefundWaitsUnlessOverlapping
CHECK_DEADLOCK FALSE
