SPECIFICATION Spec
CONSTANTS
  o1 = o1  o2 = o2  a1 = a1  a2 = a2  g1 = g1  g2 = g2
  Orders = {o1}
  Attempts = {a1, a2}
  Cancellations = {1}
  Gens = {g1}
  Credits <- OneOrderCredits
  Price <- OneOrderPrice
  Expiry <- OrderExpiry
  ExternalAmounts = {10, 20}
  Restated = {}
  None = None
SYMMETRY AttemptSymmetry
CHECK_DEADLOCK FALSE
INVARIANTS
  TypeOK
  ReservedIsOpenAttempt
  RefundsDecompose
  LotBacksRefunds
PROPERTIES
  ShortfallBreaksOnlyUnderReservation
  CommitBlockedOnlyByResolution
