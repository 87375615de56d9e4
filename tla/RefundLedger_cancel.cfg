SPECIFICATION Spec
CONSTANTS
  o1 = o1  o2 = o2  a1 = a1  a2 = a2  g1 = g1  g2 = g2
  Orders = {o1}
  Attempts = {a1}
  Cancellations = {1, 2}
  Gens = {g1}
  Credits <- OneOrderCredits
  Price <- OneOrderPrice
  Expiry <- OrderExpiry
  ExternalAmounts = {7, 13}
  Restated = {1}
  None = None
CHECK_DEADLOCK FALSE
INVARIANTS
  RequestStateDerived
  SettlementOneToOne
  ClosableUnlessAutoFull
PROPERTIES
  CancellationAlwaysAccounted
