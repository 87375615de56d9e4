SPECIFICATION Spec
CONSTANTS
  o1 = o1  o2 = o2  a1 = a1  a2 = a2  g1 = g1  g2 = g2
  Orders = {o1, o2}
  Attempts = {a1}
  Cancellations = {1}
  Gens = {g1}
  Credits <- TwoOrderCredits
  Price <- TwoOrderPrice
  Expiry <- OrderExpiry
  ExternalAmounts = {10}
  Restated = {}
  None = None
CHECK_DEADLOCK FALSE
INVARIANTS
  CacheIsLiveRemaining
