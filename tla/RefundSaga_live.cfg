SPECIFICATION SagaFairSpec
CONSTANTS
  o1 = o1
  a1 = a1
  cron = cron
  web = web
  Orders = {o1}
  Attempts = {a1}
  Cancellations = {1}
  Gens = {}
  Credits <- OrderCredits
  Price <- OrderPrice
  Expiry <- OrderExpiry
  ExternalAmounts = {}
  Restated = {}
  None = None
  Workers = {cron, web}
  Sweeper = cron
  SagaRates = {9000}
  MaxFaults = 1
CHECK_DEADLOCK FALSE
PROPERTIES
  RequestedAttemptEnds
  SucceededAttemptCommits
