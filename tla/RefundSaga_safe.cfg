SPECIFICATION SagaSpec
CONSTANTS
  o1 = o1
  a1 = a1
  cron = cron
  web = web
  Orders = {o1}
  Attempts = {a1}
  Cancellations = {1, 2}
  Gens = {}
  Credits <- OrderCredits
  Price <- OrderPrice
  Expiry <- OrderExpiry
  ExternalAmounts = {1}
  Restated = {}
  None = None
  Workers = {cron, web}
  Sweeper = cron
  SagaRates = {9000}
  MaxFaults = 0
CHECK_DEADLOCK FALSE
INVARIANTS
  SagaTypeOK
  ReportsAsAssumed
  CommittedWasPaid
  LedgerNotAheadOfMoney
PROPERTIES
  PaidNotFailedEarly
