SPECIFICATION MCSpec
CONSTANTS
  Invoices = {i1}
  Intents = {p1, p2}
  NoIntent = NoIntent
  Handlers = {h1, h2}
  Ops <- AllOps
  Totals = {1, 2}
  Amounts = {1, 2}
  MaxLedger = 3
  MaxAborts = 1
INVARIANTS
  TypeOK
  PaidWithinLedger
  CreditNeedsCharge
  SerialLedgerExact
  SerialDueExact
  SerialCreditsBounded
  SerialRevenueInSync
PROPERTIES
  SerialPaidIsFinal
  SerialImplementsReceivables
  SerialChargeSettled
CHECK_DEADLOCK FALSE
