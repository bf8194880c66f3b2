SPECIFICATION Spec
CONSTANTS
  Invoices = {i1}
  Intents = {p1}
  NoIntent = NoIntent
  Handlers = {h1, h2}
  Ops = {"create", "update", "remove", "recordPayment", "createPaymentIntent", "customerPays", "webhook"}
  Totals = {2}
  Amounts = {1}
  MaxLedger = 2
  MaxAborts = 0
INVARIANTS
  CreditedOnce
CHECK_DEADLOCK FALSE
