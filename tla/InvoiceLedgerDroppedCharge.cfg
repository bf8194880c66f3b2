SPECIFICATION Spec
CONSTANTS
  Invoices = {i1}
  Intents = {p1, p2}
  NoIntent = NoIntent
  Handlers = {h1}
  Ops = {"create", "createPaymentIntent", "customerPays", "stripeCancels", "webhook"}
  Totals = {1, 3}
  Amounts = {1, 2}
  MaxLedger = 3
  MaxAborts = 0
INVARIANTS
  ChargeNeverDropped
CHECK_DEADLOCK FALSE
