SPECIFICATION MCSpec
CONSTANTS
  MaxDate = 2
  Cycles = {1, 2}
  Ends <- NoneOrFirstDay
  Handlers = {h1, h2}
  Ops <- AllOps
  MaxAborts = 1
INVARIANTS
  TypeOK
  BilledOncePerPeriod
  SerialNextDateOpen
  SerialPeriodsTile
PROPERTIES
  SerialPlanServed
CHECK_DEADLOCK FALSE
