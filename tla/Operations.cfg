SPECIFICATION MCSpec
CONSTANTS
  Jobs = {1, 2, 3}
  Requests = {r1}
  Estimates = {e1}
  None = None
  Checkpoints = {c1}
  Amounts = {0, 1}
  Handlers = {h1, h2}
  Ops <- AllOps
  MaxAttempts = 3
  MaxAborts = 1
INVARIANTS
  RowsTyped
  NumbersSound
  SerialOneJobPerSource
  SerialProfitInStep
  SerialOneShift
  SerialHoursPaid
PROPERTIES
  SerialFinalStays
  SerialCompletionChecked
CHECK_DEADLOCK FALSE
