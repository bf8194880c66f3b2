SPECIFICATION Spec
CONSTANTS
  Jobs = {1}
  Requests = {r1}
  Estimates = {e1}
  None = None
  Checkpoints = {c1}
  Amounts = {0}
  Handlers = {h1}
  Ops = {"createJob", "createRequest", "confirm", "updateStatus", "complete", "addPhoto"}
  MaxAttempts = 2
  MaxAborts = 0
PROPERTY CompletedOnlyChecked
CHECK_DEADLOCK FALSE
