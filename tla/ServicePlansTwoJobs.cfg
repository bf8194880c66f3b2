SPECIFICATION Spec
CONSTANTS
  MaxDate = 2
  Cycles = {1}
  Ends = {2}
  Handlers = {h1, h2}
  Ops = {"create", "generateNow", "jobScan"}
  MaxAborts = 0
INVARIANTS
  OneJobPerDueDate
CHECK_DEADLOCK FALSE
