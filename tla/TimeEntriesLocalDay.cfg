SPECIFICATION Spec
CONSTANTS
  Entries = {1}
  None = None
  Handlers = {h1}
  DayHours = 2
  WeekDays = 3
  Daily = 1
  Weekly = 1
  Offset = 1
  Days = 2
  MaxAborts = 0
INVARIANT Allocated
CHECK_DEADLOCK FALSE
