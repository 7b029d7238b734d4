SPECIFICATION Spec
CONSTANTS
  Payments = {p1}
  Cron = {k1}
  Operators = {}
  Desk = {}
  Horizon = 1
  Period = 2
  Deadline = 1
  MaxCrashes = 1
PROPERTIES
  RecurringRunsFinish
CHECK_DEADLOCK FALSE
