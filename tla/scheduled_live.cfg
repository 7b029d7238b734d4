SPECIFICATION Spec
CONSTANTS
  Payments = {p1}
  Cron = {k1}
  Operators = {o1}
  Desk = {d1}
  Horizon = 2
  Period = 2
  Deadline = 1
  MaxCrashes = 0
PROPERTIES
  RecurringRunsFinish
CHECK_DEADLOCK FALSE
