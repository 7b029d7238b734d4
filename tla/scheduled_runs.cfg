SPECIFICATION Spec
CONSTANTS
  Payments = {p1}
  Cron = {k1, k2}
  Operators = {o1}
  Desk = {}
  Horizon = 3
  Period = 2
  Deadline = 1
  MaxCrashes = 1
INVARIANTS
  DatesInv
  PaidOncePerRun
  NeverScheduledForThePast
PROPERTIES
  RunsHaveOneEffect
CHECK_DEADLOCK FALSE
