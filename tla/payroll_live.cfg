SPECIFICATION Spec
CONSTANTS
  Employees = {e1, e2}
  Runs = {r1}
  Workers = {w1}
  Scanners = {s1}
  Horizon = 1
  MaxFaults = 1
PROPERTIES
  BatchesEnd
  PaidLinesAreNotPaidAgain
CHECK_DEADLOCK FALSE
