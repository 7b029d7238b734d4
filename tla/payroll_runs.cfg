SPECIFICATION Spec
CONSTANTS
  Employees = {e1, e2}
  Runs = {r1}
  Workers = {w1, w2}
  Scanners = {s1}
  Horizon = 0
  MaxFaults = 1
SYMMETRY CallSymmetry
INVARIANTS
  IInv
  ExecutedRunsArePaid
  FirstAttemptIsExclusive
CHECK_DEADLOCK FALSE
