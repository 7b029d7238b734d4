SPECIFICATION Spec
CONSTANTS
  Accounts = {a1, a2}
  TxIds = {t1, t2, t3}
  HoldIds = {h1}
  Calls = {c1}
  MaxAmount = 1
  Flags = {"transfers"}
SYMMETRY RowSymmetry
INVARIANTS
  DriftIsReversals
  WithdrawalsCovered
PROPERTIES
  ReviewsAreFinal
  ImplementsBook
