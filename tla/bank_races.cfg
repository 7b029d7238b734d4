SPECIFICATION Spec
CONSTANTS
  Accounts = {a1}
  TxIds = {t1, t2, t3}
  HoldIds = {h1, h2}
  Calls = {c1, c2}
  MaxAmount = 1
  Flags = {}
SYMMETRY RowSymmetry
INVARIANTS
  IInv
PROPERTIES
  DebitsRespectReservations
