SPECIFICATION Spec
CONSTANTS
  p1 = p1
  p2 = p2
  Portfolios = {p1, p2}
  Calls = {c1, c2, c3}
  Requests <- Requested
  Cent = 1000
  FeeRate = 1000
  BankStart = 300000
  CashStart = 500000
  CoinStart = 200000
  RevenueStart = 150000
  MaxStarts = 3
  MaxFaults = 1
  MaxMoves = 1

INVARIANTS
  NothingIsOverdrawn
  CoinsAreBacked
  CashFollowsItsLedger
  FlorinsAreConserved
PROPERTIES
  ImplementsOneEffect
CHECK_DEADLOCK FALSE
