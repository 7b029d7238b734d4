SPECIFICATION FairSpec
CONSTANTS
    Desk = {d1}
    Job = job
    Amounts = {1}
    Limit = 3
    LateFee = 1
    Interests = {1}
    Horizon = 7
    MaxRequests = 2
    MaxCrashes = 1
INVARIANTS IInv WithinLimit BalanceIsItsRows StatementsAddUp PaidInTimeIsFree
PROPERTIES DueStatementsAreNoticed
CHECK_DEADLOCK FALSE
