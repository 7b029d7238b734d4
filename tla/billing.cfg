SPECIFICATION FairSpec
CONSTANTS
    Companies = {c1}
    Jobs = {j1,j2}
    Desk = {d1}
    Month = 2
    Grace = 1
    Horizon = 3
    MaxFaults = 1
    MaxRequests = 1
INVARIANTS IInv PaidThrough NeverChargedAhead OneStory
PROPERTIES TakenOnlyWhenForfeited ForfeitedPlansEnd DueSubscriptionsAreBilled
CHECK_DEADLOCK FALSE
