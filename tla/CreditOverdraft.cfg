SPECIFICATION Spec
CONSTANTS
    Users = {u1}
    Requests = {r1, r2}
    Plans <- OnePlan
    AdminAmounts = {2}
    MaxFaults = 0
    DailyPromo = 1
    Month = 1
    MaxBatches = 200
    MaxDay = 1
    GrantAmounts = {1, 2}
    MaxGrants = 3
PROPERTY DeductionIsCovered
CHECK_DEADLOCK FALSE
