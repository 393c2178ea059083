SPECIFICATION Spec
CONSTANTS
    Users = {u1}
    Requests = {r1, r2}
    Plans <- RacingPlans
    AdminAmounts = {2}
    MaxFaults = 1
    DailyPromo = 1
    Month = 1
    MaxBatches = 200
    MaxDay = 1
    GrantAmounts = {1, 2, 3}
    MaxGrants = 2
INVARIANTS
    ChargesAreHeld
    SuccessIsPaidInFull
    FailureIsFree
PROPERTIES
    OverdraftNeedsStaleRow
CHECK_DEADLOCK FALSE
