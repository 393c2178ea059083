SPECIFICATION FairSpec
CONSTANTS
    Users = {u1, u2}
    Requests = {r1}
    Plans <- OnePlan
    AdminAmounts = {}
    MaxFaults = 1
    DailyPromo = 1
    Month = 1
    MaxBatches = 3
    MaxDay = 3
    GrantAmounts = {0, 2}
    MaxGrants = 1
INVARIANTS
    AccountsMatchLedger
    RunResetsEveryone
PROPERTIES
    DriftNeedsStaleJob
    NightsSettle
CHECK_DEADLOCK FALSE
