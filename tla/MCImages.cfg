SPECIFICATION AllSpec
CONSTANTS
    Ips = {i1, i2}
    Requests = {r1, r2, r3}
    MaxDay = 2
    MaxFaults = 1
    KlingCalls = {c1, c2}
    IdMax = 4
    AccessKeys = {k1, k2}
    t1 = t1
    t2 = t2
    Themes = {t1, t2}
    Blank = blank
    NoCall = none
    Wishes <- SomeWishes
    PollMax = 2
    Refresh = 1
    Validity = 2
    MaxClock = 2
    MaxPatches = 1
    MaxTroubles = 2
    RepCalls = {c1}
    MaxSwitches = 2
INVARIANTS
    SlotsFitCalls
    CallsKeepTheirOwn
    TasksArePaid
    OutcomeFitsImages
CHECK_DEADLOCK FALSE
