SPECIFICATION CycleSpec
CONSTANTS
    PaidYears = {2024}
    MaxRolls = 3
INVARIANT DayIsKept
CHECK_DEADLOCK FALSE
