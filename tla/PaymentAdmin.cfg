SPECIFICATION Spec
CONSTANTS
    o1 = o1
    o2 = o2
    Orders = {o1, o2}
    Gateway <- OneOfEach
    Handlers = {h1, h2}
    Clerks = {c1}
    Price = 1
    NoAmount = NoAmount
    MaxAdmin = 2
    MaxFaults = 1
INVARIANTS
    GrantsFollowPayments
    GrantsAreBounded
CHECK_DEADLOCK FALSE
