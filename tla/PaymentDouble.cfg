SPECIFICATION UnattendedSpec
CONSTANTS
    o1 = o1
    o2 = o2
    Orders = {o1}
    Gateway <- OneLinkmepay
    Handlers = {h1, h2}
    Clerks = {}
    Price = 1
    NoAmount = NoAmount
    MaxAdmin = 0
    MaxFaults = 0
INVARIANT LinkmepayGrantsOnce
CHECK_DEADLOCK FALSE
