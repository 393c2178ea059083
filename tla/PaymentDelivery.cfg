SPECIFICATION FairUnattendedSpec
CONSTANTS
    o1 = o1
    o2 = o2
    Orders = {o1, o2}
    Gateway <- OneOfEach
    Handlers = {h1, h2}
    Clerks = {}
    Price = 1
    NoAmount = NoAmount
    MaxAdmin = 0
    MaxFaults = 2
PROPERTIES
    OutcomeArrives
    GumroadGrantsOnce
CHECK_DEADLOCK FALSE
