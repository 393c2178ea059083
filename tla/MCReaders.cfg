SPECIFICATION Spec
CONSTANTS
    Sales = {s1}
    NoSale = none
    Pings = {h1, h2}
    Visits = {v1}
    MaxCopies = 1
    MaxRelayFaults = 1
    Guests = {g1, g2}
    Reader = u
    NoId = none
    Calls = {c1, c2}
    MaxActs = 3
    Readers = {u1, u2}
    East = {u2}
    Hours = 2
    MaxHour = 2
    MaxChanges = 2
    MaxDigestFaults = 1
INVARIANTS
    SalesAreBooked
    WorkIsKept
    MailsAreSentOnce
PROPERTIES
    PurchaseArrives
    PendingIsMerged
    OptOutIsRespected
    TrialArrives
CHECK_DEADLOCK FALSE
