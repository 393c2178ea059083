SPECIFICATION AllSpec
CONSTANTS
    Emails = {e1}
    Subs = {g1}
    NoSub = none
    Requests = {r1, r2}
    CodeIds = {c1, c2, c3}
    Keys = {k1, k2}
    NoKey = none
    Cooldown = 1
    CodeTTL = 2
    TokenTTL = 1
    MaxCodeAttempts = 2
    MaxAdmin = 1
    MaxFaults = 1
    AdminEmails = {root, big}
    Env = root
    Spellings = {root, big}
    Ids = {i1, i2, i3}
    NoId = nobody
    Roles = {super, staff}
    Super = super
    Apps = {a1}
    ConsoleCalls = {q1, q2}
    MaxActs = 3
INVARIANTS
    BonusOnce
    GuessesAreBounded
PROPERTIES
    KeysDieByRegeneration
    EnvGetsIn
    LogIsComplete
SYMMETRY Swaps
CHECK_DEADLOCK FALSE
