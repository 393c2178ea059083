SPECIFICATION Spec
CONSTANTS
    Jobs = {ingest, digest}
    Ingest = ingest
    Runs = {r1, r2}
    Stale = 2
    Debounce = 2
    MaxNow = 4
    MaxJobFaults = 1
    Articles = {1}
    Domains = {d1, d2}
    Locales = {zh}
    Ingests = {i1}
    Workers = {w1, w2}
    NoWorker = none
    MaxScanned = 1
    MaxPerRun = 1
    MaxCollects = 2
    MaxNewsFaults = 1
    PaidYears <- SomeYears
    MaxRolls = 24
    Configured <- SomeIntervals
    Fallbacks = {5, 15}
INVARIANTS
    JobsRunAlone
    BatchRunsAlone
    OneMonthSparedAtMost
PROPERTIES
    SkipsAreJustified
    ArticlesAreKept
    SummariesArrive
    IntervalsAreKept
CHECK_DEADLOCK FALSE
