\* Two days of cycles; three runs over weeks of three days; two callers of one
\* SEC client; two backups at once; three of the repair
\* scripts on one company; three filings normalised by two processes, and a
\* failing commit; two companies on the board.
SPECIFICATION ProcessSpec
CONSTANTS
    \* Scheduler
    WindowsOf <- EasternWindows
    DayOf <- EasternDay
    Interval = 1
    MaxAge = 12
    Steps = 2
    Never = Never
    MaxCycle = 2
    MaxTime = 14
    MaxFaults = 2
    \* ApiCaches
    Caches = {"companies"}
    MaxVersion = 2
    MaxBad = 1
    MaxReloads = 1
    \* DiscoveryDates
    FilingDay <- WeekdayOfThree
    HistoryDays = 4
    OverlapDays = 2
    RetryLimit = 1
    FirstDay = 6
    LastDay = 12
    MaxRuns = 3
    MaxOutage = 4
    \* SecClient
    Callers = {"a", "b"}
    Clients = {1}
    ClientOf <- OneClient
    SendInterval = 2
    MaxRetries = 2
    BackoffMin = 1
    BackoffMax = 2
    MaxClock = 8
    MaxCalls = 2
    \* Backups
    Runs = {"loop", "hand"}
    Keep = 1
    Retention = 0
    OldArchives = 1
    MaxArchives = 3
    MaxTicks = 2
    MaxMishaps = 1
    \* Repairs
    Held <- FilingsOnly
    Obtainable <- AllOrLess
    ScriptOf <- OneWorkerEach
    RefreshAll = FALSE
    ScriptsRun = 3
    MaxResets = 1
    MaxRowErrors = 1
    \* Facts
    FilingOf <- ThreeFilings
    Payload <- FourFacts
    Rules <- ThreeRules
    Sheets <- TwoSheets
    Normalisers = {"machine", "script"}
    MaxFailures = 1
    \* BuyBoard
    Issuers = {1, 2}
    Builds <- DiagnosticBuilds
    Quotes = {100, 120}
    MaxRebuilds = 1
    MaxReviews = 1
    MaxRestarts = 1
INVARIANTS
    EvidenceIsReal
    OkMeansRecent
    NoFalseAlarm
    NoGap
    OwedDaysKept
    OkMeansRecoverable
    SweptIsComplete
    ActiveIsValidated
PROPERTIES
    FiguresMoveForward
    NewestKept
    RequestsSpaced
    CleanMeansComplete
    PastStands
    FirstPriceKept
CHECK_DEADLOCK FALSE
