SPECIFICATION FairSpec
CONSTANTS
    r1 = r1
    r2 = r2
    Run = {r1, r2}
    NoRun = NoRun
    Ttl = 1
    ETagAnswers = {TRUE}
    MaxClock = 1
    MaxFaults = 1
    LastDay = 6
    LastMonth = 3
    MonthOf <- MCMonthOf
    MonthStart <- MCMonthStart
    PublicStart = 2
    NoDate = NoDate
    d1 = d1
    d2 = d2
    Deployment = {d1}
    Stable = Stable
    Kinds <- MetricsOnly
    Windows <- CrossedWindow
    BaseDay = 4
    TicksPerDay = 2
    MaxVersion = 1
    RestartAllowed = TRUE
    RedeployWhenIdle = TRUE
    InitialProgress <- Lagging
    None = None
INVARIANTS
    ManifestCoversDates
PROPERTIES
    LockSpec
    LockGivenBack
    StaleLockTakenOver
    RunsEnd
CHECK_DEADLOCK FALSE
