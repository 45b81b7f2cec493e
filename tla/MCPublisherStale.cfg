SPECIFICATION Spec
CONSTANTS
    r1 = r1
    r2 = r2
    Run = {r1, r2}
    NoRun = NoRun
    Ttl = 9
    ETagAnswers = {TRUE}
    MaxClock = 0
    MaxFaults = 0
    LastDay = 6
    LastMonth = 3
    MonthOf <- MCMonthOf
    MonthStart <- MCMonthStart
    PublicStart = 2
    NoDate = NoDate
    d1 = d1
    d2 = d2
    Deployment = {d1, d2}
    Stable = Stable
    Kinds <- MCKinds
    Windows <- NoWindow
    BaseDay = 4
    TicksPerDay = 1
    MaxVersion = 2
    RestartAllowed = FALSE
    RedeployWhenIdle = FALSE
    InitialProgress <- MCProgress
    None = None
SYMMETRY Symmetric
INVARIANTS
    ListedShardsExist
CHECK_DEADLOCK FALSE
