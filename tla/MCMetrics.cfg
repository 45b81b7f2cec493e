SPECIFICATION Spec
CONSTANTS
    u1 = u1
    u2 = u2
    d1 = d1
    d2 = d2
    LastDay = 4
    LastMonth = 2
    MonthOf <- MCMonthOf
    MonthStart <- MCMonthStart
    PublicStart = 1
    NoDate = NoDate
    Deployment = {d1, d2}
    Stable = Stable
    Kind = {"metrics", "assets"}
    Version = {1, 2}
    None = None
    Conn <- MCConn
    MaxRange = 2
    Partial = {3}
    BadDate = BadDate
    User = {u1, u2}
    MaxPages = 2
    Inputs <- MCInputs
    Requests <- MCRequests
    MaxEvents = 3
    Heads = {3, 4}
    InitialHead = 3
SYMMETRY Symmetric
INVARIANTS
    RecordsMatchMetrics
    LegacyInsideBounds
    PagesCoverRange
    PagesNotRefused
    FailsForCause
PROPERTIES
    AnnouncedDaysServed
CHECK_DEADLOCK FALSE
