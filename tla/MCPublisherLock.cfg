SPECIFICATION LockSpec
CONSTANTS
    r1 = r1
    r2 = r2
    r3 = r3
    Run = {r1, r2, r3}
    NoRun = NoRun
    Ttl = 2
    ETagAnswers = {TRUE, FALSE}
    MaxClock = 5
    MaxFaults = 2
SYMMETRY RunSymmetry
INVARIANTS
    LockTypeOK
    LockInv
    OverlapNeedsExpiry
PROPERTIES
    LockKeptUntilExpiry
CHECK_DEADLOCK FALSE
