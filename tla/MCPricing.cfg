SPECIFICATION Spec
CONSTANTS
    Caller = {"snapshot", "other"}
    Pricer = "snapshot"
    BlockOf <- MCBlockOf
    Invariant <- MCInvariant
    MaxAttempts = 2
    NoCache = NoCache
    Process = Process
    Handlers <- MCHandlers
    Owned <- MCOwned
    Inactive = {"NEW"}
    NoPool = NoPool
    One = 12
    Priority = 1000000
    Requests <- MCRequests
    Reads <- MCReads
    MaxAsked = 2
    MaxReads = 1
    MaxSteps = 120
INVARIANTS
    PricedWhenGrounded
    ReadsOwnBlock
PROPERTIES
    LookupsEnd
CHECK_DEADLOCK FALSE
