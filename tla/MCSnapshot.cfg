SPECIFICATION Spec
CONSTANTS
    Chain = {"ethereum", "arbitrum", "polygon"}
    ETHEREUM = "ethereum"
    ARBITRUM = "arbitrum"
    Config <- MCConfig
    Readings <- MCReadings
    JonesWriteOff = 2
    DynamicLending = 2
    BlvInclusion = 2
    BuybackInclusion = 2
    BuybackMs = "amo"
    m1 = m1
    m2 = m2
    Market = {m1, m2}
    Spare = 6
    Bid = 12
    Capacity = 24
    Term = 2
    TracksBondManager = TRUE
    PerDay = 2
    MaxIndex = 1
    MCDeposits = {1}
SYMMETRY Symmetric
INVARIANTS
    RowSumsChains
    CanonicalSurvives
    RecordsAddUp
    SuppliesNested
PROPERTIES
    CompleteStaysComplete
    BondDepositsWithinBalance
CHECK_DEADLOCK FALSE
