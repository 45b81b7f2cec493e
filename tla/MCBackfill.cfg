SPECIFICATION Spec
CONSTANTS
    w1 = w1
    w2 = w2
    ohm = ohm
    dai = dai
    Wallet = {w1, w2}
    Outsider = Outsider
    Amo = Amo
    Zero = Zero
    Amount = {1, 2}
    MaxHeld = 3
    StartBlock = 1
    PoolToken = {ohm, dai}
    NoRow = NoRow
    LastBlock = 2
    MaxLogs = 3
SYMMETRY Symmetric
INVARIANTS SeededLedgerIsBalance
CHECK_DEADLOCK FALSE
