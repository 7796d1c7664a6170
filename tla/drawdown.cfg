SPECIFICATION Spec
CONSTANTS
    Executions = {e1, e2, e3}
    MaxRetries = 0
    Overlap = FALSE
    BarsChange = FALSE
    MaxSnapshotAge = 1
    Prices = {3, 4, 5}
    Strengths = {2}
    InitialCashQuote = 16
    BarsPerDay = 4
    MaxBars = 3
    MaxSwitches = 0
    MaxPositionQuote = 5
    MaxDailyLossQuote = 1
    MinOrderNotionalQuote = 5
    StrengthUnit = 2
    Backend = "ccxt_sandbox"
    FeeBps = 1000
    SlippageBps = 2000
    FeeStep = 1
    VenuePrices = {5}
    VenueFees = {0}
SYMMETRY Interchangeable
INVARIANTS LossStopsAtLimit
CHECK_DEADLOCK FALSE
