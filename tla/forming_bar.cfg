SPECIFICATION Spec
CONSTANTS
    Executions = {e1, e2}
    MaxRetries = 0
    Overlap = FALSE
    BarsChange = TRUE
    MaxSnapshotAge = 2
    Prices = {3}
    Strengths = {2}
    InitialCashQuote = 16
    BarsPerDay = 2
    MaxBars = 1
    MaxSwitches = 0
    MaxPositionQuote = 9
    MaxDailyLossQuote = 3
    MinOrderNotionalQuote = 2
    StrengthUnit = 2
    Backend = "ccxt_sandbox"
    FeeBps = 1000
    SlippageBps = 2000
    FeeStep = 1
    VenuePrices = {2}
    VenueFees = {1}
SYMMETRY Interchangeable
INVARIANTS OneOrderPerBar
CHECK_DEADLOCK FALSE
