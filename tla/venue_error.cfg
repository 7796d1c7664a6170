SPECIFICATION Spec
CONSTANTS
    Executions = {e1}
    MaxRetries = 1
    Overlap = FALSE
    BarsChange = FALSE
    MaxSnapshotAge = 2
    Prices = {3}
    Strengths = {2}
    InitialCashQuote = 16
    BarsPerDay = 2
    MaxBars = 1
    MaxSwitches = 0
    MaxPositionQuote = 9
    MaxDailyLossQuote = 3
    MinOrderNotionalQuote = 2
    StrengthUnit = 2
    Backend = "ccxt_sandbox"
    FeeBps = 1000
    SlippageBps = 2000
    FeeStep = 1
    VenuePrices = {3}
    VenueFees = {1}
INVARIANTS VenueErrorsAreRetried
CHECK_DEADLOCK FALSE
