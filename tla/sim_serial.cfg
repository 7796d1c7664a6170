SPECIFICATION Spec
CONSTANTS
    Executions = {e1, e2, e3}
    MaxRetries = 0
    Overlap = FALSE
    BarsChange = TRUE
    MaxSnapshotAge = 2
    Prices = {2, 3}
    Strengths = {2}
    InitialCashQuote = 16
    BarsPerDay = 1
    MaxBars = 2
    MaxSwitches = 0
    MaxPositionQuote = 9
    MaxDailyLossQuote = 3
    MinOrderNotionalQuote = 2
    StrengthUnit = 2
    Backend = "simulated"
    FeeBps = 1000
    SlippageBps = 2000
    FeeStep = 2
    VenuePrices = {2}
    VenueFees = {1}
SYMMETRY Interchangeable
INVARIANTS OneOpeningPerDay ReplaysAreCaughtEarly SimulatorNeverFlatters
CHECK_DEADLOCK FALSE
