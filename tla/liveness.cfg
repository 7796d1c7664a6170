SPECIFICATION FairSpec
CONSTANTS
    Executions = {e1, e2}
    MaxRetries = 1
    Overlap = TRUE
    BarsChange = FALSE
    MaxSnapshotAge = 2
    Prices = {2}
    Strengths = {2}
    InitialCashQuote = 4
    BarsPerDay = 2
    MaxBars = 1
    MaxSwitches = 2
    MaxPositionQuote = 9
    MaxDailyLossQuote = 3
    MinOrderNotionalQuote = 2
    StrengthUnit = 2
    Backend = "simulated"
    FeeBps = 5000
    SlippageBps = 5000
    FeeStep = 1
    VenuePrices = {2}
    VenueFees = {1}
PROPERTIES EveryExecutionEnds EngagedSwitchStopsNewCycles AttemptsKeepThePromise
CHECK_DEADLOCK FALSE
