SPECIFICATION CalculationsSpec
CONSTANTS
    MaxPositionQuote = 13
    MaxDailyLossQuote = 3
    MinOrderNotionalQuote = 4
    StrengthUnit = 3
    AskedPrices = {1, 2, 3, 5}
    AskedCash <- Cash
    AskedQuantities <- Quantities
    AskedOpenings = {9, 12}
    FillQuantities = {1, 2}
    FillPrices = {2, 5, 9}
    Fees = {0, 1}
    MaxFills = 2
    MaxQuantity = 4
    FastWindow = 2
    SlowWindow = 3
    Limit = 4
    StrengthScale = 5
    ClosePrices = {1, 2, 3, 4, 5, 6}
    Moments = {60, 61, 75, 76, 89, 90, 105, 106, 120, 121, 240, 241, 300, 10079, 10080, 10081}
    Amounts = {0, 1, 15}
    Units = {"m", "h", "w", "s"}
    MaxSnapshotAgeFactor = 3
    MaxLag = 4
INVARIANTS OrdersAreTheLargestThatFit HoldsAreForced AverageIsBetweenPrices CrossingsAreSignalled OppositeSignalsNeedATouch SignalsAreSymmetric SimulatedBarsAreFinalAndFresh OneIdPerBar AcceptedMissesFewBars
PROPERTIES OnlySalesRealise
CHECK_DEADLOCK FALSE
