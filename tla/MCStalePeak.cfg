SPECIFICATION Spec
CONSTANTS
    MaxLoss = 3
    TrailingEnabled = TRUE
    TrailActivation = 5
    TrailDrawdown = 5
    TakeProfit = 5
    Breakeven = 2
    StagnationTicks = 2
    ProfitableClose = 1
    LossCut = 0
    Prices = {96, 100, 102, 106}
    Lot = 2
    CloseTick = 3
    LastTick = 3
    MaxDays = 3
    MaxCrashes = 1
    Faults = {"partial", "lateSale", "loadFail", "lostSync"}
INVARIANT
    PeakOfThisPosition
CHECK_DEADLOCK FALSE
