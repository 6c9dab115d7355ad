SPECIFICATION DecisionsSpec
CONSTANTS
    MaxConsecutiveLosses = 3
    MaxDailyLossAbs = 4
    DrawdownNum = 3
    DrawdownDen = 2
    Amounts <- MCAmounts
    MaxSells = 5
    MaxLoss = 3
    TrailingEnabled = TRUE
    TrailActivation = 5
    TrailDrawdown = 5
    TakeProfit = 5
    Breakeven = 2
    StagnationTicks = 2
    ProfitableClose = 1
    LossCut = 0
    Quotes = {96, 100, 102, 106}
    Lot = 2
    CloseTick = 3
    LastTick = 3
    MaxDays = 2
    MaxCrashes = 1
    ExitFaults = {"partial", "lateSale", "loadFail", "lostSync"}
    Unit = 100
    MaxDivergence = 5
    Oversold = 30
    Overbought = 70
    Averages <- MCAverages
    RsiValues = {0, 15, 29, 30, 50, 71, 85, 100}
    Histograms <- MCHistograms
    Bands <- MCBands
    SoloMins = {60, 101}
    Stocks = {s1, s2}
    Deposit = 8
    Orderable = 6
    RatioDen = 2
    Overseas = FALSE
    Prices = {1, 2, 9}
    MinPrice = 2
    DayGates = {"HALT"}
    BuyFaults = {"queryFail", "lookupFail", "dbDown", "refusal", "lost", "others"}
    MaxCycles = 2
    MinWindow = 2
    MaxRows = 7
    Closes = {0, 2, 3, 4, 12}
    Capital = 1000
    Commission = 1
    Slippage = 1
    Ratio = 10
    StopPercent = 3
    TargetPercent = 3
INVARIANTS
    
    CurrentBreachHalts
    
    PeakRemembered
    GainIsProtected
    
    HoldIsAbstention
    AccountedOnce
    RefusedOnlyIfRaced
    ReportIsRight
CHECK_DEADLOCK FALSE
