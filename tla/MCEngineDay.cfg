SPECIFICATION Spec
CONSTANTS
    Stocks = {s1, s2}
    NoStock = NoStock
    NoCache = NoCache
    Lot = 1
    Polls = 1
    OrderTimeout = 2
    DailyTradeLimit = 3
    MaxBuysPerStock = 1
    LossRebuyBlock = TRUE
    Amounts <- MCAmounts
    Faults = {"breaker"}
    MaxOrders = 4
    MaxCrashes = 1
    MaxConsecutiveLosses = 2
    MaxDailyLossAbs = 2
    DrawdownNum = 1
    DrawdownDen = 20
SYMMETRY MCStocks
INVARIANTS
    LiveOrdersTracked
    MemoryMatchesLedger
    BuysPerStockBounded
PROPERTIES
    NoBuyAfterLoss
    NoBuyWhenHalted
CHECK_DEADLOCK FALSE
