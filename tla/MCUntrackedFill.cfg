SPECIFICATION Spec
CONSTANTS
    Stocks = {s1}
    NoStock = NoStock
    NoCache = NoCache
    Lot = 1
    Polls = 1
    OrderTimeout = 1
    DailyTradeLimit = 2
    MaxBuysPerStock = 2
    LossRebuyBlock = FALSE
    Amounts = {0}
    Faults = {"lateFill"}
    MaxOrders = 3
    MaxCrashes = 0
    MaxConsecutiveLosses = 2
    MaxDailyLossAbs = 0
    DrawdownNum = 1
    DrawdownDen = 20
INVARIANT
    NoUntrackedFill
CHECK_DEADLOCK FALSE
