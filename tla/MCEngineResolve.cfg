SPECIFICATION FairSpec
CONSTANTS
    Stocks = {s1}
    NoStock = NoStock
    NoCache = NoCache
    Lot = 1
    Polls = 2
    OrderTimeout = 2
    DailyTradeLimit = 2
    MaxBuysPerStock = 2
    LossRebuyBlock = FALSE
    Amounts = {0}
    Faults = {"lateFill", "lostReply", "cancelFail", "readFail", "apiLimit", "breaker", "enqueueFail", "restoreFail", "partial", "undrained", "operator", "late"}
    MaxOrders = 2
    MaxCrashes = 1
    MaxConsecutiveLosses = 1
    MaxDailyLossAbs = 0
    DrawdownNum = 1
    DrawdownDen = 20
PROPERTIES
    PendingResolvedIntraday
CHECK_DEADLOCK FALSE
