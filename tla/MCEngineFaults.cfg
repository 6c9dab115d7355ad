SPECIFICATION Spec
CONSTANTS
    Stocks = {s1}
    NoStock = NoStock
    NoCache = NoCache
    Lot = 2
    Polls = 2
    OrderTimeout = 2
    DailyTradeLimit = 2
    MaxBuysPerStock = 2
    LossRebuyBlock = FALSE
    Amounts = {0}
    Faults = {"lateFill", "lostReply", "cancelFail", "readFail", "enqueueFail", "restoreFail", "partial"}
    MaxOrders = 3
    MaxCrashes = 1
    MaxConsecutiveLosses = 1
    MaxDailyLossAbs = 0
    DrawdownNum = 1
    DrawdownDen = 20
INVARIANTS
    RecordedWithinFilled
    TrackingSound
CHECK_DEADLOCK FALSE
