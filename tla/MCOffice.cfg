SPECIFICATION OfficeSpec
CONSTANTS
    Proposals = {a}
    RealEnv = TRUE
    MaxCycles = 2
    MaxPauses = 1
    Stocks = {a, b}
    MaxScreened = 1
    FreshWindow = 1
    LastInterval = 2
    MaxScreenings = 2
    Markets = {KRX, US}
    Trades = {k1}
    MarketOf <- MCMarketOf
    Kinds = {"daily_performance", "daily_summary"}
    MaxAttempts = 2
    UpdatePage = 2
    MaxSent = 3
    MaxBotStarts = 3
    Feeds = {f1, f2}
    Dart = dart
    DayLength = 2
    PageSize = 1
    LastTick = 3
    MaxItems = 2
    Users = {u1, u2}
    Codes = {a, b, c}
    MaxSubscriptions = 1
    MaxReconnect = 2
    MaxDrops = 1
    Slots <- MCSlots
    ClosedDays = {2}
    LastDay = 3
    MaxSales = 2
    MaxStarts = 3
    Procs = {p1, p2}
    Coros = 2
    Lifetime = 5
    Margin = 2
    RetryGap = 1
    MaxTime = 6
    MaxCrashes = 1
    Coroutines = {c1, c2}
    DailyLimit = 1
    LastDate = 2
    MaxCalls = 5
    KRX = KRX
    US = US
    k1 = k1
INVARIANTS
    MonitoredHavePassed
    AcceptedIsQueued
    ReportsAgree
    
    ListedIsSubscribed
    CycleCountsToday
    IssueBurstBounded
    OutageEndsWithCache
    
    HandledAgainOnlyAfterLapse
    AttemptedOnce
    GateSeesThisCycle
    
CHECK_DEADLOCK FALSE
