SPECIFICATION ClientSpec
CONSTANTS
    Stocks = {s1, s2}
    Exchanges <- MCExchanges
    Home <- MCHome
    Watchlist = {s2}
    MaxScreened = 1
    MaxStarts = 2
    s1 = s1
    s2 = s2
    Coroutines = {c1, c2}
    MaxRetries = 3
    Threshold = 3
    Base = 30
    MaxTimeout = 300
    DailyLimit = 2
    MaxTrips = 1
    Jobs = {cycle, health}
    Bot = bot
    MaxRuns = 6
INVARIANTS
    OrderAtMostOnce
    OutageLoadBounded
    RoutedHome
PROPERTIES
    CallsEnd
CHECK_DEADLOCK FALSE
