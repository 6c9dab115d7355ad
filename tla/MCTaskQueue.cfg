SPECIFICATION FairSpec
CONSTANTS
    t1 = t1
    t2 = t2
    t3 = t3
    k = k
    Tasks = {t1, t2, t3}
    Workers = {w1, w2}
    Keys = {k}
    NoKey = NoKey
    NoTask = NoTask
    KeyOf <- MCKeyOf
    Prio <- MCPrio
    MaxRetries = 2
    BatchSize = 2
    MaxCrashes = 1
INVARIANTS
    ExclusiveRows
    UniqueKeys
    EffectsBounded
PROPERTIES
    ImplementsOutbox
    EventuallySettledOrAbandoned
CHECK_DEADLOCK FALSE
