SPECIFICATION Spec
CONSTANTS
    Jobs = {cycle, health}
    Bot = bot
    MaxRuns = 4
INVARIANT
    OthersHarmless
CHECK_DEADLOCK FALSE
