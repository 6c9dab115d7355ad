SPECIFICATION Spec
CONSTANTS
    Proposals = {p1, p2}
    RealEnv = TRUE
    MaxCycles = 1
    MaxPauses = 0
PROPERTY
    OnlyVerifiedRestarts
CHECK_DEADLOCK FALSE
