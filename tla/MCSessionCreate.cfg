SPECIFICATION Spec
CONSTANTS
    Reqs = {r1, r2, r3}
    Keys = {k1}
    Bodies = {b1, b2}
    Ids = {i1, i2}
    MaxAttempts = 2
    MaxExtra = 1
    Capacity = 1
    ReplayWindow = 1
    MaxClock = 2
    MaxRestarts = 1
    MaxClears = 1
    Null = Null
SYMMETRY Symmetry
INVARIANTS
    TokensKeepWorking
    LimiterBoundsTokens
PROPERTIES
    ImplementsRegistry
CHECK_DEADLOCK FALSE
