SPECIFICATION Spec
CONSTANTS
    Pollers = {p1, p2}
    Attempts = {a1}
    Tokens = {t1, t2}
    MaxAttempts = 2
    MaxTokens = 1
    Lease = 2
    MaxBackoff = 1
    MaxCrashes = 1
    MaxRotations = 1
    Null = Null
SYMMETRY Symmetry
INVARIANTS
    LeaseExcludes
    RetriesKeepTheLink
CHECK_DEADLOCK FALSE
