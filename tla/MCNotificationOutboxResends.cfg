SPECIFICATION FairSpec
CONSTANTS
    Pollers = {p1}
    Attempts = {a1, a2}
    Tokens = {t1, t2}
    MaxAttempts = 2
    MaxTokens = 1
    Lease = 1
    MaxBackoff = 1
    MaxCrashes = 0
    MaxRotations = 0
    Null = Null
INVARIANTS
    PayloadOfGeneration
PROPERTIES
    NotificationSettles
CHECK_DEADLOCK FALSE
