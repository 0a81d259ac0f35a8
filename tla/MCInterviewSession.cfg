SPECIFICATION FairSpec
CONSTANTS
    Reqs = {r1, r2}
    Questions   <- MCQuestions
    QuestionIds <- MCQuestionIds
    Multiple    <- MCMultiple
    Options     <- MCOptions
    Owned       <- MCOwned
    Calls       <- MCCalls
    q1 = q1
    q2 = q2
    other = other
    o1 = o1
    o2 = o2
    ExpiresAt = 2
    MaxClock = 3
    Null = Null
INVARIANTS
    LateRequestsRefused
    ResultTruthful
    OneResultForAll
    AcknowledgedIsScored
    AcknowledgedIsResumed
PROPERTIES
    EveryRequestAnswered
    ResultReachable
    ImplementsAttempt
CHECK_DEADLOCK FALSE
