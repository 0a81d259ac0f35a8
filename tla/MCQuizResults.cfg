SPECIFICATION Spec
CONSTANTS
    Quizzes = {qa, qb}
    N = 2
    MaxRows = 2
    MaxAttempts = 3
    MaxRuns = 3
    None = None
CHECK_DEADLOCK FALSE
SYMMETRY MCSymmetry
INVARIANTS
    ResultsWereReached
    ScoresInRange
PROPERTIES
    CurrentAttemptListed
    RefreshChangesNothing
    ImplementsBook
