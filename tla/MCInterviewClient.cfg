SPECIFICATION FairSpec
CONSTANTS
    Questions = {q1, q2}
    Multiple = {q2}
    Options = {a}
    MaxEdits = 3
    MaxDrops = 1
    MaxResumes = 1
    Null = Null
INVARIANTS
    UnsavedStaysInView
    ConfirmedIsStored
PROPERTIES
    SubmitScoresTheScreen
    ImplementsAttempt
    SubmitSettles
CHECK_DEADLOCK FALSE
