SPECIFICATION Spec
CONSTANTS
    N = 2
    a = a
    b = b
    c = c
    d = d
    Options <- MCOptions
    OptionsOf <- MCOptionsOf
    CorrectOf <- MCCorrectOf
    Multiple <- MCMultiple
    MaxGen <- MCMaxGen
    MaxFlight = 2
    MaxBreaks = 1
CHECK_DEADLOCK FALSE
SYMMETRY MCSymmetry
INVARIANTS
    VerdictIsTheServers
    NobodyWaitsForNothing
    RestartIsClean
    CorrectIsCredited
    PassedInOrder
    JudgedIsShown
PROPERTIES
    ImplementsQuiz
