SPECIFICATION TimedSpec
CONSTANTS
    Questions = {q1}
    Multiple = {q1}
    Options = {a}
    MaxEdits = 2
    MaxDrops = 0
    MaxResumes = 0
    Null = Null
PROPERTIES
    ExpirySubmits
CHECK_DEADLOCK FALSE
