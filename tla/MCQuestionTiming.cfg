SPECIFICATION Spec
CONSTANTS
    N = 2
    Duration = 2
    MaxTime = 5
    MaxStarts = 3
    MaxRuns = 1
CHECK_DEADLOCK FALSE
INVARIANTS
    CountsToItsDeadline
    
PROPERTY
    RevisitBuysNoTime
