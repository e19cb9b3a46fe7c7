CONSTANTS
    Chunks <- MCShortFes1
    MaxPolls = 2
    MaxAttempts = 1
SPECIFICATION Spec
INVARIANTS RunsWhatArrived
CHECK_DEADLOCK FALSE
