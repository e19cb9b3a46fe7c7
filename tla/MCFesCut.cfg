CONSTANTS
    Parts <- MCParts
    FullBufs = 2
    Modes = {"product", "update"}
    MaxTries = 2
    MaxAttempts = 1
SPECIFICATION Spec
INVARIANTS SuccessMeansBurned
CHECK_DEADLOCK FALSE
