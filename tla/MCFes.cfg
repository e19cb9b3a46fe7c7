CONSTANTS
    Parts <- MCParts
    FullBufs = 2
    Modes = {"product", "update"}
    MaxTries = 2
    MaxAttempts = 2
SPECIFICATION FairSpec
INVARIANTS VerifiedIsGood BootLast FlashIsOn TagGetsItsItem
PROPERTIES EveryBurnEnds
CHECK_DEADLOCK FALSE
