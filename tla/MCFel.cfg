CONSTANTS
    Chunks <- MCChunks
    MaxPolls = 2
    MaxAttempts = 2
SPECIFICATION FairSpec
INVARIANTS TypeOK EveryChunkTried DeliveredMeansWhole LogIsFresh
PROPERTIES EveryCallEnds
CHECK_DEADLOCK FALSE
