CONSTANTS
    MaxChunks = 2
    RawLens = {0, 4, 12, 28}
    Images <- MCImages
    HeaderSize = 3
    ChunkHeaderSize = 3
    FillSize = 2
    Sector = 2
    BufLen = 13
    Spare = 8
    Small = 8
    Keep = 4
    FexLen = 6
    MaxLen = 60
    MaxItems = 2
SPECIFICATION FairSpec
INVARIANTS TypeOK FlashFaithful SuccessComplete NoSpuriousFailure
PROPERTIES Implements EveryDownloadEnds
CHECK_DEADLOCK FALSE
