CONSTANTS
    Table <- MCTable
    Upper <- MCUpper
    Versions = {256, 512, 768, 769}
    Lengths = {11, 72}
    Block = 2
    Piece = 4
    Word = 16
    FexLen = 8
    BufSize = 12
    ProbeLen = 4
    MaxCalls = 2
SPECIFICATION Spec
INVARIANTS BytesInOrder NoBlockOutside WholeOnSuccess NoFalseFailure
CHECK_DEADLOCK FALSE
