CONSTANTS
    Symbols = {0, 7, 8, 255}
    MaxInput = 5
    QuickBits = 3
    PathLimit = 5
    Spare = 1
    SectorSizes = {1, 6, 8, 18}
SPECIFICATION CodecSpec
INVARIANTS TreesWellFormed InStep QuickTableCurrent SectorReadsBack StoredMethodAllowed
CHECK_DEADLOCK FALSE
