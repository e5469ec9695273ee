CONSTANTS
    Symbols = {0, 7, 8, 255}
    MaxInput = 6
    QuickBits = 7
    PathLimit = 32
    Spare = 1
SPECIFICATION Spec
INVARIANTS EncodedIsDecoded
CHECK_DEADLOCK FALSE
