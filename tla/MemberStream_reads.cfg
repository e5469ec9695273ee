SPECIFICATION Spec
CONSTANTS
    BlockSize = 2
    Size = 7
    Single = FALSE
    Direct = FALSE
    Damaged = {}
    Truncated = {2}
    ReadFaults = TRUE
    MaxRead = 8

    
PROPERTIES
    ImplementsLogicalFile
    ReadReturns
