SPECIFICATION Spec
CONSTANTS
    BlockSize = 2
    Size = 5
    Single = FALSE
    Direct = FALSE
    Damaged = {1}
    Truncated = {}
    ReadFaults = FALSE
    MaxRead = 6
INVARIANT DeliveredBytesAreTheMembers
