SPECIFICATION Spec
CONSTANTS
    SectorSize = 2
    Request <- MCRequest
    Capacity = 2
    Tables = 2
    Limit = 20
    HighLimit = 3
    Version = 1
    Persist = TRUE
    MaxAttempts = 2
    MaxFaults = 1
INVARIANT MembersReadBack
CHECK_DEADLOCK FALSE
