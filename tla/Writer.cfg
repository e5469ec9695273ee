SPECIFICATION Spec
CONSTANTS
    SectorSize = 2
    Request <- MCRequest
    Capacity = 2
    Tables = 2
    Limit = 20
    HighLimit = 3
    Version = 1
    Persist = FALSE
    MaxAttempts = 3
    MaxFaults = 1
INVARIANTS ExtentsDisjoint MembersReadBack  HeaderMeansComplete
CHECK_DEADLOCK FALSE
