SPECIFICATION Spec
CONSTANTS
    Handle = {h1, h2}
    Inode = {i1, i2, i3, i4, i5}
    Member = {m1}
    Value = {v1}
    Absent = Absent
    None = None
    Partial = Partial
    Deployed = {"mpq", "mpqe"}
    MaxEncodes = 0
    MaxLeaks = 1
    OthersWrite = FALSE
    InodesRecycled = TRUE
SYMMETRY Symmetry
VIEW View
CHECK_DEADLOCK FALSE
INVARIANTS
    DestinationComplete
    WorkingCopyIntact
PROPERTIES
    ImplementsAtomicUpdate
