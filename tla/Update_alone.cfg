SPECIFICATION Spec
CONSTANTS
    Handle = {h1}
    Inode = {i1, i2, i3, i4, i5}
    Member = {m1, m2}
    Value = {v1}
    Absent = Absent
    None = None
    Partial = Partial
    Deployed = {"mpq", "mpqe"}
    MaxEncodes = 2
    MaxLeaks = 1
    OthersWrite = TRUE
    InodesRecycled = FALSE
SYMMETRY Symmetry
VIEW View
CHECK_DEADLOCK FALSE
INVARIANTS
    TemporariesAccountedFor
    ReplacementNoticed
