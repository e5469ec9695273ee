SPECIFICATION Spec
CONSTANTS
    Slots = 4
    Name <- MCName
    Start <- MCStart
    FileKey <- MCFileKey
    ReadKey <- MCReadKey
    Block <- MCBlock
    Variant = {x1, x2}
    Value = {v1, v2}
    Free = Free
    Deleted = Deleted
    Listfile = Listfile
    Attributes = Attributes
    Signature = Signature
    Plain = Plain
    Zero = Zero
    WithListfile = TRUE
    WithAttributes = TRUE
    m1 = m1
    m2 = m2
    m3 = m3
SYMMETRY MCSymmetry
CHECK_DEADLOCK FALSE
INVARIANTS
    EntriesReachable
    MembersReadable
    ListfileExact
    AttributesCurrent
PROPERTIES
    ImplementsArchiveBody
