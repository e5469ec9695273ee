CONSTANTS
    v1 = v1
    v2 = v2
    x1 = x1
    x2 = x2
    Value = {v1, v2}
    Variant = {x1, x2}
    Slots = 6
    Name <- MCName
    Start <- MCStart
    Block = {1, 2, 3, 4, 5, 6, 7, 8, 9, 10, 11, 12, 13, 14, 15, 16}
    Free = Free
    Deleted = Deleted
    Listfile = "(listfile)"
    Attributes = "(attributes)"
    Signature = "(signature)"
    Metadata = "(patch_metadata)"
    SubMetadata <- MCSubMetadata
    Neutral = x1
    Under <- MCUnder
    Root = Root
    Sub = Sub
    None = None
    File = {1, 2, 3}
    MaxLeaks = 1
    Absent = Absent
    Partial = Partial
    Capacity = 4
    Bases <- MCBases
    Edited = {"a", "b", "(listfile)"}
    Foreign <- MCForeign
    MaxLayers = 2
SPECIFICATION Spec
INVARIANTS
    MembersReachable
    DigestsDescribe
    ListFollowsMembers
    
    TemporariesAccountedFor
    PatchedBaseIsEdited
PROPERTIES
    ImplementsPatchStack
    TimesAndBitsInherited
