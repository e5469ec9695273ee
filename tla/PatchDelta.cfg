CONSTANTS
    Byte = 64
    MinSuffix = 2
    Lead = 4
    Limit = 64
    Input <- MCInput
    None = None
SPECIFICATION Spec
INVARIANTS BestDecodes PackedRecovered
PROPERTY OnlyLongPrefixRejected
