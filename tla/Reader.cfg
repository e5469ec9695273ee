CONSTANTS
    Members <- MCMembers
    Kind <- MCKind
    Attributes = "attributes"
    Signature = "signature"
    FileSizes <- MCFileSizes
    Inodes = {i1, i2, i3, i4}
    Streams = {s1}
    SourceKind = {"file", "mpqe", "custom"}
    ChunkSize = 2
    BatchChunks = 2
SPECIFICATION ReaderSpec
INVARIANTS CountsHolders NamedReadsDecipher OpensRepeatable MethodByteDeciphered AttributesLoadedOnce
           StreamsReadTheirArchive ReadsAreSlices
SYMMETRY InodeSymmetry
