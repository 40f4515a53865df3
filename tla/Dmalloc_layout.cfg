SPECIFICATION Spec
CONSTANTS
    ChunkSize = 64
    ChunkBases <- MCChunkBases
    AddrSpace = 4096
    Sizes <- MCSizes
    MaxBlocks = 5
INVARIANTS TypeOK Disjoint Aligned
CHECK_DEADLOCK FALSE
