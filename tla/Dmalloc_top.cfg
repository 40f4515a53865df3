SPECIFICATION Spec
CONSTANTS
    ChunkSize = 64
    ChunkBases <- MCChunkBases
    AddrSpace = 4096
    Sizes <- FullSizes
    MaxBlocks = 3
INVARIANT InsideChunk
CHECK_DEADLOCK FALSE
