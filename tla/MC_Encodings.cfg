\* A writer that cannot encode a chunk has nothing left to do.
SPECIFICATION Spec
CONSTANTS
    GroupBits = 1
    WordLength = 3
    MaskLength = 2
    ByteBits = 2
    NumberBits = 4
    BufferSize = 2
    Null = Null
    NoTree = NoTree
    Factories <- MCFactories
    Chunks <- MCChunks
    Machines <- MCMachines
    Slots <- MCSlots
    Nulls <- MCNulls
    Filters <- MCFilters
INVARIANT EveryChunkEncodes
INVARIANT ReplayKeepsLayout
INVARIANT ReservedIsWritten
INVARIANT ReadsDeliver
INVARIANT VisitsDeliver
CHECK_DEADLOCK FALSE
