CONSTANTS
    Columns = {a}
    Root = Root
    ValueSize = 2
    MinStreamChunkRawSize = 1
    EnableChunking = TRUE
    MaxRows = 3
    MaxBatch = 2
    Null = Null
    Undef = Undef
SPECIFICATION Spec
INVARIANTS StreamsAligned FinishedFileComplete
PROPERTY ImplementsRowFile
CHECK_DEADLOCK FALSE
