CONSTANTS
    MaxChunks = 3
    MaxRows = 2
    MaxSlots = 3
    IsString = TRUE
    ByteSize = 2
    Null = Null
    Unwritten = Unwritten
SPECIFICATION Spec
PROPERTIES ImplementsStreamCursor StringsOutliveTheirChunk
