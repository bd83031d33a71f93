\* Two keys in stripes of up to three rows, written one or two rows at a time,
\* streams of more than one byte cut into chunks.
CONSTANTS
    a = a
    b = b
    c = c
    Keys = {a, b}
    MapsAt <- SomeMapsAt
    Selections <- SomeSelections
    ValueSize = 1
    MinStreamChunkRawSize = 1
    MaxRows = 3
    MaxBatch = 2
    Null = Null
    Undef = Undef
SPECIFICATION Spec
INVARIANT StreamsHoldMaps
PROPERTY DeliversMaps
CHECK_DEADLOCK FALSE
