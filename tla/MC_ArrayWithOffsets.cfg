CONSTANTS
    Arrays <- SomeArrays
    MaxRows = 4
    MaxBatch = 2
    MaxSlots = 3
    SkipBatch = 2
    Null = Null
    Unread = Unread
SPECIFICATION Spec
INVARIANTS WriterAligned ReaderAligned
PROPERTY DeliversArrays
