CONSTANTS
    NoName = NoName
    Error = Error
    NoLayout = NoLayout
    Nobody = Nobody
    VeloxSchema <- SomeSchema
    FlatMapColumns = {"flat", "deep"}
    DictionaryArrayColumns = {"dict"}
    DeduplicatedMapColumns = {"deep"}
    FeatureReordering <- SomeOrder
    Keys = {"k1", "k2"}
    Writers <- SafeWriters
    MaxBatches = 2
    MaxKeys = 1
    MaxFlattened = 2
    MaxGone = 1
SPECIFICATION Spec
INVARIANT OffsetsUnique
INVARIANT SchemaReadsBack
INVARIANT ReadersUnderstandFile
INVARIANT LayoutComplete
INVARIANT ContextsFollowSchema
PROPERTY OffsetsStay
