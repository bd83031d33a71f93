CONSTANTS
    NoName = NoName
    Error = Error
    NoLayout = NoLayout
    Nobody = Nobody
    VeloxSchema <- SomeSchema
    FlatMapColumns = {"flat", "deep"}
    DictionaryArrayColumns = {"dict"}
    DeduplicatedMapColumns = {"deep"}
    FeatureReordering <- SomeOrder
    Keys = {"k1", "k2"}
    Writers <- RacingWriters
    MaxBatches = 2
    MaxKeys = 1
    MaxFlattened = 1
    MaxGone = 1
SPECIFICATION Spec
INVARIANT OffsetsUnique
