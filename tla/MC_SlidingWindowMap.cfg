CONSTANTS
    Maps <- SomeMaps
    MaxRows = 4
    MaxBatch = 2
    MaxSlots = 3
    Null = Null
SPECIFICATION Spec
INVARIANT StreamsHoldMaps
PROPERTY WindowsDeliverMaps
