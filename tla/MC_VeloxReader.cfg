CONSTANTS
    RowCounts = {1, 3}
    StripeBytes = {0, 1}
    MaxStripes = 3
    Batch = {0, 1, 2, 4}
    Targets = {0, 1, 2, 3, 4, 5, 6, 7, 8, 9, 10}
    Failing = {"next", "load", "seek", "skip"}
SPECIFICATION Spec
INVARIANTS RootAtCursor RowNumberOnceLoaded SplitsPartition EstimateIsCurrent
PROPERTY ImplementsRowCursor
