\* Up to three stripes of streams 0 and 2, either of them missing: groups of
\* one to three stripes of different widths. One optional section, compressed or
\* not, and initial reads that miss the footer, the stripes section, the optional
\* section, or nothing.
CONSTANTS
    MaxStreamOffset = 2
    StreamIds = {0, 2}
    StreamSizes = {3}
    RowCounts = {7}
    SectionNames = {"schema"}
    SectionSizes = {0, 200}
    ZstdSizes = {9}
    MetadataFlushThreshold = 60
    MetadataCompressionThreshold = 150
    MaxStripes = 3
    FooterWindows = {60, 130, 8000}
    MaxCalls = 2
    UnknownStream = 5
    UnknownSection = "none"
SPECIFICATION ReaderSpec
INVARIANTS TypeOK StripesHoldStreams ChecksumCoversFile GroupsMatchStripes ClosedFileReadable
INVARIANTS ReadsReturnWritten OpensUnlessMissed
CHECK_DEADLOCK FALSE
