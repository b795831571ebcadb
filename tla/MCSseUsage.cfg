\* Lines within and beyond the limit of two bytes, and a remnant long enough to overflow the buffer.
CONSTANTS
    Streams <- MCStreams
    Usages = {"small", "huge"}
    CostOf <- MCCostOf
    NoCost = NoCost
    NoUsage = NoUsage
    MaxEventBytes = 2
    MaxChunk = 3
    MaxLine = 3
    MaxRemnant = 7
SPECIFICATION Spec
INVARIANTS TypeOK ChunkingInvisible BufferBounded ReportedAtTheEnd
PROPERTIES ImplementsMeteredStream
CHECK_DEADLOCK FALSE
