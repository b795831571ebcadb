\* A line beyond the limit that arrives together with its newline.
CONSTANTS
    Streams <- MCStreams
    Usages = {"small", "huge"}
    CostOf <- MCCostOf
    NoCost = NoCost
    NoUsage = NoUsage
    MaxEventBytes = 2
    MaxChunk = 2
    MaxLine = 3
    MaxRemnant = 0
SPECIFICATION Spec
INVARIANTS OversizedReported
CHECK_DEADLOCK FALSE
