SPECIFICATION Spec
CONSTANTS
    Radix = 10
    Digits = 1
    MaxMantissa = 150
    MaxU64 = 40
    MaxScale = 2
    Resolution = 4
    NoCost = NoCost
    Missing = Missing
    Unparsable = Unparsable
    Blank = Blank
    NotFinite = NotFinite
    NoPrice = NoPrice
    NoConfig = NoConfig
    SpacedModels = {"g pt"}
    BuiltinPrices <- MCBuiltinPrices
    Files <- MCFiles
    Models = {"gpt", "own"}
    StatedUsages <- MCStatedUsages
    NoUsage = NoUsage
    NotUsage = NotUsage
INVARIANT ConvertedExactly
PROPERTY CapWithinRounding
CHECK_DEADLOCK FALSE
