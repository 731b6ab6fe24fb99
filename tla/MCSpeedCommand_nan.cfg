SPECIFICATION Spec
CONSTANTS
    NaN = NaN
    Unit = 10
    Requests <- SomeRequests
    Limits <- SomeLimits
    FullScales <- NaNFullScale
    Modes = {0}
INVARIANT
    MisconfigurationStops
