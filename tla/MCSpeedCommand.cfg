SPECIFICATION Spec
CONSTANTS
    NaN = NaN
    Unit = 10
    Requests <- SomeRequests
    Limits <- SomeLimits
    FullScales <- SomeFullScales
    Modes = {0, 1, 2}
INVARIANTS
    ExecutedWithinLimit
    MisconfigurationStops
PROPERTY
    OrderPreserved
