SPECIFICATION Spec
CONSTANTS
    NaN = NaN
    Unit = 1000
    Twists <- OneTwist
    Bodies <- TwoBodies
    UsageMode = 0
    GaitOnStart = 4097
    MaxV <- DefaultMaxV
    FullScale <- DefaultFullScale
    CmdTimeout = 1
    StatusTimeout = 1
    ControlPeriod = 1
    MaxStall = 1
    MaxDelay = 1
    MaxInFlight = 2
    MaxTime = 4
INVARIANTS
    TypeOK
    AtMostOneStaleDrive
    UnsafeStops
    CmdLossStops
    ReportLossStops
PROPERTIES
    DriveBacked
    ImplementsLease
