SPECIFICATION FairSpec
CONSTANTS
    NaN = NaN
    Unit = 1000
    Twists <- OneTwist
    Bodies <- NavigationBodies
    UsageMode = 1
    GaitOnStart <- NoGait
    MaxV <- DefaultMaxV
    FullScale <- DefaultFullScale
    CmdTimeout = 1
    StatusTimeout = 1
    ControlPeriod = 1
    MaxStall = 1
    MaxDelay = 1
    MaxInFlight = 1
    MaxTime = 2
PROPERTIES
    RobotEventuallyStops
    RobotEventuallyDrives
