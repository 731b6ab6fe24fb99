SPECIFICATION FairSpec
CONSTANTS
    UsageMode = 0
    GaitOnStart = 12290
    SetMode = TRUE
    AutoStand = TRUE
    ModeSettle = 1
    StandSettle = 3
    StatusWait = 2
    DefaultGait = 4097
    RiseTime = 3
    MaxDelay = 1
    Lossy = TRUE
    MaxInFlight = 2
PROPERTY
    ReadbackAfterRequest
