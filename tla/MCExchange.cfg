SPECIFICATION FairSpec
CONSTANTS
    Byte = 2
    Asdus <- SomeAsdus
    Reports <- Unsolicited
    Noise <- SomeNoise
    BufLen <- TwoBytesAndHeader
    MaxFlight = 2
    Window = 2
INVARIANTS
    TypeOK
    IdsUnique
    DecodedAsSent
PROPERTIES
    GateFollowsRobot
    DisplayFollowsRobot
    ReportsGetThrough
