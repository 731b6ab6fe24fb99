SPECIFICATION FairSpec
CONSTANTS
    HandshakeTimeouts = {0, 4}
    MinHandshake = 3
    RecvTimeout = 1
    PollTimeout = 2
    BufLen = 2
    MaxRecord = 4
    MaxInbox = 2
    MaxSkipped = 2
INVARIANTS
    TypeOK
    SslExclusive
    ReleasedOnce
    LockHeldBriefly
    HandshakeOnTime
PROPERTIES
    PendingTaken
    ConstructorEnds
