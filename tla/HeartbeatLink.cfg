SPECIFICATION LinkFairSpec
CONSTANTS
    Period = 5
    PollStep = 2
    Slack = 1
    SendMax = 2
    LockMax = 1
    PollTimeout = 2
    ReadMax = 1
    MaxLost = 1
INVARIANTS
    TypeOK
    NoUseAfterFree
    CleanExit
    ReportsKeepComing
    ExitIsPrompt
PROPERTY
    EndsWhenAsked
