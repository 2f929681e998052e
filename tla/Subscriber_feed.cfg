SPECIFICATION FairSpec
CONSTANTS
    Zones = 2
    OutCap = 1
    PktCap = 1
    BackoffMin = 1
    BackoffMax = 4
    MayBreak = TRUE
    MaxPackets = 2
    MaxForeign = 1
    MaxFails = 3
INVARIANTS
    TypeOK
    NothingLost
    BackoffFollowsFailures
    ShutdownLast
PROPERTIES
    Lifecycle
    Closes
    Delivered
CHECK_DEADLOCK FALSE
