SPECIFICATION Spec
CONSTANTS
    Zones = 1
    OutCap = 1
    PktCap = 1
    BackoffMin = 1
    BackoffMax = 2
    MayBreak = FALSE
    MaxPackets = 2
    MaxForeign = 0
    MaxFails = 2
PROPERTIES
    SilenceIsSilence
CHECK_DEADLOCK FALSE
