SPECIFICATION FairSpec
CONSTANTS
    MaxFaults = 2
    MaxHosts = 2
INVARIANTS
    TypeOK
    RefusedUntouched
    SuccessMeansDone
    ReplaysBounded
    ToggleMeansOther
    SeekReleased
    CancelWins
    RefusalIsFresh
PROPERTIES
    Ends
CHECK_DEADLOCK FALSE
