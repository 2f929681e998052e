SPECIFICATION FairSpec
CONSTANTS
    Ifaces = {lan, wifi}
    Addrs <- MCAddrs
    Sibling = 3
    SearchSends = 1
    FetchParallel = 1
    SweepParallel = 1
    MaxFaults = 1
    RediscoverAfter = 2
    BackoffMin = 1
    BackoffMax = 2
INVARIANTS
    TypeOK
    CancelWakes
    FindsReceiver
PROPERTIES
    AllEnd
    Follows
CHECK_DEADLOCK FALSE
