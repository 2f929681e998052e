SPECIFICATION FairSpec
CONSTANTS
    s1 = s1
    s2 = s2
    m1 = m1
    m2 = m2
    NoCall = NoCall
    Calls = {s1, m1}
    Multi = {m1}
    Probes = {}
    WakeOnConnect = TRUE
    MaxPushes = 1
    MaxReports = 1
    MaxMultiLines = 2
INVARIANTS
    MultiComplete
PROPERTIES
    CallsReturn
CHECK_DEADLOCK FALSE
