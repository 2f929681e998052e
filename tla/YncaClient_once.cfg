SPECIFICATION Spec
CONSTANTS
    s1 = s1
    s2 = s2
    m1 = m1
    m2 = m2
    NoCall = NoCall
    Calls = {s1}
    Multi = {}
    Probes = {}
    WakeOnConnect = FALSE
    MaxPushes = 0
    MaxReports = 0
    MaxMultiLines = 0
INVARIANTS
    ExecutedOnce
CHECK_DEADLOCK FALSE
