SPECIFICATION Spec
CONSTANTS
    s1 = s1
    s2 = s2
    m1 = m1
    m2 = m2
    NoCall = NoCall
    Calls = {s1, s2, m1, m2}
    Multi = {m1, m2}
    Probes = {s2}
    WakeOnConnect = FALSE
    MaxPushes = 0
    MaxReports = 2
    MaxMultiLines = 2
INVARIANTS
    TypeOK
    PairingInv
    ReplyIsOwn
    IdleWireIsClean
    MultiComplete
PROPERTIES
    RetryOnlyAfterReset
CHECK_DEADLOCK FALSE
