SPECIFICATION Spec
CONSTANTS
    a = a
    b = b
    c = c
    d = d
    old = old
    new = new
    other = other
    dis = dis
    NoGroup = NoGroup
    Devices = {a, b, c, d}
    Groups = {old, new, other}
    Creators = {new, other}
    Dissolvers = {dis}
    Leader <- MCLeader
    Followers <- MCFollowers
    Target <- MCTarget
    LostReplies = TRUE
    MayCancel = TRUE
    MaxFaults = 2
INVARIANTS
    TypeOK
    ConfirmedRolledBack
    NoStreamIntoTheVoid
PROPERTIES
    SuccessMeansGrouped
    NeverRepoints
CHECK_DEADLOCK FALSE
