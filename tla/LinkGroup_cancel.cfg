SPECIFICATION Spec
CONSTANTS
    a = a
    b = b
    c = c
    d = d
    old = old
    new = new
    other = other
    dis = dis
    NoGroup = NoGroup
    Devices = {a, b, c, d}
    Groups = {old, new, other}
    Creators = {new}
    Dissolvers = {}
    Leader <- MCLeader
    Followers <- MCFollowers
    Target <- NoTarget
    LostReplies = FALSE
    MayCancel = TRUE
    MaxFaults = 0
INVARIANTS
    ConfirmedAlwaysRolledBack
CHECK_DEADLOCK FALSE
