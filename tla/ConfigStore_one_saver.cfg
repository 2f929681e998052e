SPECIFICATION Spec
CONSTANTS
    add = add
    force = force
    prompt = prompt
    cmd = cmd
    x = x
    y = y
    h1 = h1
    h2 = h2
    f1 = f1
    f2 = f2
    f3 = f3
    NoAlias = NoAlias
    NoEntry = NoEntry
    NoInode = NoInode
    Aliases = {x, y}
    Hosts = {h1, h2}
    Inodes = {f1, f2, f3}
    InitialConfigs <- MCInitialConfigs
    Adders = {add}
    ForcedAdders = {}
    Prompters = {prompt}
    Commands = {cmd}
    Overlap = FALSE
SYMMETRY FileSymmetry
INVARIANTS
    TypeOK
    StoreInv
    FileIsWhole
PROPERTIES
    AddKeepsOthers
    AddNeverReplaces
    Refinement
CHECK_DEADLOCK FALSE
