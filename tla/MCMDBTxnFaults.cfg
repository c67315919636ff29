CONSTANTS
    p1 = p1
    p2 = p2
    root = root
    leaf = leaf
    freeDB = freeDB
    Nobody = Nobody
    Abandoned = Abandoned
    Procs = {p1, p2}
    Readers = {p1}
    Writers = {p1, p2}
    Ops = {"write", "sync"}
    Nodes = {root}
    Root = root
    FreeDB = freeDB
    MaxPg = 10
    MaxTxn = 4
    MaxCrash = 1
    NoMetaSync = FALSE
    Faults = {"pages", "meta"}
SPECIFICATION Spec
INVARIANTS
    Recoverable
    
CHECK_DEADLOCK FALSE
