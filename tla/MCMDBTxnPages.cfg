CONSTANTS
    p1 = p1
    p2 = p2
    root = root
    leaf = leaf
    freeDB = freeDB
    Nobody = Nobody
    Abandoned = Abandoned
    Procs = {p1, p2}
    Readers = {}
    Writers = {p1}
    Ops = {"write", "loose", "overflow", "empty", "drop", "abort"}
    Nodes = {root, leaf}
    Root = root
    FreeDB = freeDB
    MaxPg = 9
    MaxTxn = 4
    MaxCrash = 0
    NoMetaSync = FALSE
    Faults = {}
SPECIFICATION Spec
INVARIANTS
    PagesAccounted
CHECK_DEADLOCK FALSE
