CONSTANTS
    p1 = p1
    p2 = p2
    root = root
    leaf = leaf
    freeDB = freeDB
    Nobody = Nobody
    Abandoned = Abandoned
    Procs = {p1, p2}
    Readers = {p1}
    Writers = {p1, p2}
    Ops = {"write"}
    Nodes = {root}
    Root = root
    FreeDB = freeDB
    MaxPg = 10
    MaxTxn = 5
    MaxCrash = 1
    NoMetaSync = TRUE
    Faults = {}
SPECIFICATION Spec
INVARIANTS
    TypeOK
    SnapshotStable
    ReaderPagesInBounds
    TxnidsCommitted
PROPERTIES
    ImplementsStore
CHECK_DEADLOCK FALSE
