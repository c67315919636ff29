CONSTANTS
    p = p
    q = q
    t1 = t1
    t2 = t2
    t3 = t3
    None = None
    Abandoned = Abandoned
    Procs = {p, q}
    Threads = {t1, t3}
    ProcOf <- ProcOfThread
    Writers = {q}
    Checkers = {q}
    me_maxreaders = 2
    NOTLS = {p}
    MaxTxn = 2
    MaxDeaths = 1
SPECIFICATION Spec
INVARIANTS
    TypeOK
    SnapshotsProtected
    SlotsOwned
    SlotsAccounted
CHECK_DEADLOCK FALSE
