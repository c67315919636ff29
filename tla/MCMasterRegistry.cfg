CONSTANTS
    h1 = h1
    h2 = h2
    w1 = w1
    w2 = w2
    d1 = d1
    d2 = d2
    NoDb = NoDb
    PingThread = PingThread
    Free = Free
    Handlers = {h1, h2}
    Workers = {w1, w2}
    NameOf <- OwnNames
    Dbs = {d1, d2}
    MayCrash = {w1, w2}
    QuickRestart = {}
    Slow = TRUE
    OtherServer = {w2}
SPECIFICATION FairSpec
INVARIANTS
    WorkersAgree
    ActiveIffAssigned
PROPERTIES
    MasterServes
    DeadNodesLeave
\* A call that throws under the guard stops the master for good.
CHECK_DEADLOCK FALSE
