CONSTANTS
    h1 = h1
    h2 = h2
    w1 = w1
    w2 = w2
    d1 = d1
    d2 = d2
    NoDb = NoDb
    PingThread = PingThread
    Free = Free
    Handlers = {h1, h2}
    Workers = {w1, w2}
    NameOf <- OwnNames
    Dbs = {d1}
    MayCrash = {w1, w2}
    QuickRestart = {}
    Slow = FALSE
    OtherServer = {}
SPECIFICATION FairSpec
PROPERTIES
    DeadNodesRemoved
\* A call that throws under the guard stops the master for good.
CHECK_DEADLOCK FALSE
