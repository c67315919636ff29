SPECIFICATION FairSpec
CONSTANTS
    t1 = t1
    t2 = t2
    t3 = t3
    t4 = t4
    t5 = t5
    Threads = {t1, t2, t3, t4, t5}
    Writers = {t1, t2}
INVARIANTS
    MutualExclusion
    WakeupsConserved
    NobodyWaitsInVain
PROPERTIES
    WriterPriority
    ImplementsRWLock
    ThreadsProgress
