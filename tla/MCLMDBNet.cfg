CONSTANTS
    t1 = t1
    t2 = t2
    t3 = t3
    c1 = c1
    c2 = c2
    Env = Env
    Nil = Nil
    Txns = {t1, t2, t3}
    Cursors = {c1, c2}
    ChildrenFirst = TRUE
    CursorsFirst = TRUE
    Renews = TRUE
SPECIFICATION Spec
SYMMETRY Symmetry
INVARIANTS
    NoMisuse
    HandlesAgree
    NothingLeft
PROPERTIES
    OnlyAskedCommits
\* When every object is disposed of, the user has nothing left to call.
CHECK_DEADLOCK FALSE
