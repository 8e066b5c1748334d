\* Both threads do again what was recorded.
SPECIFICATION Spec
CONSTANTS
    t1 = t1
    t2 = t2
    NoThread = NoThread
    Threads <- MCThreads
    Programs <- MCPrograms
    Kind <- MCKind
    Diverging = {}
INVARIANT
    ReplaySucceeds
\* Every thread ends.
CHECK_DEADLOCK FALSE
