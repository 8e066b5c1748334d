\* The second thread may do something else than what was recorded.
SPECIFICATION Spec
CONSTANTS
    t1 = t1
    t2 = t2
    NoThread = NoThread
    Threads <- MCThreads
    Programs <- MCPrograms
    Kind <- MCKind
    Diverging = {t2}
INVARIANTS
    TypeOK
    EventsFollowSchedule
    InputsAreOwn
PROPERTIES
    EveryThreadEnds
\* Every thread ends.
CHECK_DEADLOCK FALSE
