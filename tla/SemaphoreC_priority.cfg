SPECIFICATION Spec
CONSTANTS
    t1 = t1
    t2 = t2
    t3 = t3
    Threads = {t1, t2, t3}
    NoThread = NoThread
    MaxCounter = 2
    MaxRelease = 2
    MaxTimeout = 1
    Prio <- MCPrio
    WaitPriority = TRUE
    SignalInter = TRUE
SYMMETRY Symmetry
INVARIANTS
    TypeOK
    NoStrandedWaiter
    NoIdleUnits
    QueueOrdered
    FreedIsEmpty
    FlushCountBound
PROPERTIES
    ResultMatchesGrant
