SPECIFICATION Spec
CONSTANTS
    t1 = t1
    t2 = t2
    t3 = t3
    Threads = {t1, t2, t3}
    NoThread = NoThread
    Queues = {m1}
    NoQueue = NoQueue
    WaitPriority = TRUE
    BasePrio <- MCPrio
    Options <- MCOptions
    Ceiling = 0
    MaxDepth = 1
VIEW View
INVARIANTS
    TypeOK
    OwnerKnows
    NoInversion
    PriorityComesBack
    SafeWhileOwner
PROPERTIES
    ImplementsLock
