SPECIFICATION FairSpec
CONSTANTS
    Threads = {t1, t2, t3}
    NoThread = NoThread
    Queues = {"R", "W"}
    NoQueue = "none"
    WaitPriority = FALSE
    Prio <- MCPrio
    PreferWriter = TRUE
    MaxDepth = 1
INVARIANTS
    TypeOK
    CounterAgrees
    NobodyWaitsOnFree
PROPERTIES
    ImplementsReadersWriters
    WriterGetsIn
