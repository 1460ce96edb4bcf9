SPECIFICATION Spec
CONSTANTS
    Threads = {t1, t2, t3}
    NoThread = NoThread
    Queues = {"R", "W"}
    NoQueue = "none"
    WaitPriority = FALSE
    Prio <- MCPrio
    PreferWriter = FALSE
    MaxDepth = 1
INVARIANTS
    NobodyWaitsOnFree
