SPECIFICATION FairSpec
CONSTANTS
    t1 = t1
    t2 = t2
    t3 = t3
    Threads = {t1, t2}
    NoThread = NoThread
    MaxCounter = 1
    MaxRelease = 1
    MaxTimeout = 2
    Prio <- MCPrio
    WaitPriority = FALSE
    SignalInter = FALSE
PROPERTIES
    TimedWaitReturns
