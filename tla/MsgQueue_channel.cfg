SPECIFICATION Spec
CONSTANTS
    Threads = {t1, t2, t3}
    NoThread = NoThread
    Queues = {"R", "S"}
    NoQueue = "none"
    WaitPriority = FALSE
    Prio <- MCPrio
    Msgs <- MCMsgs
    Urgency <- MCUrgency
    Long <- MCLong
    Nothing = "nothing"
    MaxMsgs = 2
SYMMETRY Symmetry
INVARIANTS
    TypeOK
    CounterAndMapAgree
    NothingLost
    NoWaitBesideMessage
PROPERTIES
    ImplementsChannel
