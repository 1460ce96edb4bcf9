SPECIFICATION ITimerSpec
CONSTANTS
    Timers = {t1, t2}
    Counts = {1, 3}
    IdleTick = 2
    MaxDelay = 1
    MaxTime = 6
SYMMETRY Symmetry
INVARIANTS
    ThreadWakesInTime
    NeverEarly
