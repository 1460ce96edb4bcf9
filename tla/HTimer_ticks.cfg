SPECIFICATION Spec
CONSTANTS
    Timers = {t1, t2, t3}
    Counts = {1, 3}
SYMMETRY Symmetry
INVARIANTS
    TypeOK
    ScanStaysOnLine
PROPERTY
    CountsDown
