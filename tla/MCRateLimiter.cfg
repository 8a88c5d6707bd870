SPECIFICATION Spec
CONSTANTS
    Threads = {t1, t2, t3}
    NoTime = NoTime
    Limit = 2
    Window = 3
    MaxStall = 1
    MaxTime = 7
    MaxCalls = 6
SYMMETRY MCSymmetry
INVARIANTS TypeOK LimitKept
PROPERTIES RefusalJustified
CHECK_DEADLOCK FALSE
