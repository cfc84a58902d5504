CONSTANTS
    IP = {ip1}
    Req = {r1, r2}
    Period = 2
    Burst = 2
    StaleAfter = 5
    Second = 3
    Stall = 2
    MaxClock = 12
    MaxDebt = 4
    MaxBuckets = 3
SPECIFICATION MCSpec
SYMMETRY Symmetry
INVARIANTS RefusalIsFree
CHECK_DEADLOCK FALSE
