CONSTANTS
    IP = {ip1}
    Req = {r1, r2, r3}
    Period = 3
    Burst = 2
    StaleAfter = 7
    Second = 2
    Stall = 2
    MaxClock = 13
    MaxDebt = 4
    MaxBuckets = 3
SPECIFICATION MCSpec
SYMMETRY Symmetry
INVARIANTS NeverRicher NoSplitBucket WithinRate RefusedAloneIsFree RetryAloneHonoured
PROPERTIES ContractKept
CHECK_DEADLOCK FALSE
