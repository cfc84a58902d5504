CONSTANTS
    Size = 3
    View = {v1, v2}
    Collector = collector
    TTL = 2
    Duration = {1, 2}
    Memory = {1, 2}
    MaxClock = 4
    MaxRecords = 4
SPECIFICATION Spec
INVARIANTS RingIsWindow FiguresAreRecent PeakHolds
SYMMETRY Symmetry
CHECK_DEADLOCK FALSE
