\* The bridge, see README.md.
SPECIFICATION FairSpec
CONSTANTS
    r1 = r1
    r2 = r2
    x1 = x1
    c1 = c1
    Callers <- CycleCallers
    Kind <- CycleKind
    Slow = {}
    MaxConn = 1
    MaxQueue = 1
PROPERTIES
    ListAnswered
CHECK_DEADLOCK FALSE
