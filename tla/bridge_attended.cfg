\* Calls inside croutoncycle and of xiwi, with somebody at the keyboard.
SPECIFICATION AttendedSpec
CONSTANTS
    r1 = r1
    r2 = r2
    x1 = x1
    c1 = c1
    Callers <- CycleCallers
    Kind <- CycleKind
    Slow <- CycleCallers
    MaxConn = 1
    MaxQueue = 1
PROPERTIES
    ServerReturns
CHECK_DEADLOCK FALSE
