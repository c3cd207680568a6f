\* Calls that all end in time, see README.md.
SPECIFICATION AttendedSpec
CONSTANTS
    r1 = r1
    r2 = r2
    x1 = x1
    c1 = c1
    Callers <- PlainCallers
    Kind <- PlainKind
    Slow = {}
    MaxConn = 2
    MaxQueue = 1
INVARIANTS
    PromiseInv
    NeverStops
PROPERTIES
    KeepsPromise
    FlushesNoRequest
    CallsEnd
CHECK_DEADLOCK FALSE
