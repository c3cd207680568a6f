\* Calls that run out of time and connections that come and go, see README.md.
SPECIFICATION Spec
CONSTANTS
    r1 = r1
    r2 = r2
    x1 = x1
    c1 = c1
    Callers <- PlainCallers
    Kind <- PlainKind
    Slow <- PlainCallers
    MaxConn = 2
    MaxQueue = 1
SYMMETRY PlainSymmetry
INVARIANTS
    OneCallAtATime
    NoStaleAnswer
    BridgeInv
PROPERTIES
    AnswersItsRequest
CHECK_DEADLOCK FALSE
