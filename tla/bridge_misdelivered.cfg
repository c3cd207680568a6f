\* The bridge, see README.md.
SPECIFICATION Spec
CONSTANTS
    r1 = r1
    r2 = r2
    x1 = x1
    c1 = c1
    Callers <- PlainCallers
    Kind <- PlainKind
    Slow <- PlainCallers
    MaxConn = 1
    MaxQueue = 1
SYMMETRY PlainSymmetry
INVARIANTS
    OwnReply
CHECK_DEADLOCK FALSE
