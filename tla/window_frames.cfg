\* Frames and cursors of a window, see README.md.
\* The system may stop: fbserver can die, and MaxEvents = 3
SPECIFICATION Spec
CONSTANTS
    MaxRetry = 1
    Understood = {"S", "P", "R", "I"}
    Addrs = {1, 2}
    Sizes = {1, 2}
    MaxContent = 2
    Serials = {1, 2}
    MaxEvents = 3
INVARIANTS
    FramesTypeOK
    OneRequest
    FlowAlive
    NoLostUpdate
    CursorArrives
    NeverOutdated
    FramesInv
PROPERTIES
    NeverGoesBack
    CatchesUp
CHECK_DEADLOCK FALSE
