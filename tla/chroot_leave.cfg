\* The chroot's life in two terminals, see README.md.
SPECIFICATION FairSpec
CONSTANTS
    t1 = t1
    t2 = t2
    Instances = {t1, t2}
    Lingering = {t1}
    Interrupted = {t1}
    Tries = 1
    MountOrder <- MarkerLast
INVARIANTS
    MountsInv
    CleanInv
    CleanAtEnd
    OnlyLateDisturbed
PROPERTIES
    LeavesInTheEnd
CHECK_DEADLOCK FALSE
