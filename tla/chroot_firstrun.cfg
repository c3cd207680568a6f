\* Two terminals enter the chroot, see README.md.
SPECIFICATION Spec
CONSTANTS
    t1 = t1
    t2 = t2
    Instances = {t1, t2}
    Lingering = {}
    Interrupted = {}
    Tries = 1
    MountOrder <- MarkerLast
INVARIANT OneFirstRun
CHECK_DEADLOCK FALSE
