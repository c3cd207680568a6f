\* Display lock, see README.md: the lock without its assumption about flock().
SPECIFICATION Spec
CONSTANTS
    x1 = x1
    x2 = x2
    x3 = x3
    Servers <- MCServers
    Chrome = Chrome
SYMMETRY MCSymmetry
INVARIANT Arbitrates
