\* Display lock, see README.md: every call may fail, every server may die.
SPECIFICATION Spec
CONSTANTS
    x1 = x1
    x2 = x2
    x3 = x3
    Servers <- MCServers
    Chrome = Chrome
SYMMETRY MCSymmetry
INVARIANTS
    FreonInv
    OneOwner
    ChromeYields
    FileNamesUser
    NotOrphaned
