CONSTANTS
    Procs = {p1, p2}
    Dead = {}
    Inodes = {i1, i2}
    None = None
SPECIFICATION LockSpec
CHECK_DEADLOCK FALSE
INVARIANT
    OneHolder
