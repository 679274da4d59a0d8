\* Two inputs are enough for a file to be created and deleted, for git to change
\* in the same scan, and for a second envelope to meet the full socket of a
\* terminal that ended on the first.
CONSTANTS
    f1 = f1
    f2 = f2
    Feeds = {f1, f2}
    Paths = {p1}
    Contents = {v1}
    MaxInputs = 2
    SockBuf = 1
SPECIFICATION MCSpec
INVARIANTS PanelTruth
PROPERTIES StreamInOrder StreamSettles UnmountEnds
CHECK_DEADLOCK FALSE
