\* Two clients race for two workspaces while the clock is set back; two threads
\* handle three operator commands; two groups of up to three processes; three
\* tasks and two callers of cancel_all; two workers with two files, one of which
\* is ignored.
SPECIFICATION ControlSpec
CHECK_DEADLOCK FALSE
CONSTANTS
    Workspaces = {k1, k2}
    Conns = {c1, c2}
    MaxClock = 3
    MaxCommands = 4
    Handlers = {h1, h2}
    MaxPresses = 3
    Groups = {g1, g2}
    MaxForks = 2
    Tasks = {t1, t2, t3}
    Callers = {d1, d2}
    x = x
    r = r
    b = b
    Files = {f, g}
    Ignored = {g}
    Values = {"a"}
    Edits = {x, r, b}
    Unix <- MCUnix
    Written <- MCWritten
    Undecodable = {b}
    Workers = {w1, w2}
    MaxEdits = 2
    MaxCrashes = 2
SYMMETRY Symmetry
INVARIANTS OneThread NoSurvivor NoTaskLost RestoredAsCaptured AutostashKept
PROPERTY StopStands
