SPECIFICATION Spec
CONSTANTS
    Brokers = {b1, b2}
    Engines = {e0, e1, e2}
    Outdated = {e0}
    Commands = {c1, c2}
    None = None
INVARIANTS
    OneBroker
    NothingLeftBehind
PROPERTY
    SelfCheckEnds
CHECK_DEADLOCK FALSE
