\* Two publisher threads overflow a queue of one; the client may come back.
CONSTANTS
    Clients = {c1}
    agent = agent
    metrics = metrics
    Publishers <- MCPublishers
    Guarded = {metrics}
    Capacity = 1
    MaxEvents <- MCMaxEvents
    MaxAttach = 1
SPECIFICATION Spec
INVARIANTS ControlKept
CHECK_DEADLOCK FALSE
