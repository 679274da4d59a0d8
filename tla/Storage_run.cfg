CONSTANTS
    p1 = p1
    p2 = p2
    s1 = s1
    s2 = s2
    i1 = i1
    i2 = i2
    p0 = p0
    None = None
    Procs <- MCProcs
    Dead <- MCDead
    Session <- MCSession
    Scopes <- MCScopes
    Inodes <- MCInodes
    Keep = 1
    Stores <- MCStores
    Earlier = 11
    MaxWrites = 13
    MaxChanges = 14
SYMMETRY Symmetry
SPECIFICATION Spec
CHECK_DEADLOCK FALSE
INVARIANTS
    SchemaReady
    EvidenceIsCorrupt
    NoKnownCorrupt
    SealedNotResumed
PROPERTIES
    RemovalAccounted
    SweepCleans
