\* Four chunks on two workers, up to two passes.
SPECIFICATION Spec
CHECK_DEADLOCK FALSE
CONSTANTS
    k1 = k1
    k2 = k2
    k3 = k3
    k4 = k4
    None = None
    Chunks = {k1, k2, k3, k4}
    Deps <- MCDeps
    Rank <- MCRank
    Leftovers <- MCLeftovers
    MaxParallel = 2
    E2ECeiling = 2
    MaxRepairs = 1
INVARIANTS
    Isolated
    SlotAvailable
    CleanPassVerified
PROPERTIES
    Terminates
