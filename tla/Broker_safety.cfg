\* Two clients race over one provider that has both a bucket and a limiter.
SPECIFICATION Spec
SYMMETRY Perms
CHECK_DEADLOCK FALSE
CONSTANTS
    c1 = c1
    c2 = c2
    p1 = p1
    m1 = m1
    m2 = m2
    none = none
    nobudget = nobudget
    Clients = {c1, c2}
    Providers = {p1}
    Metered = {p1}
    Limited = {p1}
    Capacity = 2
    RefillRate = 1
    MaxConcurrency = 2
    Amounts = {1, 2}
    Actuals = {1}
    Models = {m1, m2}
    Registered = {m1}
    NoModel = none
    Callbacks = {TRUE}
    Costs = {2, 3}
    MaxCost = 3
    RunBudget = 3
    DayBudget = 2
    NoBudget = nobudget
    Day = 2
    Ttl = 1
    DrainTimeout = 1
    MaxTime = 2
    MaxReservations = 2
INVARIANTS
    TypeOK
    BudgetRespected
    BillBounded
    OneInterrupt
    SlotsBounded
    RateCeiling
