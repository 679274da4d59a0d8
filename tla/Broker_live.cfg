\* Two clients race; liveness under the fairness of Spec.
SPECIFICATION Spec
CHECK_DEADLOCK FALSE
CONSTANTS
    c1 = c1
    c2 = c2
    p1 = p1
    m1 = m1
    none = none
    nobudget = nobudget
    Clients = {c1, c2}
    Providers = {p1}
    Metered = {p1}
    Limited = {p1}
    Capacity = 2
    RefillRate = 1
    MaxConcurrency = 2
    Amounts = {1}
    Actuals = {1}
    Models = {m1}
    Registered = {m1}
    NoModel = none
    Callbacks = {TRUE}
    Costs = {2}
    MaxCost = 2
    RunBudget = 1
    DayBudget = nobudget
    NoBudget = nobudget
    Day = 2
    Ttl = 1
    DrainTimeout = 1
    MaxTime = 2
    MaxReservations = 2
PROPERTIES
    StopReaches
    DrainEnds
