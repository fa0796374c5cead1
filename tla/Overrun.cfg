SPECIFICATION OverrunSpec
CONSTANTS
    t1 = t1
    Tenants <- MCTenants
    Queries <- MCQueries
    Seconds <- MCSeconds
    Place <- MCPlace
    WordMax = 15
    Second = 1
    Interval = 6
    QueryTimeout = 2
    MaxLate = 1
    MaxTime = 32
INVARIANTS
    FreshWithinReach
PROPERTIES
    KilledOnlyPastReach
