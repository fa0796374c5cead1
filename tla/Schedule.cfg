SPECIFICATION Spec
CONSTANTS
    t1 = t1
    t2 = t2
    Tenants <- MCTenants
    Queries <- MCQueries
    Seconds <- MCSeconds
    WordMax = 15
    Second = 2
    Interval = 3
    MaxLate = 1
    MaxTime = 12
INVARIANTS
    TypeOK
    NoDrift
    NotStarved
PROPERTIES
    NoFalseAlarm
    DeathIsReported
    NeverEarly
SYMMETRY TenantSymmetry
