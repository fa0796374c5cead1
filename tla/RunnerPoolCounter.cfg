SPECIFICATION Spec
CONSTANTS
    t1 = t1
    Tenants <- MCTenants
    NumQueries = 1
    Slow <- MCNone
    InboxCap = 2
    MaxConns = 1
    MaxFires = 3
    MaxEmpty = 1
INVARIANT EmptyCounterNotAbovePool
