SPECIFICATION FairCycles
CONSTANTS
    t1 = t1
    Tenants <- MCTenants
    NumQueries = 2
    Slow <- MCSlow
    InboxCap = 2
    MaxConns = 1
    MaxFires = 2
    MaxEmpty = 1
INVARIANTS
    TypeOK
    OnlyNewestRuns
    FewLateSends
    SerialWithinCycle
    EmptyCounterExact
    EmptyCounterMissesNothing
PROPERTIES
    StaleOnlyFromKilled
    ImplementsPipeline
    KilledCyclesEnd
