SPECIFICATION DaemonFair
CONSTANTS
    t1 = t1
    t2 = t2
    Tenants <- MCOneTenant
    NumQueries = 1
    Slow <- MCSlow
    InboxCap = 1
    MaxConns = 1
    MaxFires = 2
    MaxEmpty = 0
    MaxFailures = 1
INVARIANTS
    DaemonTypeOK
    ClosedUnderNobody
    NoConnAfterClose
    ServedTenantsAreUp
    ServesUntilDrained
    ExitIsOrderly
PROPERTIES
    ShutdownCompletes
