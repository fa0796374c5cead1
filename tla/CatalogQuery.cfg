SPECIFICATION FairTimeouts
CONSTANTS
    c1 = c1
    c2 = c2
    Callers <- MCCallers
    Rows <- MCRows
    Caps <- MCCaps
    MaxConns = 1
    MaxFailures = 1
    MaxCalls = 1
    MaxChanges = 1
INVARIANTS
    CapIsExact
    NothingLeaks
PROPERTIES
    ShowsWholeSnapshots
    CallsReturn
