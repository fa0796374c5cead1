SPECIFICATION Spec
CONSTANTS
    t1 = t1
    t2 = t2
    q1 = q1
    c1 = c1
    c2 = c2
    l1 = l1
    l2 = l2
    bad = bad
    null = null
    Tenants <- MCTenants
    Queries <- MCQueries
    Columns <- MCColumns
    Labels <- MCLabels
    BadLabels <- MCBadLabels
    Values <- MCValues
    Zero = 0
    Absent = absent
    Null = null
    Snapshots <- MCSnapshots
    MaxResults = 4
INVARIANTS
    TypeOK
    NoOrphanSeries
    ErrorsCountNullCells
    ApplyProgress
PROPERTIES
    NoBlankWindow
    BoardSpec
