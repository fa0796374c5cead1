SPECIFICATION Spec
CONSTANTS
    unset = unset
    garbage = garbage
    nofile = nofile
    broken = broken
    noid = noid
    Environments <- MCEnvironments
    Builtins <- MCBuiltins
    SelfNames <- MCSelfNames
    GoodIds <- MCGoodIds
    WordMax = 63
    Second = 4
    DefaultCycle = 5
    DefaultTimeout = 1
    DefaultRows = 3
    DefaultPort = 7
    MaxPort = 9
    Unset = unset
    Garbage = garbage
    NoFile = nofile
    Broken = broken
    NoId = noid
INVARIANTS
    ResolvedLibrary
    AllOrNothing
    WindowUnlessWrapped
    ReadyIsHonest
