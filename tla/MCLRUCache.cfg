SPECIFICATION FairSpec
CONSTANTS
    Keys = {k1, k2, k3}
    Sizes = {1, 3, 6}
    TTLs = {0, 1}
    capacityArg = 2
    maxMemoryArg = 5
    MaxTime = 3
    MaxOps = 4
INVARIANTS
    IndexMatchesList
    MemoryAccounting
PROPERTIES
    EvictsJustEnough
    ImplementsStore
    ExpiredLeave
CHECK_DEADLOCK FALSE
