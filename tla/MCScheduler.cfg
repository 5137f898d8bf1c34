SPECIFICATION FairSpec
CONSTANTS
    Requests = {r1, r2, r3}
    maxConcurrent = 2
INVARIANTS
    TypeOK
    SlotAccounting
    DrainNeverBlocks
PROPERTY EveryRequestDecided
