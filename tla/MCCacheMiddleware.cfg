SPECIFICATION FairSpec
CONSTANTS
    Requests = {r1, r2, r3}
    Targets <- PlainTargets
    NoOne = NoOne
    MaxForget = 1
INVARIANTS
    OneCallPerKey
    StoresOnlyIntoGaps
    RightResponse
    AnsweredWhenDone
PROPERTY EveryRequestEnds
