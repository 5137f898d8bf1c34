SPECIFICATION MCFairSpec
CONSTANTS
    Requests = {1, 2, 3}
    maxConcurrent = 2
    Targets <- PageAndForm
    NoOne = NoOne
    MaxForget = 0
INVARIANTS
    BackendWithinLimit
    NothingLeftBehind
    ServedAreLoggedOnce
PROPERTY EveryRequestLeaves
