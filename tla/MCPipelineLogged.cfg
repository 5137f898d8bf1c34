SPECIFICATION Spec
CONSTANTS
    Requests = {r1, r2}
    maxConcurrent = 2
    Targets <- PageAndForm
    NoOne = NoOne
    MaxForget = 0
INVARIANT AdmittedAreLogged
