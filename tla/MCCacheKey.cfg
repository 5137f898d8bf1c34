SPECIFICATION Spec
CONSTANTS
    Requests = {r1, r2}
    Targets <- EscapedTargets
    NoOne = NoOne
    MaxForget = 0
INVARIANT RightResponse
