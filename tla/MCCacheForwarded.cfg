SPECIFICATION Spec
CONSTANTS
    Requests = {r1, r2}
    Targets <- OneTarget
    NoOne = NoOne
    MaxForget = 0
INVARIANT ForwardedOnlyByLeader
