SPECIFICATION MCSpec
CONSTANTS
    IPs = {a, b}
    capacity = 2
    TokenTicks = 2
    maxAge = 4
    MaxTime = 6
    RulesIPs = {a}
    Endpoints = {x, y}
    burstThreshold = 2
    burstWindow = 2
    endpointThreshold = 1
    endpointWindow = 1
    MaxRulesTime = 4
    MaxRequests = 4
INVARIANTS
    WindowLimit
    WindowExact
    PassedWithinLimit
PROPERTY AbandonedDropped
CHECK_DEADLOCK FALSE
