SPECIFICATION Spec
CONSTANTS
    Lines = {1, 2}
    Owner <- MCOwner
    Threads = {"run"}
    capacity = 2
    IndexCapacity = 1
    MaxLoads = 0
    MaxAppends = 4
    Garbled = {}
    Platforms = {"posix"}
    Modes = {"follow"}
    Logged = {1, 2}
    MaxFaults = 0
INVARIANT EachLineOnce
CHECK_DEADLOCK FALSE
