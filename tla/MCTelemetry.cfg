SPECIFICATION MCSpec
CONSTANTS
    Closers = {c1, c2}
    LineCells <- MCLineCells
    LogBufferSize = 4
    MaxEntries = 4
    MaxRestarts = 1
    ChannelSize = 2
    Unencodable = {2}
    MaxSnapshots = 4
INVARIANTS
    NoHoles
    ClosedMeansFlushed
    Conserved
    ClosedMeansExported
PROPERTIES
    BothCloseReturn
    EventuallyOnDisk
CHECK_DEADLOCK FALSE
