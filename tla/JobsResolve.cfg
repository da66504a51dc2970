SPECIFICATION FairSpec
CONSTANTS
    stream = stream
    old = old
    p1 = p1
    NoOwner = NoOwner
    Jobs = {stream, old}
    Procs = {p1}
    Crawls = {stream}
    Streams = {stream}
    Legacy = {old}
    Unbuildable = {}
    Lease = 1
    MaxAttempts = 1
    MaxStops = 1
    Faults = FALSE
PROPERTIES
    ImplementsLifecycle
    EventuallyTerminal
CHECK_DEADLOCK FALSE
