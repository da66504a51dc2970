SPECIFICATION Spec
CONSTANTS
    agent = agent
    p1 = p1
    NoOwner = NoOwner
    Jobs = {agent}
    Procs = {p1}
    Crawls = {}
    Streams = {}
    Legacy = {}
    Unbuildable = {}
    Lease = 1
    MaxAttempts = 1
    MaxStops = 0
    Faults = FALSE
INVARIANT
    NoContradictoryEvents
CHECK_DEADLOCK FALSE
