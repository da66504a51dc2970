SPECIFICATION Spec
CONSTANTS
    agent = agent
    p1 = p1
    p2 = p2
    NoOwner = NoOwner
    Jobs = {agent}
    Procs = {p1, p2}
    Crawls = {}
    Streams = {}
    Legacy = {}
    Unbuildable = {}
    Lease = 1
    MaxAttempts = 2
    MaxStops = 1
    Faults = TRUE
INVARIANTS
    NeverReplayed
    OwnerIsTheWorker
    IntentRecorded
CHECK_DEADLOCK FALSE
