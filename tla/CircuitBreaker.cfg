SPECIFICATION BreakerFairSpec
CONSTANTS
    Requests = {r1, r2, r3, r4}
    FailureThreshold = 3
    MaxFailures = 5
    Outcomes = {"ok", "server", "connect", "client", "abandoned"}
INVARIANTS
    OneProbePerWindow
    ClosedBelowThreshold
PROPERTY
    OpenIsProbed
