SPECIFICATION Spec
CONSTANTS
    e1 = e1
    e2 = e2
    e3 = e3
    Events = {e1, e2, e3}
    Notice <- MCNotice
    Success <- MCSuccess
    Dead = {e3}
    Rank <- MCRank
    Tasks = {t1, t2}
    MaxRetries = 2
    Limit = 2
    MaxFaults = 2
    Nobody = Nobody
    Gone = Gone
INVARIANT OneSender
PROPERTIES SettledIsFinal EventuallySettled
CHECK_DEADLOCK FALSE
