SPECIFICATION FairSpec
CONSTANTS
    c1 = c1
    c2 = c2
    c3 = c3
    c4 = c4
    c5 = c5
    Callers <- MCCallers
    Weight <- MCWeight
    Limit = 3
    QueueCapacity = 3
    Cancellable <- MCCallers
INVARIANT
    BudgetConserved
PROPERTIES
    NoOvertaking
    ServedUnlessRevoked
