SPECIFICATION FairSpec
CONSTANTS
    p1 = p1
    p2 = p2
    Pools <- MCOnePool
    ClassKind <- MCClassKind
    MaxDisks = 2
    Faults <- QuotaFaults
PROPERTY
    FailedInstanceDeleted
CHECK_DEADLOCK FALSE
