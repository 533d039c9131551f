SPECIFICATION FairSpec
CONSTANTS
    p1 = p1
    p2 = p2
    Pools <- MCPools
    ClassKind <- MCClassKind
    MaxDisks = 3
    Faults <- AllFaults
INVARIANTS
    TypeOK
    RecordedPoolBacked
    RecordOutlivesResources
    NoOrphans
PROPERTIES
    CollectSparesRunning
    DeletionCompletes
CHECK_DEADLOCK FALSE
