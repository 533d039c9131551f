SPECIFICATION FairSpec
CONSTANTS
    Specs = {"s1", "s2"}
    Ids = {i1, i2, i3, i4, i5, i6, i7, i8}
    NoId = NoId
    Callers = {c1, c2}
    Objects = {"net", "pool", "peer", "vpn1", "vpn2"}
    ServiceOf <- MCServiceOf
    SpecsOf <- MCSpecsOf
    NetworkOf <- MCNetworkOf
    Elsewhere = Elsewhere
    Scenarios <- MCScenarios
CHECK_DEADLOCK FALSE
INVARIANTS
    TypeOK
    RecordBacked
    NoOrphans
PROPERTIES
    ApplyCompletes
    DeleteCompletes
