SPECIFICATION Spec
CONSTANTS
    c1 = c1
    c2 = c2
    v1 = v1
    v2 = v2
    Clients <- MCClients
    Ids <- MCIds
    Values <- MCValues
    NoValue = NoValue
    NoSecret = NoSecret
    NoClient = NoClient
    ChunkSize = 2
    Base = 3
    Crashes = TRUE
INVARIANTS
    TypeOK
    PanicsOnlyWhenTorn
PROPERTY
    ImplementsObjectDB
CHECK_DEADLOCK FALSE
