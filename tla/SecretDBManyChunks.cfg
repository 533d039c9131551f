SPECIFICATION Spec
CONSTANTS
    c1 = c1
    c2 = c2
    v1 = v1
    v2 = v2
    Clients <- MCClients
    Ids <- MCIds3
    Values <- MCOneValue
    NoValue = NoValue
    NoSecret = NoSecret
    NoClient = NoClient
    ChunkSize = 1
    Base = 3
    Crashes = FALSE
INVARIANT
    RoundTrip
