SPECIFICATION FairSpec
CONSTANTS
    ip1 = ip1
    ip2 = ip2
    IPs <- MCIPs
    NoIP = NoIP
    Empty = Empty
    NoTable = NoTable
    Malformed = Malformed
    Usages <- MCUsages
    MaxSecrets = 3
INVARIANTS
    TypeOK
    GatewayServes
    
PROPERTIES
    SecretsStable
    RunEnds
CHECK_DEADLOCK FALSE
