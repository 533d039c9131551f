SPECIFICATION FairSpec
CONSTANTS
    c1 = c1
    c2 = c2
    Width = 3
    NodeClasses <- MCNodeClasses
    NodeClaims <- MCNodeClaims
    NodeClassRef <- MCNodeClassRef
    WireguardPeerCIDR <- MCWireguardPeerCIDR
    NoClaim = NoClaim
    NoIP <- MCNoIP
INVARIANTS
    TypeOK
    ReturnsUsableAddresses
    UniquePeerIPs
    HeldAddressesAccounted
PROPERTY
    StaleAddressesReleased
