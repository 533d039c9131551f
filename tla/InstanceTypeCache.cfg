SPECIFICATION FairSpec
CONSTANTS
    k1 = k1
    k2 = k2
    c1 = c1
    Keys = {k1, k2}
    Callers = {c1}
    Refresher = refresher
    CacheSize = 1
    Presets = {"gpu"}
    Preemptible = {"gpu"}
    Listing <- MCListing
    HourlyCost <- MCHourlyCost
    DefaultPrice = 9
    Requirements <- MCRequirements
    None = None
    Faults = {"list", "price", "stop"}
INVARIANTS
    TypeOK
    CachedKeysTracked
    LaunchesCheapest
PROPERTY
    CacheBecomesCurrent
