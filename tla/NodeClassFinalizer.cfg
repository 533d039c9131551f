SPECIFICATION FairSpec
CONSTANTS
    c1 = c1
    c2 = c2
    Claims <- MCClaims
PROPERTY
    ClassOutlivesClaims
CHECK_DEADLOCK FALSE
