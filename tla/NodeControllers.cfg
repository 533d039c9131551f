SPECIFICATION FairSpec
CONSTANTS
    n1 = n1
    n2 = n2
    Names <- MCNames
    Unlabelled <- MCUnlabelled
    MaxErrors = 1
INVARIANTS
    TypeOK
    IDsComeFromClaims
PROPERTIES
    TerminationCompletes
    NodeGetsProviderID
CHECK_DEADLOCK FALSE
