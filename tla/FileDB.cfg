SPECIFICATION FairSpec
CONSTANTS
    t1 = t1
    t2 = t2
    t3 = t3
    v1 = v1
    Threads <- MCThreads
    Process <- MCProcess
    Calls <- MCCalls
    Values <- MCValues
    NoValue = NoValue
    Reading = Reading
    NoThread = NoThread
INVARIANTS
    TypeOK
    LostOnlyAcrossProcesses
PROPERTIES
    ReadsAreCurrent
    CallsReturn
