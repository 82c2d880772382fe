SPECIFICATION FairSpec
CONSTANTS
    Ids = {i1, i2}
    Sweepers = {s1}
    Clients = {}
    NoId = NoId
    TTLs = {1}
    TempMaxAge = 0
    MaxDeletes = 1
    LastWrite = 0
    MaxTime = 1
    MaxFaults = 1
    MaxCrashes = 1
INVARIANTS
    TypeOK
PROPERTIES
    EverythingIsReclaimed
