SPECIFICATION Spec
CONSTANTS
    Ids = {i1}
    Sweepers = {s1}
    Clients = {c1}
    NoId = NoId
    TTLs = {1, 2}
    TempMaxAge = 0
    MaxDeletes = 1
    LastWrite = 1
    MaxTime = 3
    MaxFaults = 0
    MaxCrashes = 0
INVARIANTS
    SidecarFirstSuffices
