SPECIFICATION Spec
CONSTANTS
    Ids = {i1}
    Sweepers = {s1, s2}
    Clients = {c1}
    NoId = NoId
    TTLs = {1, 2}
    TempMaxAge = 0
    MaxDeletes = 1
    LastWrite = 1
    MaxTime = 3
    MaxFaults = 1
    MaxCrashes = 1
SYMMETRY Symmetry
INVARIANTS
    PublishedIsKept
    NoOrphanBlob
    DeletedIsGone
    ReclaimedOnce
PROPERTIES
    ImplementsCache
