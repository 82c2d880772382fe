SPECIFICATION FairDownload
CONSTANTS
    r1 = r1
    r2 = r2
    Calls = {r1, r2}
    Figures = {"downloads", "notFound", "clients"}
    Batches <- Recorded
    windowHours = 2
    MaxHour = 2
    Size = 3
    downloadSlice = 2
    HeadersOf <- AnyHeader
    Ignored = Ignored
    Garbled = Garbled
    None = None
    Huge = Huge
INVARIANTS
    TypeOK
    NothingOld
    NothingMissed
    BodyIsAsked
    NothingUncounted
PROPERTIES
    EveryDownloadEnds
CHECK_DEADLOCK FALSE
