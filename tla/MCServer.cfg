SPECIFICATION Spec
CONSTANTS
    r1 = r1
    r2 = r2
    r3 = r3
    s1 = s1
    s2 = s2
    s3 = s3
    Requests = {r1, r2, r3}
    LastKeyId = 2
    AnonymousKeyID = 0
    Secrets = {s1, s2, s3}
    NoSecret = NoSecret
    Malformed = Malformed
    Nobody = Nobody
    FallbackChunkSize = 2
    FallbackTTL = 2
    FallbackMaxTTL = 3
    AsksOf <- TheAsks
    Configs <- TheConfigs
    Disk = 2
    Second = 1
    DurationLimit = 8
    statsTTL = 1
    MaxTick = 1
    MaxFaults = 1
    Paths = {"default", "other"}
    DefaultPath = "default"
    Texts = {"t1", "t2"}
    Settings = {"s1", "s2"}
    Absent = Absent
    Unreadable = Unreadable
    Flags = {Absent, "other"}
    Shells <- TheShells
    DotEnvs <- TheDotEnvs
    MaxEdits = 2
    Targets = {"ipify", "icanhazip"}
    Public4 = {"pub", "pub2"}
    Public6 = {"v6"}
    Private = {"lan"}
    LinkLocal = {"ll"}
    Loopback = {"lo"}
    Unspecified = {"any"}
    NoAddr = "none"
    Says <- Echoes
    HostAddrs <- TheHosts
    Listens <- TheListens
    Typing <- Pieces
    MaxPieces = 5
    maxLength = 11
    maxSecret = 2
    maxKeyID = 9
    Typed <- TheTyped
    FormDefaults <- TheDefaults
    MaxTyped = 2
    maxGigabytes = 1000000
    maxHours = 8760
    maxPublicBaseURL = 4
    RewrittenNames <- TheNames
    NaNAsBytes <- TheNaN
INVARIANTS
    TypeOK
    ChargedIsStored
    FloorHeldAlone
    StoredAsAsked
    UsageIsReal
    InstalledIsServed
    AddressAnswers
    LinkSurvives
    SecretIsRedacted
    FormLoadsBack
PROPERTIES
    OnlyOwnerDeletes
    EveryRequestEnds
    NoFetchIsStuck
CHECK_DEADLOCK FALSE
