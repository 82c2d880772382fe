------------------------------- MODULE Service -------------------------------
(***************************************************************************)
(* POST and DELETE of chunks and GET /v1/stats: http_public/upload.go,       *)
(* routes.go and stats.go with what they call.  What other modules model in  *)
(* detail is one step here: Quota's Consume and Refund, the looks of          *)
(* Store.Meta.  A request reads its config once; a Reload may put another    *)
(* config and another store in service while it runs, and sweeps remove      *)
(* what has expired at any moment.                                           *)
(*                                                                          *)
(* A chunk goes by the name of the request that uploads it.  Times and TTLs  *)
(* are counted in ticks, of which a second has Second.                       *)
(***************************************************************************)
EXTENDS Auth, Sequences, FiniteSetsExt

CONSTANTS
    Requests,
    AsksOf,         \* AsksOf[r]: what request r may ask
    Configs,        \* the raw configs that come into service, in this order
    Disk,           \* free space of the storage volume at the start
    Second,         \* ticks in a second
    DurationLimit,  \* stands for 2^63, the end of a time.Duration
    statsTTL,       \* how long a walk of the store is reused
    MaxTick,        \* bound: the clock's last tick
    MaxFaults       \* bound: how many calls of the system may fail unlooked-for

\* Length and seconds are Content-Length, below 0 if there is none, and
\* X-Chunk-TTL; chunk is the one to delete.
Asks == [kind : {"upload", "delete", "stats"}, credentials : Credentials,
         caller : Caller, length : Int, seconds : Int, chunk : Requests]

ASSUME ServiceAssumption ==
    /\ Len(Configs) \in Nat
    /\ \A g \in 1..Len(Configs) : IsRawConfig(Configs[g]) /\ Parses(Configs[g])
    /\ \A r \in Requests : AsksOf[r] # {} /\ AsksOf[r] \subseteq Asks
    /\ Nobody \notin Requests
    /\ Disk \in Nat
    /\ Second \in Nat \ {0}
    /\ DurationLimit \in Nat \ {0}
    /\ statsTTL \in Nat
    /\ MaxTick \in Nat
    /\ MaxFaults \in Nat

VARIABLES
    clock,
    serving,        \* which config is in service; 0 before the first
    free,           \* free space of the storage volume
    stage,          \* how far a request is
    ask,            \* what it asks
    on,             \* on[r]: the config it read when it began
    answer,         \* its status, 0 until it has one
    keyID,          \* whom it is identified as
    ttl,            \* the lifetime an upload is granted
    file,           \* file[c]: which of a chunk's files exist
    size,           \* size[c]: bytes in its temp file or blob
    expires,        \* ExpiresAt in its sidecar, in seconds
    charged,        \* charged[k]: today's counter of key k
    unguarded,      \* uploads let in unmeasured, or in flight beside another
    asked,          \* asked[r]: the clock as a report read it
    told,           \* told[r]: the store whose figures it got
    walker,         \* who holds the usage cache's mutex
    walk,           \* the walk of the store under way
    cache,          \* the last walk's figures
    faults,         \* how many calls have failed
    misread,        \* fresh chunks whose sidecar a sweep could not read
    lost,           \* keys whose counter a failed call has emptied
    unrefunded      \* uploads whose refund failed and left the charge

askVars == <<stage, ask, on, answer, keyID>>
uploadVars == <<free, ttl, file, size, expires, charged, unguarded>>
reportVars == <<asked, told, walker, walk, cache>>
worldVars == <<clock, serving>>
mishapVars == <<faults, misread, lost, unrefunded>>
serviceVars == <<worldVars, askVars, uploadVars, reportVars, mishapVars>>

-----------------------------------------------------------------------------
Stores == 1..Len(Configs)

Parsed == [g \in Stores |-> applyDefaults(Configs[g])]

\* A chunk has nothing, a temp file, its sidecar beside the temp file, its
\* sidecar and its blob, its sidecar alone or its blob alone; then it has gone.
Files == {"none", "temp", "claimed", "stored", "husk", "orphan", "gone"}

HasBlob(f) == f \in {"stored", "orphan"}

HasSidecar(f) == f \in {"claimed", "stored", "husk"}

InFlight == {"charge", "body", "sidecar", "rename"}

Stages == InFlight \cup {"idle", "admit", "room", "refund", "blob", "meta",
                         "lock", "list", "stat", "expiry", "done"}

Statuses == {0, 200, 201, 204, 400, 401, 404, 411, 413, 429, 500, 503, 507}

\* A walk of the store: what was stored when it began, the chunks whose shard
\* is still to be read, the ids still to be looked at, the chunk whose blob has
\* been seen and whose sidecar has not, the chunks counted, as a whole and as
\* expired, and those of which something was there and could not be read.
NoWalk == [before |-> {}, listing |-> {}, ids |-> {}, chunk |-> {}, holds |-> {}, lapsed |-> {},
           unread |-> {}]

Unix(t) == t \div Second

IsExpired(c, t) == expires[c] <= Unix(t)

\* The chunks of the store that config g names, those to come included.
InStore(g) ==
    {c \in Requests : ask[c].kind = "upload" /\ on[c] > 0 /\ Configs[on[c]].dir = Configs[g].dir}

\* An upload that has left no file, or whose files have gone.
Over(c) == file[c] = "gone" \/ (stage[c] = "done" /\ file[c] = "none")

StoredIn(g) == {c \in InStore(g) : file[c] = "stored"}

ServiceInit ==
    /\ clock = 0
    /\ serving = 0
    /\ free = Disk
    /\ stage = [r \in Requests |-> "idle"]
    /\ ask = [r \in Requests |-> CHOOSE a \in AsksOf[r] : TRUE]
    /\ on = [r \in Requests |-> 0]
    /\ answer = [r \in Requests |-> 0]
    /\ keyID = [r \in Requests |-> Nobody]
    /\ ttl = [r \in Requests |-> 0]
    /\ file = [c \in Requests |-> "none"]
    /\ size = [c \in Requests |-> 0]
    /\ expires = [c \in Requests |-> 0]
    /\ charged = [k \in KeyIds |-> 0]
    /\ unguarded = {}
    /\ asked = [r \in Requests |-> 0]
    /\ told = [r \in Requests |-> 0]
    /\ walker = Nobody
    /\ walk = NoWalk
    /\ cache = [store |-> 0, at |-> 0, figures |-> NoWalk]
    /\ faults = 0
    /\ misread = {}
    /\ lost = {}
    /\ unrefunded = {}

Moves(r, here, next) == stage[r] = here /\ stage' = [stage EXCEPT ![r] = next]

\* A call of the operating system fails that nobody expects to.
Fails ==
    /\ faults < MaxFaults
    /\ faults' = faults + 1

\* The request is answered.
Answers(r, here, code) ==
    /\ Moves(r, here, "done")
    /\ answer' = [answer EXCEPT ![r] = code]

Asking(r) ==
    /\ Moves(r, "idle", "admit")
    /\ \E a \in AsksOf[r] : ask' = [ask EXCEPT ![r] = a]
    /\ UNCHANGED <<worldVars, on, answer, keyID, uploadVars, reportVars, mishapVars>>

\* requireInstalled refuses everything before the first config.
NotInstalled(r) ==
    /\ serving = 0
    /\ Answers(r, "admit", 503)
    /\ UNCHANGED <<worldVars, ask, on, keyID, uploadVars, reportVars, mishapVars>>

-----------------------------------------------------------------------------
(* POST /v1/chunks. *)

(* uploaderKeyID: without a credential, an open server takes it for anonymous. *)
uploaderKeyID(cfg, c) ==
    LET id == Identify(cfg, c) IN
    IF id = Nobody /\ cfg.upload.open /\ ~HasCredential(c) THEN AnonymousKeyID ELSE id

(* A Content-Length that is missing, as it is for a chunked body, is below 0. *)
Refusal(cfg, a) ==
    CASE uploaderKeyID(cfg, a.credentials) = Nobody -> 401
      [] uploaderKeyID(cfg, a.credentials) # Nobody /\ a.length < 0 -> 411
      [] uploaderKeyID(cfg, a.credentials) # Nobody /\ a.length > cfg.storage.maxChunkSize -> 413
      [] OTHER -> 0

(* handleUpload up to the first look at the volume: the config it has read    *)
(* decides alone.                                                            *)
AdmitUpload(r) ==
    LET cfg == Parsed[serving] IN
    /\ stage[r] = "admit"
    /\ serving > 0
    /\ ask[r].kind = "upload"
    /\ on' = [on EXCEPT ![r] = serving]
    /\ keyID' = [keyID EXCEPT ![r] = uploaderKeyID(cfg, ask[r].credentials)]
    /\ IF Refusal(cfg, ask[r]) = 0
       THEN Moves(r, "admit", "room") /\ UNCHANGED answer
       ELSE Answers(r, "admit", Refusal(cfg, ask[r]))
    /\ UNCHANGED <<worldVars, ask, uploadVars, reportVars, mishapVars>>

\* A bug to catch: the floor is measured before the body and not after it.
HasRoomNow(cfg, n, measured) ==
    cfg.storage.minFree <= 0 \/ ~measured \/ free >= cfg.storage.minFree

\* Free space that cannot be measured is room enough.
HasRoomFor(cfg, n, measured) ==
    cfg.storage.minFree <= 0 \/ ~measured \/ free - n >= cfg.storage.minFree

(* The room is looked for, and nothing is reserved of it.  Any measurement   *)
(* may fail, and on some platforms every one does.                          *)
Room(r) ==
    LET others == {q \in Requests : stage[q] \in InFlight}
        cfg == Parsed[on[r]] IN
    /\ stage[r] = "room"
    /\ \E measured \in BOOLEAN :
          /\ cfg.storage.minFree <= 0 => measured
          /\ IF HasRoomFor(cfg, ask[r].length, measured)
             THEN /\ Moves(r, "room", "charge")
                  /\ unguarded' = IF others = {} /\ measured THEN unguarded
                                  ELSE unguarded \cup others \cup {r}
                  /\ UNCHANGED answer
             ELSE Answers(r, "room", 507) /\ UNCHANGED unguarded
    /\ UNCHANGED <<worldVars, ask, on, keyID, free, ttl, file, size, expires, charged,
                   reportVars, mishapVars>>

(* requestedTTL: seconds become nanoseconds of a Duration, whose 64 bits they *)
(* may not fit.                                                              *)
requestedTTL(a) ==
    IF a.seconds <= 0 THEN 0
    ELSE ((a.seconds * Second + DurationLimit) % (2 * DurationLimit)) - DurationLimit

(* Consume: the declared length is charged before the body is read, and the   *)
(* body then goes to a temp file.  A limit of 0 keeps no count.              *)
Charge(r) ==
    LET cfg == Parsed[on[r]]
        limit == QuotaFor(cfg, keyID[r])
        n == ask[r].length IN
    /\ stage[r] = "charge"
    /\ IF limit > 0 /\ charged[keyID[r]] + n > limit
       THEN /\ Answers(r, "charge", 429)
            /\ UNCHANGED <<charged, ttl, file>>
       ELSE /\ Moves(r, "charge", "body")
            /\ IF limit > 0 THEN charged' = [charged EXCEPT ![keyID[r]] = @ + n]
                            ELSE UNCHANGED charged
            /\ ttl' = [ttl EXCEPT ![r] = ClampTTL(cfg, requestedTTL(ask[r]))]
            /\ file' = [file EXCEPT ![r] = "temp"]
            /\ UNCHANGED answer
    /\ UNCHANGED <<worldVars, ask, on, keyID, free, size, expires, unguarded, reportVars, mishapVars>>

\* The counter was truncated and not written: it reads as 0.
Empties(k) ==
    /\ charged' = [charged EXCEPT ![k] = 0]
    /\ lost' = lost \cup {k}

(* Consume returns false as well when the counter cannot be opened, locked,   *)
(* read or written.                                                          *)
ChargeFails(r) ==
    LET k == keyID[r]
        limit == QuotaFor(Parsed[on[r]], k) IN
    /\ Answers(r, "charge", 429)
    /\ limit > 0
    /\ Fails
    /\ \/ UNCHANGED <<charged, lost>>
       \/ charged[k] + ask[r].length <= limit /\ Empties(k)
    /\ UNCHANGED <<worldVars, ask, on, keyID, free, ttl, file, size, expires, unguarded,
                   reportVars, misread, unrefunded>>

\* copyBody writes what the client sends; a stalled client is waited for.
BodySlice(r) ==
    /\ stage[r] = "body"
    /\ size[r] < ask[r].length
    /\ free > 0
    /\ size' = [size EXCEPT ![r] = @ + 1]
    /\ free' = free - 1
    /\ UNCHANGED <<worldVars, askVars, ttl, file, expires, charged, unguarded, reportVars, mishapVars>>

BodyEnds(r) ==
    /\ size[r] = ask[r].length
    /\ ask[r].length > 0
    /\ Moves(r, "body", "sidecar")
    /\ UNCHANGED <<worldVars, ask, on, answer, keyID, uploadVars, reportVars, mishapVars>>

\* Ingest fails with a status: its deferred cleanup removes what it wrote.
IngestFails(r, here, code) ==
    /\ Moves(r, here, "refund")
    /\ answer' = [answer EXCEPT ![r] = code]
    /\ file' = [file EXCEPT ![r] = "gone"]
    /\ size' = [size EXCEPT ![r] = 0]
    /\ free' = free + size[r]
    /\ UNCHANGED <<worldVars, ask, on, keyID, ttl, expires, charged, unguarded, reportVars,
                   misread, lost, unrefunded>>

\* The client hangs up.
BodyFallsShort(r) ==
    /\ size[r] < ask[r].length
    /\ IngestFails(r, "body", 400)
    /\ UNCHANGED faults

EmptyBody(r) ==
    /\ ask[r].length = 0
    /\ IngestFails(r, "body", 400)
    /\ UNCHANGED faults

\* The volume is full.
BodyHasNoRoom(r) ==
    /\ free = 0
    /\ size[r] < ask[r].length
    /\ IngestFails(r, "body", 507)
    /\ UNCHANGED faults

\* A write, a close or the rename fails, as they may at any time.
StorageFails(r) ==
    /\ \E here \in {"body", "sidecar", "rename"} : IngestFails(r, here, 507)
    /\ Fails

WriteSidecar(r) ==
    /\ Moves(r, "sidecar", "rename")
    /\ expires' = [expires EXCEPT ![r] = Unix(clock + ttl[r])]
    /\ file' = [file EXCEPT ![r] = "claimed"]
    /\ UNCHANGED <<worldVars, ask, on, answer, keyID, free, ttl, size, charged, unguarded,
                   reportVars, mishapVars>>

Publish(r) ==
    /\ Answers(r, "rename", 201)
    /\ file' = [file EXCEPT ![r] = "stored"]
    /\ UNCHANGED <<worldVars, ask, on, keyID, free, ttl, size, expires, charged, unguarded,
                   reportVars, mishapVars>>

\* A bug to catch: the key of the config in service is refunded.
GivesBackNow(r) == serving > 0 /\ QuotaFor(Parsed[serving], keyID[r]) > 0

\* Refund, by the quota that the request began with.
GivesBack(r) == QuotaFor(Parsed[on[r]], keyID[r]) > 0

Refund(r) ==
    /\ Moves(r, "refund", "done")
    /\ charged' = IF GivesBack(r)
                  THEN [charged EXCEPT ![keyID[r]] = AtLeastZero(@ - ask[r].length)]
                  ELSE charged
    /\ UNCHANGED <<worldVars, ask, on, answer, keyID, free, ttl, file, size, expires, unguarded,
                   reportVars, mishapVars>>

(* A Refund that fails is a Refund that never was, or that emptied the        *)
(* counter; nobody is told.                                                  *)
RefundFails(r) ==
    /\ Moves(r, "refund", "done")
    /\ GivesBack(r) /\ ask[r].length > 0
    /\ Fails
    /\ \/ unrefunded' = unrefunded \cup {r} /\ UNCHANGED <<charged, lost>>
       \/ Empties(keyID[r]) /\ UNCHANGED unrefunded
    /\ UNCHANGED <<worldVars, ask, on, answer, keyID, free, ttl, file, size, expires,
                   unguarded, reportVars, misread>>

-----------------------------------------------------------------------------
(* DELETE /v1/chunks/{id}. *)

\* A bug to catch: any key may delete.
FoundByAnyKey(g, c, id) == c \in StoredIn(g) /\ ~IsExpired(c, clock)

\* Store.Meta knows the chunk, and the key is its owner's.
FoundByOwner(g, c, id) ==
    c \in StoredIn(g) /\ ~IsExpired(c, clock) /\ OwnsChunk(keyID[c], id)

AdmitDelete(r) ==
    LET id == Identify(Parsed[serving], ask[r].credentials) IN
    /\ stage[r] = "admit"
    /\ serving > 0
    /\ ask[r].kind = "delete"
    /\ on' = [on EXCEPT ![r] = serving]
    /\ keyID' = [keyID EXCEPT ![r] = id]
    /\ IF id = Nobody THEN Answers(r, "admit", 401)
       ELSE IF FoundByOwner(serving, ask[r].chunk, id)
            THEN Moves(r, "admit", "blob") /\ UNCHANGED answer
            ELSE Answers(r, "admit", 404)
    /\ UNCHANGED <<worldVars, ask, uploadVars, reportVars, mishapVars>>

(* Store.Meta cannot read the sidecar or stat the blob: the chunk is unknown. *)
MetaFails(r) ==
    LET id == Identify(Parsed[serving], ask[r].credentials) IN
    /\ Answers(r, "admit", 404)
    /\ serving > 0
    /\ ask[r].kind = "delete"
    /\ on' = [on EXCEPT ![r] = serving]
    /\ keyID' = [keyID EXCEPT ![r] = id]
    /\ id # Nobody
    /\ Fails
    /\ UNCHANGED <<worldVars, ask, uploadVars, reportVars, misread, lost, unrefunded>>

\* The blob goes, and its space with it.
BlobGoes(c) ==
    IF HasBlob(file[c])
    THEN /\ file' = [file EXCEPT ![c] = IF @ = "stored" THEN "husk" ELSE "gone"]
         /\ free' = free + size[c]
    ELSE UNCHANGED <<file, free>>

DeleteBlob(r) ==
    /\ Moves(r, "blob", "meta")
    /\ BlobGoes(ask[r].chunk)
    /\ UNCHANGED <<worldVars, ask, on, answer, keyID, ttl, size, expires, charged, unguarded,
                   reportVars, mishapVars>>

\* The blob cannot be removed, or its stat fails and it is not tried.
DeleteBlobFails(r) ==
    /\ Moves(r, "blob", "meta")
    /\ HasBlob(file[ask[r].chunk])
    /\ Fails
    /\ UNCHANGED <<worldVars, ask, on, answer, keyID, uploadVars, reportVars, misread, lost,
                   unrefunded>>

\* What a DELETE is answered that leaves a file: 500, unless it was a stat that
\* failed.
Left == {204, 500}

(* The sidecar goes whether the blob has gone or not.  A chunk that somebody  *)
(* else removed first is gone as well.                                       *)
DeleteMeta(r) ==
    LET c == ask[r].chunk IN
    /\ \E code \in IF HasBlob(file[c]) THEN Left ELSE {204} : Answers(r, "meta", code)
    /\ file' = [file EXCEPT ![c] = IF HasBlob(@) THEN "orphan" ELSE "gone"]
    /\ UNCHANGED <<worldVars, ask, on, keyID, free, ttl, size, expires, charged, unguarded,
                   reportVars, mishapVars>>

DeleteMetaFails(r) ==
    /\ \E code \in Left : Answers(r, "meta", code)
    /\ HasSidecar(file[ask[r].chunk])
    /\ Fails
    /\ UNCHANGED <<worldVars, ask, on, keyID, uploadVars, reportVars, misread, lost, unrefunded>>

-----------------------------------------------------------------------------
(* GET /v1/stats. *)

AdmitStats(r) ==
    LET id == Identify(Parsed[serving], ask[r].credentials) IN
    /\ stage[r] = "admit"
    /\ serving > 0
    /\ ask[r].kind = "stats"
    /\ on' = [on EXCEPT ![r] = serving]
    /\ keyID' = [keyID EXCEPT ![r] = id]
    /\ IF id = Nobody /\ ~IsLocalCaller(ask[r].caller)
       THEN Answers(r, "admit", 401) /\ UNCHANGED asked
       ELSE /\ Moves(r, "admit", "lock")
            /\ asked' = [asked EXCEPT ![r] = clock]
            /\ UNCHANGED answer
    /\ UNCHANGED <<worldVars, ask, uploadVars, told, walker, walk, cache, mishapVars>>

\* A bug to catch: the cache is used whatever store it describes.
StaleByAge(r) == cache.store = 0 \/ asked[r] - cache.at >= statsTTL

Stale(r) == cache.store # on[r] \/ asked[r] - cache.at >= statsTTL

(* usageCache.get takes the mutex and keeps it across a walk, if it needs one. *)
Get(r) ==
    /\ stage[r] = "lock"
    /\ walker = Nobody
    /\ IF Stale(r)
       THEN /\ Moves(r, "lock", "list")
            /\ walker' = r
            /\ walk' = [NoWalk EXCEPT !.before = StoredIn(on[r]),
                                      !.listing = {c \in InStore(on[r]) : ~Over(c)}]
            /\ UNCHANGED <<answer, told>>
       ELSE /\ Answers(r, "lock", 200)
            /\ told' = [told EXCEPT ![r] = cache.store]
            /\ UNCHANGED <<walker, walk>>
    /\ UNCHANGED <<worldVars, ask, on, keyID, uploadVars, asked, cache, mishapVars>>

(* AllIDs reads one shard after another and takes what has a sidecar.        *)
ListShard(r) ==
    /\ stage[r] = "list"
    /\ \E c \in walk.listing :
          walk' = [walk EXCEPT !.listing = @ \ {c},
                               !.ids = IF HasSidecar(file[c]) THEN @ \cup {c} ELSE @]
    /\ UNCHANGED <<worldVars, askVars, uploadVars, asked, told, walker, cache, mishapVars>>

\* A shard that cannot be read is passed over.
ListShardFails(r) ==
    /\ stage[r] = "list"
    /\ \E c \in walk.listing : walk' = [walk EXCEPT !.listing = @ \ {c}, !.unread = @ \cup {c}]
    /\ Fails
    /\ UNCHANGED <<worldVars, askVars, uploadVars, asked, told, walker, cache, misread, lost,
                   unrefunded>>

Listed(r) ==
    /\ Moves(r, "list", "stat")
    /\ walk.listing = {}
    /\ UNCHANGED <<worldVars, ask, on, answer, keyID, uploadVars, reportVars, mishapVars>>

\* Usage counts what has a blob.
IsCounted(c) == HasBlob(file[c])

StatBlob(r) ==
    /\ stage[r] = "stat"
    /\ \E c \in walk.ids :
          IF IsCounted(c)
          THEN /\ Moves(r, "stat", "expiry")
               /\ walk' = [walk EXCEPT !.ids = @ \ {c}, !.chunk = {c}, !.holds = @ \cup {c}]
          ELSE /\ walk' = [walk EXCEPT !.ids = @ \ {c}]
               /\ UNCHANGED stage
    /\ UNCHANGED <<worldVars, ask, on, answer, keyID, uploadVars, asked, told, walker, cache, mishapVars>>

\* A blob whose stat fails is not counted.
StatBlobFails(r) ==
    /\ stage[r] = "stat"
    /\ \E c \in walk.ids : walk' = [walk EXCEPT !.ids = @ \ {c}, !.unread = @ \cup {c}]
    /\ Fails
    /\ UNCHANGED <<worldVars, askVars, uploadVars, asked, told, walker, cache, misread, lost,
                   unrefunded>>

\* A sidecar that is expired, or no longer there to be read.
ReadExpiry(r) ==
    /\ Moves(r, "expiry", "stat")
    /\ walk' = [walk EXCEPT !.chunk = {},
                            !.lapsed = @ \cup {c \in walk.chunk : \/ ~HasSidecar(file[c])
                                                                 \/ IsExpired(c, asked[r])}]
    /\ UNCHANGED <<worldVars, ask, on, answer, keyID, uploadVars, asked, told, walker, cache,
                   mishapVars>>

\* A sidecar that cannot be read counts as expired.
ReadExpiryFails(r) ==
    /\ Moves(r, "expiry", "stat")
    /\ walk' = [walk EXCEPT !.chunk = {}, !.lapsed = @ \cup walk.chunk,
                            !.unread = @ \cup walk.chunk]
    /\ Fails
    /\ UNCHANGED <<worldVars, ask, on, answer, keyID, uploadVars, asked, told, walker, cache,
                   misread, lost, unrefunded>>

\* A bug to catch: the mutex is not given back.
ReportUnderLock(r) ==
    /\ Answers(r, "stat", 200)
    /\ walk.ids = {}
    /\ cache' = [store |-> on[r], at |-> asked[r], figures |-> walk]
    /\ told' = [told EXCEPT ![r] = on[r]]
    /\ walk' = NoWalk
    /\ UNCHANGED <<worldVars, ask, on, keyID, uploadVars, asked, walker, mishapVars>>

Report(r) ==
    /\ Answers(r, "stat", 200)
    /\ walk.ids = {}
    /\ cache' = [store |-> on[r], at |-> asked[r], figures |-> walk]
    /\ told' = [told EXCEPT ![r] = on[r]]
    /\ walker' = Nobody
    /\ walk' = NoWalk
    /\ UNCHANGED <<worldVars, ask, on, keyID, uploadVars, asked, mishapVars>>

-----------------------------------------------------------------------------
(* What goes on beside the requests. *)

\* The install page puts a config in service; it does so again if two installs
\* overlap, or if the config file was removed and the page used once more.
Reload ==
    /\ serving < Len(Configs)
    /\ serving' = serving + 1
    /\ UNCHANGED <<clock, askVars, uploadVars, reportVars, mishapVars>>

Ticks ==
    /\ clock < MaxTick
    /\ clock' = clock + 1
    /\ UNCHANGED <<serving, askVars, uploadVars, reportVars, mishapVars>>

\* A sweep, of this process or another, takes for expired what has expired and
\* what it cannot read.  (A chunk whose sidecar is swept before its blob is there
\* is ChunkStore's to model.)
Misreads(c) ==
    /\ file[c] \in {"stored", "husk"}
    /\ Fails
    /\ misread' = misread \cup {c}
    /\ UNCHANGED <<worldVars, askVars, uploadVars, reportVars, lost, unrefunded>>

Condemned(c) == IsExpired(c, clock) \/ c \in misread

SweepsBlob(c) ==
    /\ file[c] = "stored"
    /\ Condemned(c)
    /\ BlobGoes(c)
    /\ UNCHANGED <<worldVars, askVars, ttl, size, expires, charged, unguarded, reportVars,
                   mishapVars>>

SweepsMeta(c) ==
    /\ file[c] = "husk"
    /\ Condemned(c)
    /\ file' = [file EXCEPT ![c] = "gone"]
    /\ UNCHANGED <<worldVars, askVars, free, ttl, size, expires, charged, unguarded, reportVars,
                   mishapVars>>

\* The sidecar goes though the blob could not be removed.
SweepLeavesBlob(c) ==
    /\ file[c] = "stored"
    /\ Condemned(c)
    /\ file' = [file EXCEPT ![c] = "orphan"]
    /\ Fails
    /\ UNCHANGED <<worldVars, askVars, free, ttl, size, expires, charged, unguarded, reportVars,
                   misread, lost, unrefunded>>

-----------------------------------------------------------------------------
\* What a handler does by itself, once its client has sent what it has to.
ServerStep(r) ==
    \/ NotInstalled(r) \/ AdmitUpload(r) \/ Room(r) \/ Charge(r) \/ BodyEnds(r)
    \/ EmptyBody(r) \/ WriteSidecar(r) \/ Publish(r) \/ Refund(r)
    \/ AdmitDelete(r) \/ DeleteBlob(r) \/ DeleteMeta(r)
    \/ AdmitStats(r) \/ Get(r) \/ ListShard(r) \/ Listed(r) \/ StatBlob(r)
    \/ ReadExpiry(r) \/ Report(r)

\* A handler meets an I/O error that it treats as an answer.
Failure(r) ==
    \/ ChargeFails(r) \/ RefundFails(r)
    \/ MetaFails(r) \/ DeleteBlobFails(r) \/ DeleteMetaFails(r)
    \/ ListShardFails(r) \/ StatBlobFails(r) \/ ReadExpiryFails(r)

Sweep(c) == Misreads(c) \/ SweepsBlob(c) \/ SweepsMeta(c) \/ SweepLeavesBlob(c)

ServiceNext ==
    \/ \E r \in Requests : \/ ServerStep(r) \/ Failure(r)
                          \/ Asking(r) \/ BodySlice(r)
                          \/ BodyFallsShort(r) \/ BodyHasNoRoom(r) \/ StorageFails(r)
    \/ \E c \in Requests : Sweep(c)
    \/ Reload \/ Ticks

ServiceSpec == ServiceInit /\ [][ServiceNext]_serviceVars

(* Whenever a handler can go on, one does: that is enough, since each has an   *)
(* end.  A client owes nothing.                                              *)
ServiceFairness == WF_serviceVars(\E r \in Requests : ServerStep(r))

FairService == ServiceSpec /\ ServiceFairness

-----------------------------------------------------------------------------
(* Properties. *)

Walks == [before : SUBSET Requests, listing : SUBSET Requests, ids : SUBSET Requests,
          chunk : SUBSET Requests, holds : SUBSET Requests, lapsed : SUBSET Requests,
          unread : SUBSET Requests]

WorldTypes ==
    /\ clock \in Nat
    /\ serving \in 0..Len(Configs)

AskTypes ==
    /\ stage \in [Requests -> Stages]
    /\ ask \in [Requests -> Asks]
    /\ on \in [Requests -> 0..Len(Configs)]
    /\ answer \in [Requests -> Statuses]
    /\ keyID \in [Requests -> KeyIds \cup {Nobody}]

UploadTypes ==
    /\ free \in Nat
    /\ ttl \in [Requests -> Nat]
    /\ file \in [Requests -> Files]
    /\ size \in [Requests -> Nat]
    /\ expires \in [Requests -> Nat]
    /\ charged \in [KeyIds -> Nat]
    /\ unguarded \in SUBSET Requests

ReportTypes ==
    /\ asked \in [Requests -> Nat]
    /\ told \in [Requests -> 0..Len(Configs)]
    /\ walker \in Requests \cup {Nobody}
    /\ walk \in Walks
    /\ cache \in [store : 0..Len(Configs), at : Nat, figures : Walks]

MishapTypes ==
    /\ faults \in Nat
    /\ misread \in SUBSET Requests
    /\ lost \in SUBSET KeyIds
    /\ unrefunded \in SUBSET Requests

ServiceTypeOK == WorldTypes /\ AskTypes /\ UploadTypes /\ ReportTypes /\ MishapTypes

\* Who may act as key id under cfg, by what the config file says.
ActsAs(raw, c, id) ==
    IF id = AnonymousKeyID
    THEN raw.upload.open /\ PresentedSecret(c) = NoSecret
    ELSE /\ id \in DOMAIN raw.keys
         /\ raw.keys[id].secret = PresentedSecret(c)
         /\ PresentedSecret(c) # NoSecret
         /\ raw.keys[id].enabled # "no"

\* An upload that has been charged and not refunded.
Holding(r) ==
    /\ ask[r].kind = "upload"
    /\ \/ stage[r] \in {"body", "sidecar", "rename", "refund"}
       \/ answer[r] = 201
       \/ r \in unrefunded

\* What key k has been charged for, byte by byte.
BytesOf(r) == {r} \X (1..ask[r].length)

OwedBy(k) == UNION {BytesOf(r) : r \in {q \in Requests : Holding(q) /\ keyID[q] = k /\ GivesBack(q)}}

(* Whatever fails in the middle of an upload, and whatever config comes into  *)
(* service meanwhile, a key is never charged for more than the bytes that are *)
(* stored for it or still on their way, and those of uploads whose refund     *)
(* failed; and for no less, unless an I/O error has emptied its counter.      *)
(* (Across midnight it is not so: see Quota.)                                *)
ChargedIsStored ==
    \A k \in KeyIds :
        /\ charged[k] <= Cardinality(OwedBy(k))
        /\ k \notin lost => charged[k] = Cardinality(OwedBy(k))

(* The floor under the free space holds for an upload that had the volume to  *)
(* itself and could be measured: HasRoomFor is asked once, before the body,   *)
(* and still what is yet to be written leaves min_free_bytes.  Two that       *)
(* overlap may go below it, and one let in without a measurement.            *)
FloorHeldAlone ==
    \A r \in Requests \ unguarded :
        stage[r] \in InFlight /\ Parsed[on[r]].storage.minFree > 0
        => free - (ask[r].length - size[r]) >= Parsed[on[r]].storage.minFree

(* A chunk goes before its time only by a DELETE with the secret of an enabled *)
(* key of the chunk's owner id, or by a sweep that could not read its sidecar; *)
(* nobody can delete an anonymous upload.  The answers of Meta are a step old *)
(* by then, and another config may be in service.                            *)
OnlyOwnerDeletes ==
    [][\A c \in Requests : file[c] = "stored" /\ file'[c] # "stored" =>
          \/ IsExpired(c, clock)
          \/ c \in misread
          \/ \E r \in Requests :
                /\ stage[r] \in {"blob", "meta"} /\ ask[r].chunk = c
                /\ keyID[c] # AnonymousKeyID
                /\ ActsAs(Configs[on[r]], ask[r].credentials, keyID[c])
      ]_serviceVars

(* A 201 is given for a body of the declared length, within the ceiling and   *)
(* from somebody the config lets upload.  It lasts as long as was asked, up   *)
(* to max_ttl; a number of seconds that a Duration cannot hold gets some      *)
(* lifetime up to max_ttl.                                                   *)
StoredAsAsked ==
    \A r \in Requests : answer[r] = 201 =>
        LET raw == Configs[on[r]] IN
        LET cfg == Parsed[on[r]] IN
        /\ ActsAs(raw, ask[r].credentials, keyID[r])
        /\ size[r] = ask[r].length
        /\ size[r] \in 1..cfg.storage.maxChunkSize
        /\ ttl[r] \in 1..cfg.storage.maxTTL
        /\ 0 < ask[r].seconds /\ ask[r].seconds * Second < DurationLimit =>
              ttl[r] = Min({ask[r].seconds * Second, cfg.storage.maxTTL})

(* The figures of /v1/stats are those of a store's blobs: of the store that    *)
(* the request's config names, nothing that was never published, everything   *)
(* that was there before the walk and is there still, and as expired only     *)
(* what has expired or has lost its sidecar.  Uploads, DELETEs and sweeps run *)
(* all the while; of a chunk that is there and could not be read nothing is   *)
(* promised (store.go has it uncounted, or counted as expired).              *)
UsageIsReal ==
    /\ \A r \in Requests : ask[r].kind = "stats" /\ answer[r] = 200 => told[r] = on[r]
    /\ cache.store > 0 =>
          /\ \A c \in cache.figures.holds : answer[c] = 201 /\ c \in InStore(cache.store)
          /\ cache.figures.before \cap StoredIn(cache.store)
                \subseteq cache.figures.holds \cup cache.figures.unread
          /\ \A c \in cache.figures.lapsed :
                IsExpired(c, cache.at) \/ ~HasSidecar(file[c]) \/ c \in cache.figures.unread
          /\ \A c \in cache.figures.holds \ cache.figures.lapsed : ~IsExpired(c, cache.at)

(* Every request that is admitted is answered, and the mutex given back, in   *)
(* the end: one may hang for ever only if its client owes it a body, for      *)
(* which copyBody has no deadline, and none waits for another that does.      *)
EveryRequestEnds ==
    <>[]\A r \in Requests :
        \/ stage[r] \in {"idle", "done"}
        \/ stage[r] = "body" /\ size[r] < ask[r].length
=============================================================================
