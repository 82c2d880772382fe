---------------------------- MODULE ServiceProofs ----------------------------
(***************************************************************************)
(* Proofs about Service, for any requests, configs, keys and volume, any TTLs *)
(* and times: the floor under the free space, what a 201 means, and who can   *)
(* delete.                                                                  *)
(***************************************************************************)
EXTENDS Service, FiniteSetTheorems, WellFoundedInduction, TLAPS

\* What an upload that was not refused has shown.
Accepted(r) ==
    /\ ask[r].kind = "upload"
    /\ on[r] \in Stores
    /\ ask[r].length \in 0..Parsed[on[r]].storage.maxChunkSize
    /\ keyID[r] \in KeyIds
    /\ ActsAs(Configs[on[r]], ask[r].credentials, keyID[r])

\* What a request has shown by its stage.
AdmittedOK(r) ==
    /\ stage[r] \in InFlight \cup {"room", "refund"} \/ answer[r] = 201 => Accepted(r)
    /\ stage[r] \in {"blob", "meta"} =>
          /\ on[r] \in Stores
          /\ keyID[r] \in KeyIds \ {AnonymousKeyID}
          /\ ActsAs(Configs[on[r]], ask[r].credentials, keyID[r])
    /\ stage[r] \in {"lock", "list", "stat", "expiry"} => on[r] \in Stores
    /\ answer[r] = 201 => stage[r] = "done"

Admitted == \A r \in Requests : AdmittedOK(r)

\* The lifetime of an upload is one it may have.
Granted(c) ==
    LET most == Parsed[on[c]].storage.maxTTL IN
    /\ ttl[c] \in 1..most
    /\ 0 < ask[c].seconds /\ ask[c].seconds * Second < DurationLimit =>
          ttl[c] = Min({ask[c].seconds * Second, most})

\* What a request has on disk, by its stage.
FiledOK(c) ==
    /\ stage[c] \notin {"body", "sidecar", "rename", "refund", "done"} =>
          file[c] = "none" /\ size[c] = 0
    /\ stage[c] \in {"body", "sidecar"} => file[c] = "temp"
    /\ stage[c] = "rename" => file[c] = "claimed"
    /\ stage[c] = "refund" => file[c] = "gone"
    /\ stage[c] = "body" => size[c] <= ask[c].length
    /\ stage[c] \in {"sidecar", "rename"} \/ answer[c] = 201 =>
          size[c] = ask[c].length /\ size[c] > 0
    /\ stage[c] \in {"body", "sidecar", "rename"} \/ answer[c] = 201 => Granted(c)
    /\ answer[c] = 201 => file[c] \in {"stored", "husk", "orphan", "gone"}
    /\ file[c] \in {"stored", "husk", "orphan"} => answer[c] = 201

Filed == \A c \in Requests : FiledOK(c)

\* A DELETE is past Meta with its own chunk only.
DeletesOwn ==
    \A r \in Requests :
        stage[r] \in {"blob", "meta"} =>
            answer[ask[r].chunk] = 201 /\ keyID[ask[r].chunk] = keyID[r]

\* Two uploads in flight have met.
Meet ==
    \A q, r \in Requests :
        q # r /\ stage[q] \in InFlight /\ stage[r] \in InFlight => q \in unguarded

\* What all the results below rest on.
ServiceInv == Filed /\ DeletesOwn /\ Meet /\ FloorHeldAlone

-----------------------------------------------------------------------------
(* What the configs and the requests come to. *)

\* What Parse makes of a config of which it does not complain.
LEMMA ParsedTypes ==
    ASSUME NEW g \in Stores
    PROVE  /\ Parsed[g].storage.maxChunkSize \in Nat \ {0}
           /\ Parsed[g].storage.minFree \in Nat
           /\ Parsed[g].storage.maxTTL \in Nat \ {0}
           /\ Parsed[g].storage.defaultTTL \in 1..Parsed[g].storage.maxTTL
           /\ Parsed[g].upload.openQuota \in Nat
           /\ Parsed[g].upload.open = Configs[g].upload.open
<1> USE ConfigAssumption, ServiceAssumption
<1> DEFINE raw == Configs[g]
<1>1. IsRawConfig(raw) /\ Parses(raw)
  BY DEF Stores
<1>2. Parsed[g] = applyDefaults(raw)
  BY DEF Parsed
<1>3. /\ raw.storage \in StorageConfig
      /\ raw.upload \in UploadConfig
      /\ applyDefaults(raw).storage.defaultTTL <= applyDefaults(raw).storage.maxTTL
  BY <1>1 DEF IsRawConfig, Parses, validate
<1>4. /\ applyDefaults(raw).storage.maxChunkSize = OrFallback(raw.storage.maxChunkSize, FallbackChunkSize)
      /\ applyDefaults(raw).storage.minFree = AtLeastZero(raw.storage.minFree)
      /\ applyDefaults(raw).storage.defaultTTL = OrFallback(raw.storage.defaultTTL, FallbackTTL)
      /\ applyDefaults(raw).storage.maxTTL = OrFallback(raw.storage.maxTTL, FallbackMaxTTL)
      /\ applyDefaults(raw).upload.openQuota = AtLeastZero(raw.upload.openQuota)
      /\ applyDefaults(raw).upload.open = raw.upload.open
  BY DEF applyDefaults
<1>5. /\ OrFallback(raw.storage.maxChunkSize, FallbackChunkSize) \in Nat \ {0}
      /\ AtLeastZero(raw.storage.minFree) \in Nat
      /\ OrFallback(raw.storage.defaultTTL, FallbackTTL) \in Nat \ {0}
      /\ OrFallback(raw.storage.maxTTL, FallbackMaxTTL) \in Nat \ {0}
      /\ AtLeastZero(raw.upload.openQuota) \in Nat
  BY <1>3 DEF OrFallback, AtLeastZero, StorageConfig, UploadConfig
<1> HIDE DEF raw
<1>6. applyDefaults(raw).storage.defaultTTL \in 1..applyDefaults(raw).storage.maxTTL
  BY <1>3, <1>4, <1>5
<1> QED
  BY <1>2, <1>4, <1>5, <1>6 DEF raw

\* A key that is loaded is one that the file gives, with a secret and another
\* id than anonymous.
LEMMA ParsedKeys ==
    ASSUME NEW g \in Stores, NEW id \in DOMAIN Parsed[g].keys
    PROVE  /\ id \in KeyIds /\ id # AnonymousKeyID
           /\ id \in DOMAIN Configs[g].keys
           /\ Parsed[g].keys[id].secret = Configs[g].keys[id].secret
           /\ Parsed[g].keys[id].secret # NoSecret
           /\ Parsed[g].keys[id].enabled = (Configs[g].keys[id].enabled # "no")
           /\ Parsed[g].keys[id].quota \in Nat
<1> DEFINE keys == Configs[g].keys
<1>1. /\ DOMAIN keys \subseteq KeyIds
      /\ keys \in [DOMAIN keys -> RawAPIKey]
  BY ServiceAssumption DEF Stores, IsRawConfig
<1>2. Parsed[g].keys = normaliseKeys(keys)
  BY DEF Parsed, applyDefaults
<1> HIDE DEF keys
<1>3. id \in {i \in DOMAIN keys : i # AnonymousKeyID /\ keys[i].secret # NoSecret}
  BY <1>2 DEF normaliseKeys
<1>4. normaliseKeys(keys)[id] =
        [secret |-> keys[id].secret, quota |-> AtLeastZero(keys[id].quota),
         enabled |-> keys[id].enabled # "no"]
  BY <1>3 DEF normaliseKeys
<1>5. keys[id].quota \in Int
  BY <1>1, <1>3 DEF RawAPIKey
<1>6. AtLeastZero(keys[id].quota) \in Nat
  BY <1>5 DEF AtLeastZero
<1> QED
  BY <1>1, <1>2, <1>3, <1>4, <1>6 DEF keys

LEMMA QuotaTypes ==
    ASSUME NEW g \in Stores, NEW id
    PROVE  QuotaFor(Parsed[g], id) \in Nat
BY ParsedTypes, ParsedKeys DEF QuotaFor

\* Of some key ids one is the last in their order.
LEMMA LastId ==
    ASSUME NEW ids \in SUBSET KeyIds, ids # {}
    PROVE  \E id \in ids : \A other \in ids : other <= id
<1> USE ConfigAssumption DEF KeyIds
<1> DEFINE places == {LastKeyId - id : id \in ids}
           less == OpToRel(<, Nat)
<1>1. places \subseteq Nat /\ places # {}
  <2>1. PICK id \in ids : TRUE
    OBVIOUS
  <2>2. LastKeyId - id \in places
    BY <2>1
  <2>3. places \subseteq Nat
    OBVIOUS
  <2> QED
    BY <2>2, <2>3
<1>2. IsWellFoundedOn(less, Nat)
  BY NatLessThanWellFounded
<1>3. \A p, q \in Nat : q < p => <<q, p>> \in less
  BY DEF OpToRel
<1> HIDE DEF places, less
<1>4. PICK p \in places : \A q \in places : ~ (<<q, p>> \in less)
  BY <1>1, <1>2, WFMin
<1>5. ASSUME NEW q \in places PROVE p <= q
  <2>1. p \in Nat /\ q \in Nat
    BY <1>1
  <2>2. ~ (q < p)
    BY <1>3, <1>4, <2>1
  <2> QED
    BY <2>1, <2>2
<1>6. PICK id \in ids : p = LastKeyId - id
  BY DEF places
<1>7. \A other \in ids : p <= LastKeyId - other
  BY <1>5 DEF places
<1> QED
  BY <1>6, <1>7

\* Whoever Identify names has presented the secret of an enabled key.
LEMMA IdentifiedActs ==
    ASSUME NEW g \in Stores, NEW c, Identify(Parsed[g], c) # Nobody
    PROVE  /\ Identify(Parsed[g], c) \in KeyIds \ {AnonymousKeyID}
           /\ ActsAs(Configs[g], c, Identify(Parsed[g], c))
<1> DEFINE ids == Matched(Parsed[g], PresentedSecret(c))
           id == Identify(Parsed[g], c)
<1>1. ids \subseteq DOMAIN Parsed[g].keys
  BY DEF Matched
<1>2. ids \subseteq KeyIds
  BY <1>1, ParsedKeys
<1>3. ids # {} /\ id = CHOOSE i \in ids : \A other \in ids : other <= i
  BY DEF Identify
<1>4. id \in ids
  <2> HIDE DEF ids, id
  <2> QED
    BY <1>2, <1>3, LastId
<1>5. /\ id \in DOMAIN Parsed[g].keys
      /\ Parsed[g].keys[id].secret = PresentedSecret(c)
      /\ Parsed[g].keys[id].enabled
  BY <1>4 DEF Matched
<1> HIDE DEF id, ids
<1>6. id \in KeyIds \ {AnonymousKeyID} /\ ActsAs(Configs[g], c, id)
  BY <1>5, ParsedKeys DEF ActsAs
<1> QED
  BY <1>6 DEF id

LEMMA UploaderActs ==
    ASSUME NEW g \in Stores, NEW c, uploaderKeyID(Parsed[g], c) # Nobody
    PROVE  /\ uploaderKeyID(Parsed[g], c) \in KeyIds
           /\ ActsAs(Configs[g], c, uploaderKeyID(Parsed[g], c))
<1> DEFINE id == Identify(Parsed[g], c)
<1>1. CASE id # Nobody
  BY <1>1, IdentifiedActs DEF uploaderKeyID
<1>2. CASE id = Nobody
  <2>1. Parsed[g].upload.open /\ ~HasCredential(c) /\ uploaderKeyID(Parsed[g], c) = AnonymousKeyID
    BY <1>2 DEF uploaderKeyID
  <2> QED
    BY <2>1, ParsedTypes, ConfigAssumption DEF ActsAs, HasCredential
<1> QED
  BY <1>1, <1>2

LEMMA IdentifyTypes ==
    ASSUME NEW g \in Stores, NEW c
    PROVE  /\ Identify(Parsed[g], c) \in KeyIds \cup {Nobody}
           /\ uploaderKeyID(Parsed[g], c) \in KeyIds \cup {Nobody}
BY IdentifiedActs, UploaderActs

\* An upload is refused, or the key and the length are such as the config lets pass.
LEMMA RefusalTypes ==
    ASSUME NEW g \in Stores, NEW a \in Asks
    PROVE  /\ Refusal(Parsed[g], a) \in {0, 401, 411, 413}
           /\ Refusal(Parsed[g], a) = 0 =>
                /\ uploaderKeyID(Parsed[g], a.credentials) # Nobody
                /\ a.length \in 0..Parsed[g].storage.maxChunkSize
<1> DEFINE id == uploaderKeyID(Parsed[g], a.credentials)
           most == Parsed[g].storage.maxChunkSize
<1>1. a.length \in Int /\ most \in Nat
  BY ParsedTypes DEF Asks
<1> HIDE DEF id, most
<1>2. CASE id = Nobody
  <2>1. Refusal(Parsed[g], a) = 401
    BY <1>2, Zenon DEF Refusal, id
  <2> QED
    BY <2>1
<1>3. CASE id # Nobody /\ a.length < 0
  <2>1. ~ (a.length > most)
    BY <1>1, <1>3
  <2>2. Refusal(Parsed[g], a) = 411
    BY <1>3, <2>1, Zenon DEF Refusal, id, most
  <2> QED
    BY <2>2
<1>4. CASE id # Nobody /\ ~ (a.length < 0) /\ a.length > most
  <2>1. Refusal(Parsed[g], a) = 413
    BY <1>4, Zenon DEF Refusal, id, most
  <2> QED
    BY <2>1
<1>5. CASE id # Nobody /\ ~ (a.length < 0) /\ ~ (a.length > most)
  <2>1. Refusal(Parsed[g], a) = 0
    BY <1>5, Zenon DEF Refusal, id, most
  <2>2. a.length \in 0..most
    BY <1>1, <1>5
  <2> QED
    BY <1>5, <2>1, <2>2 DEF id, most
<1> QED
  BY <1>2, <1>3, <1>4, <1>5

\* The lifetime that is granted is one of at most max_ttl, and the one that was
\* asked for if that is less and a Duration holds it.
LEMMA GrantedTTL ==
    ASSUME NEW g \in Stores, NEW a \in Asks
    PROVE  /\ ClampTTL(Parsed[g], requestedTTL(a)) \in 1..Parsed[g].storage.maxTTL
           /\ 0 < a.seconds /\ a.seconds * Second < DurationLimit =>
                ClampTTL(Parsed[g], requestedTTL(a)) =
                    Min({a.seconds * Second, Parsed[g].storage.maxTTL})
<1> DEFINE most == Parsed[g].storage.maxTTL
           x == a.seconds * Second
           D == DurationLimit
           asks == requestedTTL(a)
<1>1. /\ most \in Nat \ {0}
      /\ Parsed[g].storage.defaultTTL \in 1..most
      /\ a.seconds \in Int
      /\ D \in Nat \ {0}
      /\ Second \in Nat \ {0}
  BY ParsedTypes, ServiceAssumption DEF Asks
<1>2. x \in Int /\ (0 < a.seconds => 0 < x)
  BY <1>1
<1> HIDE DEF x, D
<1>3. ((x + D) % (2 * D)) \in Int
  BY <1>1, <1>2
<1>4. asks \in Int
  BY <1>1, <1>3 DEF requestedTTL, x, D
<1>5. 0 < a.seconds /\ x < D => asks = x
  <2> SUFFICES ASSUME 0 < a.seconds, x < D PROVE asks = x
    OBVIOUS
  <2>1. ((x + D) % (2 * D)) = x + D
    BY <1>1, <1>2
  <2>2. asks = ((x + D) % (2 * D)) - D
    BY <1>1 DEF requestedTTL, x, D
  <2> QED
    BY <1>1, <1>2, <2>1, <2>2
<1> HIDE DEF asks, most
<1>6. ClampTTL(Parsed[g], asks) = IF asks <= 0 THEN Parsed[g].storage.defaultTTL
                                  ELSE IF asks > most THEN most ELSE asks
  BY DEF ClampTTL, most
<1>7. ClampTTL(Parsed[g], asks) \in 1..most
  BY <1>1, <1>4, <1>6
<1>8. 0 < a.seconds /\ x < D => ClampTTL(Parsed[g], asks) = Min({x, most})
  <2> SUFFICES ASSUME 0 < a.seconds, x < D PROVE ClampTTL(Parsed[g], asks) = Min({x, most})
    OBVIOUS
  <2>1. ClampTTL(Parsed[g], asks) = IF x > most THEN most ELSE x
    BY <1>2, <1>5, <1>6, <1>1
  <2>2. \A m \in {x, most} : m = Min({x, most}) <=> m <= x /\ m <= most
    BY <1>1, <1>2 DEF Min
  <2> QED
    BY <1>1, <1>2, <2>1, <2>2
<1> QED
  BY <1>7, <1>8 DEF x, D, asks, most

-----------------------------------------------------------------------------
(* Types. *)

\* Whole seconds of a time are a time.
LEMMA UnixTypes == ASSUME NEW t \in Nat PROVE Unix(t) \in Nat
BY ServiceAssumption DEF Unix

LEMMA Names ==
    /\ "idle" \in Stages /\ "admit" \in Stages /\ "room" \in Stages /\ "charge" \in Stages
    /\ "body" \in Stages /\ "sidecar" \in Stages /\ "rename" \in Stages
    /\ "refund" \in Stages /\ "blob" \in Stages /\ "meta" \in Stages /\ "lock" \in Stages
    /\ "list" \in Stages /\ "stat" \in Stages /\ "expiry" \in Stages /\ "done" \in Stages
    /\ 0 \in Statuses /\ 200 \in Statuses /\ 201 \in Statuses /\ 204 \in Statuses
    /\ 400 \in Statuses /\ 401 \in Statuses /\ 404 \in Statuses /\ 411 \in Statuses
    /\ 413 \in Statuses /\ 429 \in Statuses /\ 500 \in Statuses /\ 503 \in Statuses
    /\ 507 \in Statuses
    /\ "none" \in Files /\ "temp" \in Files /\ "claimed" \in Files /\ "stored" \in Files
    /\ "husk" \in Files /\ "orphan" \in Files /\ "gone" \in Files
BY DEF Stages, InFlight, Statuses, Files

LEMMA MovesTypes ==
    ASSUME AskTypes, NEW r \in Requests, NEW here, NEW next \in Stages, Moves(r, here, next)
    PROVE  stage' \in [Requests -> Stages]
BY DEF Moves, AskTypes

LEMMA AnswersTypes ==
    ASSUME AskTypes, NEW r \in Requests, NEW here, NEW code \in Statuses,
           Answers(r, here, code)
    PROVE  stage' \in [Requests -> Stages] /\ answer' \in [Requests -> Statuses]
BY MovesTypes, Names DEF Answers, AskTypes

\* A step of one request leaves the others where they are.
LEMMA MovesOnly ==
    ASSUME AskTypes, NEW r \in Requests, NEW here, NEW next, Moves(r, here, next)
    PROVE  /\ stage[r] = here
           /\ stage'[r] = next
           /\ \A q \in Requests \ {r} : stage'[q] = stage[q]
BY DEF Moves, AskTypes

LEMMA AnswersOnly ==
    ASSUME AskTypes, NEW r \in Requests, NEW here, NEW code, Answers(r, here, code)
    PROVE  /\ stage[r] = here
           /\ stage'[r] = "done"
           /\ answer'[r] = code
           /\ \A q \in Requests \ {r} : stage'[q] = stage[q] /\ answer'[q] = answer[q]
BY MovesOnly DEF Answers, AskTypes

\* So what the others have shown is as it was.
LEMMA AdmittedByOne ==
    ASSUME Admitted, NEW r \in Requests, AdmittedOK(r)',
           \A q \in Requests \ {r} :
              /\ stage'[q] = stage[q] /\ answer'[q] = answer[q] /\ ask'[q] = ask[q]
              /\ on'[q] = on[q] /\ keyID'[q] = keyID[q]
    PROVE  Admitted'
BY DEF Admitted, AdmittedOK, Accepted

\* What has gone wrong is counted, by request and by key.
LEMMA MishapsTyped ==
    ASSUME AskTypes, MishapTypes, Admitted, [ServiceNext]_serviceVars
    PROVE  MishapTypes'
<1> USE DEF MishapTypes, mishapVars, Fails
<1>1. ASSUME NEW r \in Requests, keyID[r] \in KeyIds, ChargeFails(r) \/ RefundFails(r)
      PROVE  MishapTypes'
  BY <1>1 DEF ChargeFails, RefundFails, Empties
<1>2. ASSUME NEW r \in Requests, ChargeFails(r) \/ RefundFails(r) PROVE keyID[r] \in KeyIds
  <2>1. stage[r] \in {"charge", "refund"}
    BY <1>2, MovesOnly, AnswersOnly DEF ChargeFails, RefundFails
  <2> QED
    BY <2>1 DEF Admitted, AdmittedOK, Accepted, InFlight
<1>3. ASSUME NEW r \in Requests,
             \/ MetaFails(r) \/ DeleteBlobFails(r) \/ DeleteMetaFails(r)
             \/ ListShardFails(r) \/ StatBlobFails(r) \/ ReadExpiryFails(r)
      PROVE  MishapTypes'
  <2>1. UNCHANGED <<misread, lost, unrefunded>> /\ faults' = faults + 1
    BY <1>3, Zenon DEF MetaFails, DeleteBlobFails, DeleteMetaFails, ListShardFails,
                       StatBlobFails, ReadExpiryFails
  <2> QED
    BY <2>1
<1>4. ASSUME NEW r \in Requests,
             EmptyBody(r) \/ BodyFallsShort(r) \/ BodyHasNoRoom(r) \/ StorageFails(r)
      PROVE  MishapTypes'
  BY <1>4 DEF EmptyBody, BodyFallsShort, BodyHasNoRoom, StorageFails, IngestFails
<1>5. ASSUME NEW c \in Requests, Sweep(c) PROVE MishapTypes'
  BY <1>5 DEF Sweep, Misreads, SweepsBlob, SweepsMeta, SweepLeavesBlob
<1>6. ASSUME NEW r \in Requests,
             \/ NotInstalled(r) \/ AdmitUpload(r) \/ Room(r) \/ Charge(r) \/ BodyEnds(r)
             \/ WriteSidecar(r) \/ Publish(r) \/ Refund(r)
             \/ AdmitDelete(r) \/ DeleteBlob(r) \/ DeleteMeta(r)
             \/ AdmitStats(r) \/ Get(r) \/ ListShard(r) \/ Listed(r) \/ StatBlob(r)
             \/ ReadExpiry(r) \/ Report(r) \/ Asking(r) \/ BodySlice(r)
      PROVE  MishapTypes'
  <2>1. UNCHANGED mishapVars
    BY <1>6, Zenon
       DEF NotInstalled, AdmitUpload, Room, Charge, BodyEnds, WriteSidecar, Publish, Refund,
           AdmitDelete, DeleteBlob, DeleteMeta, AdmitStats, Get, ListShard, Listed, StatBlob,
           ReadExpiry, Report, Asking, BodySlice
  <2> QED
    BY <2>1
<1>7. CASE Reload \/ Ticks \/ UNCHANGED serviceVars
  BY <1>7 DEF Reload, Ticks, serviceVars
<1> QED
  BY <1>1, <1>2, <1>3, <1>4, <1>5, <1>6, <1>7 DEF ServiceNext, ServerStep, Failure

(* Every variable keeps its type, and a request is past admission only with    *)
(* what the config it read asks for.                                         *)
THEOREM ServiceTypeCorrect == ServiceSpec => [](ServiceTypeOK /\ Admitted)
<1>1. ServiceInit => ServiceTypeOK /\ Admitted
  BY ConfigAssumption, AuthAssumption, ServiceAssumption
     DEF ServiceInit, ServiceTypeOK, WorldTypes, AskTypes, UploadTypes, ReportTypes,
         MishapTypes, Admitted, AdmittedOK, Stages, InFlight, Files, Walks, NoWalk, KeyIds, Statuses
<1>2. ServiceTypeOK /\ Admitted /\ [ServiceNext]_serviceVars => ServiceTypeOK' /\ Admitted'
  <2> SUFFICES ASSUME WorldTypes, AskTypes, UploadTypes, ReportTypes, MishapTypes, Admitted,
                      [ServiceNext]_serviceVars
               PROVE  WorldTypes' /\ AskTypes' /\ UploadTypes' /\ ReportTypes' /\ Admitted'
    BY MishapsTyped DEF ServiceTypeOK
  <2> USE DEF worldVars, askVars, uploadVars, reportVars
  <2>1. ASSUME NEW r \in Requests, Asking(r)
       PROVE  WorldTypes' /\ AskTypes' /\ UploadTypes' /\ ReportTypes' /\ Admitted'
    <3>1. AskTypes'
      BY <2>1, MovesTypes, Names, ServiceAssumption DEF Asking, AskTypes
    <3>2. WorldTypes' /\ UploadTypes' /\ ReportTypes'
      BY <2>1 DEF Asking, WorldTypes, UploadTypes, ReportTypes
    <3>3. Admitted'
      BY <2>1 DEF Asking, Admitted, AdmittedOK, Accepted, InFlight, Moves, Answers
    <3> QED
      BY <3>1, <3>2, <3>3
  <2>2. ASSUME NEW r \in Requests, NotInstalled(r)
       PROVE  WorldTypes' /\ AskTypes' /\ UploadTypes' /\ ReportTypes' /\ Admitted'
    <3>1. AskTypes'
      BY <2>2, AnswersTypes, Names DEF NotInstalled, AskTypes
    <3>2. WorldTypes' /\ UploadTypes' /\ ReportTypes'
      BY <2>2 DEF NotInstalled, WorldTypes, UploadTypes, ReportTypes
    <3>3. Admitted'
      BY <2>2 DEF NotInstalled, Admitted, AdmittedOK, Accepted, InFlight, Moves, Answers
    <3> QED
      BY <3>1, <3>2, <3>3
  <2>3. ASSUME NEW r \in Requests, AdmitUpload(r)
       PROVE  WorldTypes' /\ AskTypes' /\ UploadTypes' /\ ReportTypes' /\ Admitted'
    <3>1. serving \in Stores /\ serving \in 0..Len(Configs) /\ ask[r] \in Asks
      BY <2>3, ServiceAssumption DEF AdmitUpload, WorldTypes, AskTypes, Stores
    <3>2. uploaderKeyID(Parsed[serving], ask[r].credentials) \in KeyIds \cup {Nobody}
      BY <3>1, IdentifyTypes
    <3>3. Refusal(Parsed[serving], ask[r]) \in Statuses
      BY <3>1, RefusalTypes, Names
    <3>4. stage' \in [Requests -> Stages] /\ answer' \in [Requests -> Statuses]
      BY <2>3, <3>3, MovesTypes, AnswersTypes, Names DEF AdmitUpload, AskTypes
    <3>5. AskTypes'
      BY <2>3, <3>1, <3>4, <3>2 DEF AdmitUpload, AskTypes
    <3>6. WorldTypes' /\ UploadTypes' /\ ReportTypes'
      BY <2>3 DEF AdmitUpload, WorldTypes, UploadTypes, ReportTypes
    <3>7. /\ on'[r] = serving /\ ask' = ask /\ ask[r].kind = "upload"
          /\ keyID'[r] = uploaderKeyID(Parsed[serving], ask[r].credentials)
          /\ \A q \in Requests \ {r} : on'[q] = on[q] /\ keyID'[q] = keyID[q]
      BY <2>3 DEF AdmitUpload, AskTypes
    <3>8. Admitted'
      <4>1. CASE Refusal(Parsed[serving], ask[r]) = 0
        <5>1. /\ stage'[r] = "room" /\ answer' = answer
              /\ \A q \in Requests \ {r} : stage'[q] = stage[q]
          BY <2>3, <4>1, MovesOnly DEF AdmitUpload
        <5>2. /\ keyID'[r] \in KeyIds
              /\ ActsAs(Configs[serving], ask[r].credentials, keyID'[r])
              /\ ask[r].length \in 0..Parsed[serving].storage.maxChunkSize
          BY <4>1, <3>1, <3>7, RefusalTypes, UploaderActs
        <5>3. Accepted(r)'
          BY <3>1, <3>7, <5>2 DEF Accepted
        <5>4. answer[r] # 201
          BY <2>3 DEF AdmitUpload, Admitted, AdmittedOK
        <5>5. AdmittedOK(r)'
          BY <5>1, <5>3, <5>4 DEF AdmittedOK, InFlight
        <5>6. \A q \in Requests \ {r} :
                 /\ stage'[q] = stage[q] /\ answer'[q] = answer[q] /\ ask'[q] = ask[q]
                 /\ on'[q] = on[q] /\ keyID'[q] = keyID[q]
          BY <3>7, <5>1
        <5> QED
          BY <5>6, <5>5, AdmittedByOne
      <4>2. CASE Refusal(Parsed[serving], ask[r]) # 0
        <5>1. /\ stage'[r] = "done" /\ answer'[r] = Refusal(Parsed[serving], ask[r])
              /\ \A q \in Requests \ {r} : stage'[q] = stage[q] /\ answer'[q] = answer[q]
          BY <2>3, <4>2, AnswersOnly DEF AdmitUpload
        <5>2. answer'[r] # 201
          BY <3>1, <5>1, RefusalTypes
        <5>3. AdmittedOK(r)'
          BY <5>1, <5>2 DEF AdmittedOK, InFlight
        <5>4. \A q \in Requests \ {r} :
                 /\ stage'[q] = stage[q] /\ answer'[q] = answer[q] /\ ask'[q] = ask[q]
                 /\ on'[q] = on[q] /\ keyID'[q] = keyID[q]
          BY <3>7, <5>1
        <5> QED
          BY <5>4, <5>3, AdmittedByOne
      <4> QED
        BY <4>1, <4>2
    <3> QED
      BY <3>5, <3>6, <3>8
  <2>4. ASSUME NEW r \in Requests, Room(r)
       PROVE  WorldTypes' /\ AskTypes' /\ UploadTypes' /\ ReportTypes' /\ Admitted'
    <3>1. AskTypes'
      <4>1. \/ Moves(r, "room", "charge") /\ answer' = answer
            \/ Answers(r, "room", 507)
        BY <2>4 DEF Room
      <4> QED
        BY <2>4, <4>1, MovesTypes, AnswersTypes, Names DEF Room, AskTypes
    <3>2. UploadTypes'
      <4>1. unguarded' \in SUBSET Requests
        BY <2>4 DEF Room, UploadTypes
      <4> QED
        BY <2>4, <4>1 DEF Room, UploadTypes
    <3>3. WorldTypes' /\ ReportTypes'
      BY <2>4 DEF Room, WorldTypes, ReportTypes
    <3>7. \/ Moves(r, "room", "charge") /\ answer' = answer
          \/ Answers(r, "room", 507)
      BY <2>4 DEF Room
    <3>8. UNCHANGED <<ask, on, keyID>>
      BY <2>4 DEF Room
    <3>4. AdmittedOK(r)'
      BY <3>7, <3>8, MovesOnly, AnswersOnly DEF Admitted, AdmittedOK, Accepted, InFlight
    <3>5. \A q \in Requests \ {r} : stage'[q] = stage[q] /\ answer'[q] = answer[q]
      BY <3>7, MovesOnly, AnswersOnly
    <3>6. Admitted'
      BY <2>4, <3>4, <3>5, AdmittedByOne DEF Room
    <3> QED
      BY <3>1, <3>2, <3>3, <3>6
  <2>5. ASSUME NEW r \in Requests, Charge(r)
       PROVE  WorldTypes' /\ AskTypes' /\ UploadTypes' /\ ReportTypes' /\ Admitted'
    <3>1. AskTypes'
      <4>1. \/ Moves(r, "charge", "body") /\ answer' = answer
            \/ Answers(r, "charge", 429)
        BY <2>5, Zenon DEF Charge
      <4>2. stage' \in [Requests -> Stages] /\ answer' \in [Requests -> Statuses]
        BY <4>1, MovesTypes, AnswersTypes, Names DEF AskTypes
      <4> QED
        BY <2>5, <4>2 DEF Charge, AskTypes
    <3>2. Accepted(r) /\ ask[r] \in Asks
      BY <2>5, MovesOnly, AnswersOnly DEF Charge, Admitted, AdmittedOK, InFlight, AskTypes
    <3>3. /\ on[r] \in Stores /\ keyID[r] \in KeyIds
          /\ ask[r].length \in 0..Parsed[on[r]].storage.maxChunkSize
      BY <3>2 DEF Accepted
    <3>4. ClampTTL(Parsed[on[r]], requestedTTL(ask[r])) \in 1..Parsed[on[r]].storage.maxTTL
      BY <3>2, <3>3, GrantedTTL
    <3>5. /\ ask[r].length \in Nat
          /\ ClampTTL(Parsed[on[r]], requestedTTL(ask[r])) \in Nat
      BY <3>3, <3>4, ParsedTypes
    <3>6. UploadTypes'
      BY <2>5, <3>5, <3>3, Names DEF Charge, UploadTypes
    <3>7. WorldTypes' /\ ReportTypes'
      BY <2>5 DEF Charge, WorldTypes, ReportTypes
    <3>8. AdmittedOK(r)'
      BY <2>5, MovesOnly, AnswersOnly DEF Charge, Admitted, AdmittedOK, Accepted, InFlight
    <3>9. \A q \in Requests \ {r} : stage'[q] = stage[q] /\ answer'[q] = answer[q]
      BY <2>5, MovesOnly, AnswersOnly DEF Charge
    <3>10. Admitted'
      BY <2>5, <3>8, <3>9, AdmittedByOne DEF Charge
    <3> QED
      BY <3>1, <3>6, <3>7, <3>10
  <2>6. ASSUME NEW r \in Requests, BodySlice(r)
       PROVE  WorldTypes' /\ AskTypes' /\ UploadTypes' /\ ReportTypes' /\ Admitted'
    <3>1. UploadTypes'
      BY <2>6 DEF BodySlice, UploadTypes
    <3>2. WorldTypes' /\ AskTypes' /\ ReportTypes'
      BY <2>6 DEF BodySlice, WorldTypes, AskTypes, ReportTypes
    <3>3. Admitted'
      BY <2>6 DEF BodySlice, Admitted, AdmittedOK, Accepted, InFlight, Moves, Answers
    <3> QED
      BY <3>1, <3>2, <3>3
  <2>7. ASSUME NEW r \in Requests, BodyEnds(r)
       PROVE  WorldTypes' /\ AskTypes' /\ UploadTypes' /\ ReportTypes' /\ Admitted'
    <3>1. AskTypes'
      BY <2>7, MovesTypes, Names DEF BodyEnds, AskTypes
    <3>2. WorldTypes' /\ UploadTypes' /\ ReportTypes'
      BY <2>7 DEF BodyEnds, WorldTypes, UploadTypes, ReportTypes
    <3>3. Admitted'
      BY <2>7 DEF BodyEnds, Admitted, AdmittedOK, Accepted, InFlight, Moves, Answers
    <3> QED
      BY <3>1, <3>2, <3>3
  <2>8. ASSUME NEW r \in Requests, EmptyBody(r)
       PROVE  WorldTypes' /\ AskTypes' /\ UploadTypes' /\ ReportTypes' /\ Admitted'
    <3>1. AskTypes'
      BY <2>8, MovesTypes, Names DEF EmptyBody, AskTypes, IngestFails
    <3>2. UploadTypes'
      BY <2>8, Names DEF EmptyBody, UploadTypes, IngestFails
    <3>3. WorldTypes' /\ ReportTypes'
      BY <2>8 DEF EmptyBody, WorldTypes, ReportTypes, IngestFails
    <3>4. Admitted'
      BY <2>8 DEF EmptyBody, Admitted, AdmittedOK, Accepted, InFlight, Moves, Answers,
         IngestFails
    <3> QED
      BY <3>1, <3>2, <3>3, <3>4
  <2>9. ASSUME NEW r \in Requests, BodyFallsShort(r)
       PROVE  WorldTypes' /\ AskTypes' /\ UploadTypes' /\ ReportTypes' /\ Admitted'
    <3>1. AskTypes'
      BY <2>9, MovesTypes, Names DEF BodyFallsShort, AskTypes, IngestFails
    <3>2. UploadTypes'
      BY <2>9, Names DEF BodyFallsShort, UploadTypes, IngestFails
    <3>3. WorldTypes' /\ ReportTypes'
      BY <2>9 DEF BodyFallsShort, WorldTypes, ReportTypes, IngestFails
    <3>4. Admitted'
      BY <2>9 DEF BodyFallsShort, Admitted, AdmittedOK, Accepted, InFlight, Moves,
         Answers, IngestFails
    <3> QED
      BY <3>1, <3>2, <3>3, <3>4
  <2>10. ASSUME NEW r \in Requests, StorageFails(r)
       PROVE  WorldTypes' /\ AskTypes' /\ UploadTypes' /\ ReportTypes' /\ Admitted'
    <3>1. AskTypes'
      BY <2>10, MovesTypes, Names DEF StorageFails, AskTypes, IngestFails
    <3>2. UploadTypes'
      BY <2>10, Names DEF StorageFails, UploadTypes, IngestFails
    <3>3. WorldTypes' /\ ReportTypes'
      BY <2>10 DEF StorageFails, WorldTypes, ReportTypes, IngestFails
    <3>4. Admitted'
      BY <2>10 DEF StorageFails, Admitted, AdmittedOK, Accepted, InFlight, Moves, Answers,
         IngestFails
    <3> QED
      BY <3>1, <3>2, <3>3, <3>4
  <2>11. ASSUME NEW r \in Requests, WriteSidecar(r)
       PROVE  WorldTypes' /\ AskTypes' /\ UploadTypes' /\ ReportTypes' /\ Admitted'
    <3>1. AskTypes'
      BY <2>11, MovesTypes, Names DEF WriteSidecar, AskTypes
    <3>2. clock + ttl[r] \in Nat
      BY DEF WorldTypes, UploadTypes
    <3>3. Unix(clock + ttl[r]) \in Nat
      BY <3>2, UnixTypes
    <3>4. UploadTypes'
      BY <2>11, <3>3, Names DEF WriteSidecar, UploadTypes
    <3>5. WorldTypes' /\ ReportTypes'
      BY <2>11 DEF WriteSidecar, WorldTypes, ReportTypes
    <3>6. Admitted'
      BY <2>11 DEF WriteSidecar, Admitted, AdmittedOK, Accepted, InFlight, Moves, Answers
    <3> QED
      BY <3>1, <3>4, <3>5, <3>6
  <2>12. ASSUME NEW r \in Requests, Publish(r)
       PROVE  WorldTypes' /\ AskTypes' /\ UploadTypes' /\ ReportTypes' /\ Admitted'
    <3>1. AskTypes'
      BY <2>12, AnswersTypes, Names DEF Publish, AskTypes
    <3>2. UploadTypes'
      BY <2>12, Names DEF Publish, UploadTypes
    <3>3. WorldTypes' /\ ReportTypes'
      BY <2>12 DEF Publish, WorldTypes, ReportTypes
    <3>4. AdmittedOK(r)'
      BY <2>12, MovesOnly, AnswersOnly DEF Publish, Admitted, AdmittedOK, Accepted, InFlight
    <3>5. \A q \in Requests \ {r} : stage'[q] = stage[q] /\ answer'[q] = answer[q]
      BY <2>12, MovesOnly, AnswersOnly DEF Publish
    <3>6. Admitted'
      BY <2>12, <3>4, <3>5, AdmittedByOne DEF Publish
    <3> QED
      BY <3>1, <3>2, <3>3, <3>6
  <2>13. ASSUME NEW r \in Requests, Refund(r)
       PROVE  WorldTypes' /\ AskTypes' /\ UploadTypes' /\ ReportTypes' /\ Admitted'
    <3>1. AskTypes'
      BY <2>13, MovesTypes, Names DEF Refund, AskTypes
    <3>2. Accepted(r)
      BY <2>13, MovesOnly DEF Refund, Admitted, AdmittedOK
    <3>3. keyID[r] \in KeyIds /\ ask[r].length \in Int
      BY <3>2, ParsedTypes DEF Accepted
    <3>4. AtLeastZero(charged[keyID[r]] - ask[r].length) \in Nat
      BY <3>3 DEF UploadTypes, AtLeastZero
    <3>5. UploadTypes'
      BY <2>13, <3>3, <3>4 DEF Refund, UploadTypes
    <3>6. WorldTypes' /\ ReportTypes'
      BY <2>13 DEF Refund, WorldTypes, ReportTypes
    <3>7. Admitted'
      BY <2>13 DEF Refund, Admitted, AdmittedOK, Accepted, InFlight, Moves, Answers
    <3> QED
      BY <3>1, <3>5, <3>6, <3>7
  <2>14. ASSUME NEW r \in Requests, AdmitDelete(r)
       PROVE  WorldTypes' /\ AskTypes' /\ UploadTypes' /\ ReportTypes' /\ Admitted'
    <3>1. serving \in Stores /\ serving \in 0..Len(Configs)
      BY <2>14, ServiceAssumption DEF AdmitDelete, WorldTypes, Stores
    <3>2. Identify(Parsed[serving], ask[r].credentials) \in KeyIds \cup {Nobody}
      BY <3>1, IdentifyTypes
    <3>3. stage' \in [Requests -> Stages] /\ answer' \in [Requests -> Statuses]
      BY <2>14, MovesTypes, AnswersTypes, Names DEF AdmitDelete, AskTypes
    <3>4. AskTypes'
      BY <2>14, <3>1, <3>3, <3>2 DEF AdmitDelete, AskTypes
    <3>5. WorldTypes' /\ UploadTypes' /\ ReportTypes'
      BY <2>14 DEF AdmitDelete, WorldTypes, UploadTypes, ReportTypes
    <3>6. /\ \/ stage'[r] = "blob" /\ answer' = answer /\ keyID'[r] # Nobody
             \/ stage'[r] = "done" /\ answer'[r] \in {401, 404}
          /\ \A q \in Requests \ {r} : stage'[q] = stage[q] /\ answer'[q] = answer[q]
      BY <2>14, MovesOnly, AnswersOnly DEF AdmitDelete, AskTypes
    <3>7. /\ on'[r] \in Stores /\ ask' = ask
          /\ keyID'[r] = Identify(Parsed[on'[r]], ask'[r].credentials)
      BY <2>14, <3>1 DEF AdmitDelete, AskTypes
    <3>8. answer[r] # 201
      BY <2>14 DEF AdmitDelete, Admitted, AdmittedOK
    <3>9. AdmittedOK(r)'
      BY <3>6, <3>7, <3>8, IdentifiedActs DEF AdmittedOK, InFlight
    <3>10. Admitted'
      BY <2>14, <3>6, <3>9, AdmittedByOne DEF AdmitDelete, AskTypes
    <3> QED
      BY <3>4, <3>5, <3>10
  <2>15. ASSUME NEW r \in Requests, DeleteBlob(r)
       PROVE  WorldTypes' /\ AskTypes' /\ UploadTypes' /\ ReportTypes' /\ Admitted'
    <3>1. AskTypes'
      BY <2>15, MovesTypes, Names DEF DeleteBlob, AskTypes
    <3>2. ask[r].chunk \in Requests
      BY DEF AskTypes, Asks
    <3>3. UploadTypes'
      BY <2>15, <3>2, Names DEF DeleteBlob, BlobGoes, UploadTypes
    <3>4. WorldTypes' /\ ReportTypes'
      BY <2>15 DEF DeleteBlob, WorldTypes, ReportTypes
    <3>5. Admitted'
      BY <2>15 DEF DeleteBlob, Admitted, AdmittedOK, Accepted, InFlight, Moves, Answers
    <3> QED
      BY <3>1, <3>3, <3>4, <3>5
  <2>16. ASSUME NEW r \in Requests, DeleteMeta(r)
       PROVE  WorldTypes' /\ AskTypes' /\ UploadTypes' /\ ReportTypes' /\ Admitted'
    <3>1. AskTypes'
      BY <2>16, AnswersTypes, Names DEF DeleteMeta, Left, AskTypes
    <3>2. UploadTypes'
      BY <2>16, Names DEF DeleteMeta, HasBlob, UploadTypes, AskTypes, Asks
    <3>3. WorldTypes' /\ ReportTypes'
      BY <2>16 DEF DeleteMeta, WorldTypes, ReportTypes
    <3>4. Admitted'
      BY <2>16 DEF DeleteMeta, Left, Admitted, AdmittedOK, Accepted, InFlight, Moves, Answers
    <3> QED
      BY <3>1, <3>2, <3>3, <3>4
  <2>17. ASSUME NEW r \in Requests, AdmitStats(r)
       PROVE  WorldTypes' /\ AskTypes' /\ UploadTypes' /\ ReportTypes' /\ Admitted'
    <3>1. serving \in Stores /\ serving \in 0..Len(Configs)
      BY <2>17, ServiceAssumption DEF AdmitStats, WorldTypes, Stores
    <3>2. Identify(Parsed[serving], ask[r].credentials) \in KeyIds \cup {Nobody}
      BY <3>1, IdentifyTypes
    <3>3. stage' \in [Requests -> Stages] /\ answer' \in [Requests -> Statuses]
      BY <2>17, MovesTypes, AnswersTypes, Names DEF AdmitStats, AskTypes
    <3>4. AskTypes'
      BY <2>17, <3>1, <3>3, <3>2 DEF AdmitStats, AskTypes
    <3>5. ReportTypes'
      BY <2>17 DEF AdmitStats, ReportTypes, WorldTypes
    <3>6. WorldTypes' /\ UploadTypes'
      BY <2>17 DEF AdmitStats, WorldTypes, UploadTypes
    <3>7. /\ \/ stage'[r] = "lock" /\ answer' = answer
             \/ stage'[r] = "done" /\ answer'[r] = 401
          /\ \A q \in Requests \ {r} : stage'[q] = stage[q] /\ answer'[q] = answer[q]
      BY <2>17, MovesOnly, AnswersOnly DEF AdmitStats
    <3>8. on'[r] \in Stores
      BY <2>17, <3>1 DEF AdmitStats, AskTypes
    <3>9. answer[r] # 201
      BY <2>17 DEF AdmitStats, Admitted, AdmittedOK
    <3>10. AdmittedOK(r)'
      BY <3>7, <3>8, <3>9 DEF AdmittedOK, InFlight
    <3>11. Admitted'
      BY <2>17, <3>7, <3>10, AdmittedByOne DEF AdmitStats, AskTypes
    <3> QED
      BY <3>4, <3>5, <3>6, <3>11
  <2>18. ASSUME NEW r \in Requests, Get(r)
       PROVE  WorldTypes' /\ AskTypes' /\ UploadTypes' /\ ReportTypes' /\ Admitted'
    <3>1. AskTypes'
      BY <2>18, MovesTypes, AnswersTypes, Names DEF Get, AskTypes
    <3>2. [NoWalk EXCEPT !.before = StoredIn(on[r]),
                          !.listing = {c \in InStore(on[r]) : ~Over(c)}] \in Walks
      BY DEF NoWalk, Walks, StoredIn, InStore
    <3>3. ReportTypes'
      BY <2>18, <3>2 DEF Get, ReportTypes
    <3>4. WorldTypes' /\ UploadTypes'
      BY <2>18 DEF Get, WorldTypes, UploadTypes
    <3>5. AdmittedOK(r)'
      BY <2>18, MovesOnly, AnswersOnly DEF Get, Admitted, AdmittedOK, Accepted, InFlight
    <3>6. \A q \in Requests \ {r} : stage'[q] = stage[q] /\ answer'[q] = answer[q]
      BY <2>18, MovesOnly, AnswersOnly DEF Get
    <3>7. Admitted'
      BY <2>18, <3>5, <3>6, AdmittedByOne DEF Get
    <3> QED
      BY <3>1, <3>3, <3>4, <3>7
  <2>19. ASSUME NEW r \in Requests, ListShard(r)
       PROVE  WorldTypes' /\ AskTypes' /\ UploadTypes' /\ ReportTypes' /\ Admitted'
    <3>1. PICK c \in walk.listing :
             walk' = [walk EXCEPT !.listing = @ \ {c},
                                  !.ids = IF HasSidecar(file[c]) THEN @ \cup {c} ELSE @]
      BY <2>19 DEF ListShard
    <3>2. walk' \in Walks
      BY <3>1 DEF ReportTypes, Walks
    <3>3. ReportTypes'
      BY <2>19, <3>2 DEF ListShard, ReportTypes
    <3>4. WorldTypes' /\ AskTypes' /\ UploadTypes'
      BY <2>19 DEF ListShard, WorldTypes, AskTypes, UploadTypes
    <3>5. Admitted'
      BY <2>19 DEF ListShard, Admitted, AdmittedOK, Accepted, InFlight, Moves, Answers
    <3> QED
      BY <3>3, <3>4, <3>5
  <2>20. ASSUME NEW r \in Requests, Listed(r)
       PROVE  WorldTypes' /\ AskTypes' /\ UploadTypes' /\ ReportTypes' /\ Admitted'
    <3>1. AskTypes'
      BY <2>20, MovesTypes, Names DEF Listed, AskTypes
    <3>2. WorldTypes' /\ UploadTypes' /\ ReportTypes'
      BY <2>20 DEF Listed, WorldTypes, UploadTypes, ReportTypes
    <3>3. Admitted'
      BY <2>20 DEF Listed, Admitted, AdmittedOK, Accepted, InFlight, Moves, Answers
    <3> QED
      BY <3>1, <3>2, <3>3
  <2>21. ASSUME NEW r \in Requests, StatBlob(r)
       PROVE  WorldTypes' /\ AskTypes' /\ UploadTypes' /\ ReportTypes' /\ Admitted'
    <3>1. AskTypes'
      BY <2>21, MovesTypes, Names DEF StatBlob, AskTypes
    <3>2. PICK c \in walk.ids :
             \/ walk' = [walk EXCEPT !.ids = @ \ {c}, !.chunk = {c}, !.holds = @ \cup {c}]
             \/ walk' = [walk EXCEPT !.ids = @ \ {c}]
      BY <2>21 DEF StatBlob
    <3>3. c \in Requests /\ walk \in Walks
      BY DEF ReportTypes, Walks
    <3>4. walk' \in Walks
      <4>1. [walk EXCEPT !.ids = @ \ {c}, !.chunk = {c}, !.holds = @ \cup {c}] \in Walks
        BY <3>3 DEF Walks
      <4>2. [walk EXCEPT !.ids = @ \ {c}] \in Walks
        BY <3>3 DEF Walks
      <4> QED
        BY <3>2, <4>1, <4>2
    <3>5. ReportTypes'
      BY <2>21, <3>4 DEF StatBlob, ReportTypes
    <3>6. WorldTypes' /\ UploadTypes'
      BY <2>21 DEF StatBlob, WorldTypes, UploadTypes
    <3>7. AdmittedOK(r)'
      BY <2>21, MovesOnly, AnswersOnly DEF StatBlob, Admitted, AdmittedOK, Accepted, InFlight
    <3>8. \A q \in Requests \ {r} : stage'[q] = stage[q] /\ answer'[q] = answer[q]
      BY <2>21, MovesOnly, AnswersOnly DEF StatBlob
    <3>9. Admitted'
      BY <2>21, <3>7, <3>8, AdmittedByOne DEF StatBlob
    <3> QED
      BY <3>1, <3>5, <3>6, <3>9
  <2>22. ASSUME NEW r \in Requests, ReadExpiry(r)
       PROVE  WorldTypes' /\ AskTypes' /\ UploadTypes' /\ ReportTypes' /\ Admitted'
    <3>1. AskTypes'
      BY <2>22, MovesTypes, Names DEF ReadExpiry, AskTypes
    <3>2. ReportTypes'
      <4>1. walk' = [walk EXCEPT !.chunk = {}, !.lapsed = @ \cup
                        {c \in walk.chunk : ~HasSidecar(file[c]) \/ IsExpired(c, asked[r])}]
        BY <2>22 DEF ReadExpiry
      <4>2. walk' \in Walks
        BY <4>1 DEF ReportTypes, Walks
      <4> QED
        BY <2>22, <4>2 DEF ReadExpiry, ReportTypes
    <3>3. WorldTypes' /\ UploadTypes'
      BY <2>22 DEF ReadExpiry, WorldTypes, UploadTypes
    <3>4. Admitted'
      BY <2>22 DEF ReadExpiry, Admitted, AdmittedOK, Accepted, InFlight, Moves, Answers
    <3> QED
      BY <3>1, <3>2, <3>3, <3>4
  <2>23. ASSUME NEW r \in Requests, Report(r)
       PROVE  WorldTypes' /\ AskTypes' /\ UploadTypes' /\ ReportTypes' /\ Admitted'
    <3>1. AskTypes'
      BY <2>23, AnswersTypes, Names DEF Report, AskTypes
    <3>2. ReportTypes'
      BY <2>23 DEF Report, ReportTypes, AskTypes, Walks, NoWalk
    <3>3. WorldTypes' /\ UploadTypes'
      BY <2>23 DEF Report, WorldTypes, UploadTypes
    <3>4. Admitted'
      BY <2>23 DEF Report, Admitted, AdmittedOK, Accepted, InFlight, Moves, Answers
    <3> QED
      BY <3>1, <3>2, <3>3, <3>4
  <2>24. ASSUME NEW c \in Requests, SweepsBlob(c)
       PROVE  WorldTypes' /\ AskTypes' /\ UploadTypes' /\ ReportTypes' /\ Admitted'
    <3>1. UploadTypes'
      BY <2>24, Names DEF SweepsBlob, UploadTypes, BlobGoes
    <3>2. WorldTypes' /\ AskTypes' /\ ReportTypes'
      BY <2>24 DEF SweepsBlob, WorldTypes, AskTypes, ReportTypes
    <3>3. Admitted'
      BY <2>24 DEF SweepsBlob, Admitted, AdmittedOK, Accepted, InFlight, Moves, Answers
    <3> QED
      BY <3>1, <3>2, <3>3
  <2>25. ASSUME NEW c \in Requests, SweepsMeta(c)
       PROVE  WorldTypes' /\ AskTypes' /\ UploadTypes' /\ ReportTypes' /\ Admitted'
    <3>1. UploadTypes'
      BY <2>25, Names DEF SweepsMeta, UploadTypes
    <3>2. WorldTypes' /\ AskTypes' /\ ReportTypes'
      BY <2>25 DEF SweepsMeta, WorldTypes, AskTypes, ReportTypes
    <3>3. Admitted'
      BY <2>25 DEF SweepsMeta, Admitted, AdmittedOK, Accepted, InFlight, Moves, Answers
    <3> QED
      BY <3>1, <3>2, <3>3
  <2>26. CASE Reload
    <3>1. WorldTypes'
      BY <2>26, ServiceAssumption DEF Reload, WorldTypes
    <3>2. AskTypes' /\ UploadTypes' /\ ReportTypes'
      BY <2>26 DEF Reload, AskTypes, UploadTypes, ReportTypes
    <3>3. Admitted'
      BY <2>26 DEF Reload, Admitted, AdmittedOK, Accepted
    <3> QED
      BY <3>1, <3>2, <3>3
  <2>27. CASE Ticks
    <3>1. WorldTypes'
      BY <2>27, ServiceAssumption DEF Ticks, WorldTypes
    <3>2. AskTypes' /\ UploadTypes' /\ ReportTypes'
      BY <2>27 DEF Ticks, AskTypes, UploadTypes, ReportTypes
    <3>3. Admitted'
      BY <2>27 DEF Ticks, Admitted, AdmittedOK, Accepted
    <3> QED
      BY <3>1, <3>2, <3>3
  <2>28. CASE UNCHANGED serviceVars
    BY <2>28 DEF serviceVars, WorldTypes, AskTypes, UploadTypes, ReportTypes, Admitted,
       AdmittedOK, Accepted
  <2>29. ASSUME NEW r \in Requests, ChargeFails(r)
       PROVE  WorldTypes' /\ AskTypes' /\ UploadTypes' /\ ReportTypes' /\ Admitted'
    <3>1. AskTypes'
      BY <2>29, AnswersTypes, Names DEF ChargeFails, AskTypes
    <3>2. stage[r] = "charge"
      BY <2>29, AnswersOnly DEF ChargeFails
    <3>3. keyID[r] \in KeyIds
      BY <3>2 DEF Admitted, AdmittedOK, Accepted, InFlight
    <3>4. charged' \in [KeyIds -> Nat]
      BY <2>29, <3>3 DEF ChargeFails, Empties, UploadTypes
    <3>5. WorldTypes' /\ UploadTypes' /\ ReportTypes'
      BY <2>29, <3>4 DEF ChargeFails, WorldTypes, UploadTypes, ReportTypes
    <3>6. Admitted'
      BY <2>29 DEF ChargeFails, Admitted, AdmittedOK, Accepted, InFlight, Moves, Answers
    <3> QED
      BY <3>1, <3>5, <3>6
  <2>30. ASSUME NEW r \in Requests, RefundFails(r)
       PROVE  WorldTypes' /\ AskTypes' /\ UploadTypes' /\ ReportTypes' /\ Admitted'
    <3>1. AskTypes'
      BY <2>30, MovesTypes, Names DEF RefundFails, AskTypes
    <3>2. stage[r] = "refund"
      BY <2>30, MovesOnly DEF RefundFails
    <3>3. keyID[r] \in KeyIds
      BY <3>2 DEF Admitted, AdmittedOK, Accepted
    <3>4. charged' \in [KeyIds -> Nat]
      BY <2>30, <3>3 DEF RefundFails, Empties, UploadTypes
    <3>5. WorldTypes' /\ UploadTypes' /\ ReportTypes'
      BY <2>30, <3>4 DEF RefundFails, WorldTypes, UploadTypes, ReportTypes
    <3>6. Admitted'
      BY <2>30 DEF RefundFails, Admitted, AdmittedOK, Accepted, InFlight, Moves, Answers
    <3> QED
      BY <3>1, <3>5, <3>6
  <2>31. ASSUME NEW r \in Requests, BodyHasNoRoom(r)
       PROVE  WorldTypes' /\ AskTypes' /\ UploadTypes' /\ ReportTypes' /\ Admitted'
    <3>1. AskTypes'
      BY <2>31, MovesTypes, Names DEF BodyHasNoRoom, AskTypes, IngestFails
    <3>2. UploadTypes'
      BY <2>31, Names DEF BodyHasNoRoom, UploadTypes, IngestFails
    <3>3. WorldTypes' /\ ReportTypes'
      BY <2>31 DEF BodyHasNoRoom, WorldTypes, ReportTypes, IngestFails
    <3>4. Admitted'
      BY <2>31 DEF BodyHasNoRoom, Admitted, AdmittedOK, Accepted, InFlight, Moves, Answers,
         IngestFails
    <3> QED
      BY <3>1, <3>2, <3>3, <3>4
  <2>32. ASSUME NEW r \in Requests, MetaFails(r)
       PROVE  WorldTypes' /\ AskTypes' /\ UploadTypes' /\ ReportTypes' /\ Admitted'
    <3>1. serving \in Stores /\ serving \in 0..Len(Configs)
      BY <2>32, ServiceAssumption DEF MetaFails, WorldTypes, Stores
    <3>2. Identify(Parsed[serving], ask[r].credentials) \in KeyIds \cup {Nobody}
      BY <3>1, IdentifyTypes
    <3>3. stage' \in [Requests -> Stages] /\ answer' \in [Requests -> Statuses]
      BY <2>32, AnswersTypes, Names DEF MetaFails
    <3>4. AskTypes'
      BY <2>32, <3>1, <3>2, <3>3 DEF MetaFails, AskTypes
    <3>5. WorldTypes' /\ UploadTypes' /\ ReportTypes'
      BY <2>32 DEF MetaFails, WorldTypes, UploadTypes, ReportTypes
    <3>6. /\ stage'[r] = "done" /\ answer'[r] = 404
          /\ \A q \in Requests \ {r} : stage'[q] = stage[q] /\ answer'[q] = answer[q]
      BY <2>32, AnswersOnly DEF MetaFails
    <3>7. AdmittedOK(r)'
      BY <3>6 DEF AdmittedOK, InFlight
    <3>8. Admitted'
      BY <2>32, <3>6, <3>7, AdmittedByOne DEF MetaFails, AskTypes
    <3> QED
      BY <3>4, <3>5, <3>8
  <2>33. ASSUME NEW r \in Requests, DeleteBlobFails(r) \/ DeleteMetaFails(r)
       PROVE  WorldTypes' /\ AskTypes' /\ UploadTypes' /\ ReportTypes' /\ Admitted'
    <3>1. AskTypes'
      BY <2>33, MovesTypes, AnswersTypes, Names DEF DeleteBlobFails, DeleteMetaFails, Left, AskTypes
    <3>2. WorldTypes' /\ UploadTypes' /\ ReportTypes'
      BY <2>33 DEF DeleteBlobFails, DeleteMetaFails, WorldTypes, UploadTypes, ReportTypes
    <3>3. Admitted'
      <4>1. CASE DeleteBlobFails(r)
        BY <4>1 DEF DeleteBlobFails, Admitted, AdmittedOK, Accepted, InFlight, Moves, Answers
      <4>2. CASE DeleteMetaFails(r)
        BY <4>2 DEF DeleteMetaFails, Left, Admitted, AdmittedOK, Accepted, InFlight, Moves, Answers
      <4> QED
        BY <2>33, <4>1, <4>2
    <3> QED
      BY <3>1, <3>2, <3>3
  <2>34. ASSUME NEW r \in Requests, ListShardFails(r) \/ StatBlobFails(r)
       PROVE  WorldTypes' /\ AskTypes' /\ UploadTypes' /\ ReportTypes' /\ Admitted'
    <3>1. PICK c \in Requests :
             \/ walk' = [walk EXCEPT !.listing = @ \ {c}, !.unread = @ \cup {c}]
             \/ walk' = [walk EXCEPT !.ids = @ \ {c}, !.unread = @ \cup {c}]
      BY <2>34 DEF ListShardFails, StatBlobFails, ReportTypes, Walks
    <3>2. walk' \in Walks
      <4>1. walk \in Walks
        BY DEF ReportTypes
      <4>2. [walk EXCEPT !.listing = @ \ {c}, !.unread = @ \cup {c}] \in Walks
        BY <4>1 DEF Walks
      <4>3. [walk EXCEPT !.ids = @ \ {c}, !.unread = @ \cup {c}] \in Walks
        BY <4>1 DEF Walks
      <4> QED
        BY <3>1, <4>2, <4>3
    <3>3. ReportTypes'
      BY <2>34, <3>2 DEF ListShardFails, StatBlobFails, ReportTypes
    <3>4. WorldTypes' /\ AskTypes' /\ UploadTypes'
      BY <2>34 DEF ListShardFails, StatBlobFails, WorldTypes, AskTypes, UploadTypes
    <3>5. Admitted'
      <4>1. UNCHANGED <<stage, ask, on, answer, keyID>>
        BY <2>34 DEF ListShardFails, StatBlobFails
      <4> QED
        BY <4>1 DEF Admitted, AdmittedOK, Accepted
    <3> QED
      BY <3>3, <3>4, <3>5
  <2>35. ASSUME NEW r \in Requests, ReadExpiryFails(r)
       PROVE  WorldTypes' /\ AskTypes' /\ UploadTypes' /\ ReportTypes' /\ Admitted'
    <3>1. AskTypes'
      BY <2>35, MovesTypes, Names DEF ReadExpiryFails, AskTypes
    <3>2. walk' = [walk EXCEPT !.chunk = {}, !.lapsed = @ \cup walk.chunk,
                               !.unread = @ \cup walk.chunk]
      BY <2>35 DEF ReadExpiryFails
    <3>3. walk' \in Walks
      BY <3>2 DEF ReportTypes, Walks
    <3>4. WorldTypes' /\ UploadTypes' /\ ReportTypes'
      BY <2>35, <3>3 DEF ReadExpiryFails, WorldTypes, UploadTypes, ReportTypes
    <3>5. Admitted'
      BY <2>35 DEF ReadExpiryFails, Admitted, AdmittedOK, Accepted, InFlight, Moves, Answers
    <3> QED
      BY <3>1, <3>4, <3>5
  <2>36. ASSUME NEW c \in Requests, Misreads(c)
       PROVE  WorldTypes' /\ AskTypes' /\ UploadTypes' /\ ReportTypes' /\ Admitted'
    <3>1. WorldTypes' /\ AskTypes' /\ UploadTypes' /\ ReportTypes'
      BY <2>36 DEF Misreads, WorldTypes, AskTypes, UploadTypes, ReportTypes
    <3>2. Admitted'
      BY <2>36 DEF Misreads, Admitted, AdmittedOK, Accepted
    <3> QED
      BY <3>1, <3>2
  <2>37. ASSUME NEW c \in Requests, SweepLeavesBlob(c)
       PROVE  WorldTypes' /\ AskTypes' /\ UploadTypes' /\ ReportTypes' /\ Admitted'
    <3>1. UploadTypes'
      BY <2>37, Names DEF SweepLeavesBlob, UploadTypes
    <3>2. WorldTypes' /\ AskTypes' /\ ReportTypes'
      BY <2>37 DEF SweepLeavesBlob, WorldTypes, AskTypes, ReportTypes
    <3>3. Admitted'
      BY <2>37 DEF SweepLeavesBlob, Admitted, AdmittedOK, Accepted
    <3> QED
      BY <3>1, <3>2, <3>3
  <2> QED
    BY <2>1, <2>2, <2>3, <2>4, <2>5, <2>6, <2>7, <2>8, <2>9, <2>10, <2>11, <2>12, <2>13,
       <2>14, <2>15, <2>16, <2>17, <2>18, <2>19, <2>20, <2>21, <2>22, <2>23, <2>24, <2>25,
       <2>26, <2>27, <2>28, <2>29, <2>30, <2>31, <2>32, <2>33, <2>34, <2>35, <2>36, <2>37
       DEF ServiceNext, ServerStep, Failure, Sweep
<1> QED
  BY <1>1, <1>2, PTL DEF ServiceSpec

-----------------------------------------------------------------------------
(* What is on disk. *)

\* A step that uploads nothing changes nothing of it.
LEMMA QuietStep ==
    ASSUME AskTypes, AskTypes', Admitted, ServiceInv, NEW r \in Requests, UNCHANGED uploadVars,
           \A q \in Requests \ {r} :
              /\ stage'[q] = stage[q] /\ answer'[q] = answer[q] /\ ask'[q] = ask[q]
              /\ on'[q] = on[q] /\ keyID'[q] = keyID[q],
           stage[r] \in {"idle", "admit", "lock", "list", "stat", "expiry"},
           stage'[r] \in {"admit", "room", "lock", "list", "stat", "expiry", "blob", "done"},
           answer'[r] # 201,
           stage'[r] = "blob" => /\ ask'[r].chunk # r
                                 /\ answer[ask'[r].chunk] = 201
                                 /\ keyID'[r] = keyID[ask'[r].chunk]
    PROVE  ServiceInv'
<1> USE DEF uploadVars, ServiceInv
<1>1. answer[r] # 201 /\ file[r] = "none" /\ size[r] = 0
  BY DEF Admitted, AdmittedOK, Filed, FiledOK
<1>2. ASSUME NEW q \in Requests \ {r} PROVE FiledOK(q)'
  <2>1. FiledOK(q)
    BY DEF Filed
  <2>2. /\ stage'[q] = stage[q] /\ answer'[q] = answer[q] /\ ask'[q] = ask[q] /\ on'[q] = on[q]
        /\ file'[q] = file[q] /\ size'[q] = size[q] /\ ttl'[q] = ttl[q]
    OBVIOUS
  <2> QED
    BY <2>1, <2>2 DEF FiledOK, Granted
<1>3. FiledOK(r)'
  BY <1>1 DEF FiledOK
<1>4. Filed'
  BY <1>2, <1>3 DEF Filed
<1>5. \A q \in Requests : ask[q].chunk \in Requests /\ ask'[q].chunk \in Requests
  BY DEF AskTypes, Asks
<1>6. DeletesOwn'
  BY <1>1, <1>5 DEF DeletesOwn
<1>7. \A q \in Requests : stage'[q] \in InFlight => q # r /\ stage[q] \in InFlight
  BY DEF InFlight
<1>8. Meet'
  BY <1>7 DEF Meet
<1>9. FloorHeldAlone'
  BY <1>7 DEF FloorHeldAlone
<1> QED
  BY <1>4, <1>6, <1>8, <1>9

\* Nor does a step of an upload to what is not its own.
LEMMA UploadStep ==
    ASSUME AskTypes, ServiceInv, NEW r \in Requests, UNCHANGED <<ask, on, keyID>>,
           \A q \in Requests \ {r} :
              /\ stage'[q] = stage[q] /\ answer'[q] = answer[q] /\ file'[q] = file[q]
              /\ size'[q] = size[q] /\ ttl'[q] = ttl[q],
           answer[r] # 201,
           stage'[r] \notin {"blob", "meta"},
           FiledOK(r)'
    PROVE  Filed' /\ DeletesOwn'
<1> USE DEF ServiceInv
<1>1. ASSUME NEW q \in Requests \ {r} PROVE FiledOK(q)'
  <2>1. FiledOK(q)
    BY DEF Filed
  <2>2. /\ stage'[q] = stage[q] /\ answer'[q] = answer[q] /\ ask' = ask /\ on' = on
        /\ file'[q] = file[q] /\ size'[q] = size[q] /\ ttl'[q] = ttl[q]
    OBVIOUS
  <2> QED
    BY <2>1, <2>2 DEF FiledOK, Granted
<1>2. \A q \in Requests : ask[q].chunk \in Requests
  BY DEF AskTypes, Asks
<1>3. DeletesOwn'
  BY <1>2 DEF DeletesOwn
<1> QED
  BY <1>1, <1>3 DEF Filed

\* An upload that goes on alone keeps the room it found.
LEMMA FloorKept ==
    ASSUME ServiceInv, NEW r \in Requests, stage[r] \in InFlight, UNCHANGED <<ask, on, unguarded>>,
           \A q \in Requests \ {r} : stage'[q] = stage[q],
           stage'[r] \in InFlight =>
              free' - (ask[r].length - size'[r]) >= free - (ask[r].length - size[r]),
           free \in Nat, size[r] \in Nat, ask[r].length \in Nat, on[r] \in Stores,
           free' \in Nat, size'[r] \in Nat
    PROVE  Meet' /\ FloorHeldAlone'
<1> USE DEF ServiceInv
<1>1. \A q \in Requests : stage'[q] \in InFlight => stage[q] \in InFlight
  OBVIOUS
<1>2. Meet'
  BY <1>1 DEF Meet
<1>3. \A q \in Requests \ unguarded : stage'[q] \in InFlight => q = r
  BY <1>1 DEF Meet
<1>4. Parsed[on[r]].storage.minFree \in Nat
  BY ParsedTypes
<1>5. ASSUME r \notin unguarded, stage'[r] \in InFlight, Parsed[on[r]].storage.minFree > 0
      PROVE  free' - (ask[r].length - size'[r]) >= Parsed[on[r]].storage.minFree
  <2>1. free - (ask[r].length - size[r]) >= Parsed[on[r]].storage.minFree
    BY <1>5 DEF FloorHeldAlone
  <2> QED
    BY <1>4, <1>5, <2>1
<1>6. FloorHeldAlone'
  BY <1>3, <1>5 DEF FloorHeldAlone
<1> QED
  BY <1>2, <1>6

\* Space that somebody gives back is room for all.
LEMMA FloorRises ==
    ASSUME AskTypes, UploadTypes, Admitted, ServiceInv, UNCHANGED <<ask, on, size, unguarded>>,
           \A q \in Requests : stage'[q] \in InFlight => stage[q] \in InFlight,
           free' \in Nat, free' >= free
    PROVE  Meet' /\ FloorHeldAlone'
<1> USE DEF ServiceInv
<1>1. Meet'
  BY DEF Meet
<1>2. ASSUME NEW q \in Requests \ unguarded, stage'[q] \in InFlight,
             Parsed[on[q]].storage.minFree > 0
      PROVE  free' - (ask[q].length - size[q]) >= Parsed[on[q]].storage.minFree
  <2>1. free - (ask[q].length - size[q]) >= Parsed[on[q]].storage.minFree
    BY <1>2 DEF FloorHeldAlone
  <2>2. Accepted(q)
    BY <1>2 DEF Admitted, AdmittedOK
  <2>3. Parsed[on[q]].storage.minFree \in Nat /\ ask[q].length \in Int
    BY <2>2, ParsedTypes DEF Accepted
  <2>4. size[q] \in Nat /\ free \in Nat
    BY DEF UploadTypes
  <2> QED
    BY <2>1, <2>3, <2>4
<1>3. FloorHeldAlone'
  BY <1>2 DEF FloorHeldAlone
<1> QED
  BY <1>1, <1>3

\* A failed upload leaves nothing.
LEMMA IngestFailsKeeps ==
    ASSUME ServiceTypeOK, Admitted, ServiceInv, NEW r \in Requests,
           NEW here \in {"body", "sidecar", "rename"}, NEW code \in {400, 507},
           IngestFails(r, here, code)
    PROVE  ServiceInv'
<1> USE DEF ServiceTypeOK, askVars, uploadVars, reportVars, worldVars
<1>1. /\ stage[r] \in InFlight /\ stage'[r] = "refund" /\ "refund" \notin InFlight
      /\ \A q \in Requests \ {r} : stage'[q] = stage[q]
  BY MovesOnly DEF IngestFails, InFlight
<1>2. /\ file'[r] = "gone" /\ size'[r] = 0 /\ answer'[r] # 201
      /\ \A q \in Requests \ {r} : /\ answer'[q] = answer[q] /\ file'[q] = file[q]
                                    /\ size'[q] = size[q] /\ ttl'[q] = ttl[q]
  BY DEF IngestFails, AskTypes, UploadTypes
<1>3. FiledOK(r)'
  BY <1>1, <1>2 DEF FiledOK
<1>4. answer[r] # 201
  BY <1>1 DEF Admitted, AdmittedOK, InFlight
<1>5. Filed' /\ DeletesOwn'
  BY <1>1, <1>2, <1>3, <1>4, UploadStep DEF IngestFails
<1>6. Accepted(r)
  BY <1>1 DEF Admitted, AdmittedOK
<1>7. ask[r].length \in Nat /\ on[r] \in Stores
  BY <1>6, ParsedTypes DEF Accepted
<1>8. free' \in Nat /\ free \in Nat /\ size[r] \in Nat
  BY DEF IngestFails, UploadTypes
<1>9. Meet' /\ FloorHeldAlone'
  BY <1>1, <1>2, <1>7, <1>8, FloorKept DEF IngestFails
<1> QED
  BY <1>5, <1>9 DEF ServiceInv

(* Whatever the requests do, each has on disk what its stage says, a DELETE    *)
(* has its own chunk, uploads that met are known, and one that met none has   *)
(* its room.                                                                 *)
THEOREM ServiceInvariant == ServiceSpec => []ServiceInv
<1>1. ServiceInit => ServiceInv
  BY DEF ServiceInit, ServiceInv, Filed, FiledOK, DeletesOwn, Meet, FloorHeldAlone, InFlight
<1>2. ServiceTypeOK /\ ServiceTypeOK' /\ Admitted /\ ServiceInv /\ [ServiceNext]_serviceVars
      => ServiceInv'
  <2> SUFFICES ASSUME ServiceTypeOK, ServiceTypeOK', Admitted, ServiceInv,
                      [ServiceNext]_serviceVars
               PROVE  ServiceInv'
    OBVIOUS
  <2> USE DEF ServiceTypeOK, worldVars, askVars, reportVars
  <2>1. ASSUME NEW r \in Requests, Asking(r) PROVE ServiceInv'
    <3>1. /\ stage[r] = "idle" /\ stage'[r] \in {"admit"} /\ answer'[r] # 201
          /\ \A q \in Requests \ {r} : stage'[q] = stage[q] /\ answer'[q] = answer[q]
      BY <2>1, MovesOnly, AnswersOnly DEF Asking, Admitted, AdmittedOK
    <3>2. \A q \in Requests \ {r} : ask'[q] = ask[q] /\ on'[q] = on[q] /\ keyID'[q] = keyID[q]
      BY <2>1 DEF Asking, AskTypes
    <3> QED
      BY <2>1, <3>1, <3>2, QuietStep DEF Asking
  <2>2. ASSUME NEW r \in Requests, NotInstalled(r) PROVE ServiceInv'
    <3>1. /\ stage[r] = "admit" /\ stage'[r] \in {"done"} /\ answer'[r] # 201
          /\ \A q \in Requests \ {r} : stage'[q] = stage[q] /\ answer'[q] = answer[q]
      BY <2>2, MovesOnly, AnswersOnly DEF NotInstalled, Admitted, AdmittedOK
    <3>2. \A q \in Requests \ {r} : ask'[q] = ask[q] /\ on'[q] = on[q] /\ keyID'[q] = keyID[q]
      BY <2>2 DEF NotInstalled, AskTypes
    <3> QED
      BY <2>2, <3>1, <3>2, QuietStep DEF NotInstalled
  <2>3. ASSUME NEW r \in Requests, AdmitUpload(r) PROVE ServiceInv'
    <3>1. Refusal(Parsed[serving], ask[r]) # 201
      <4>1. serving \in Stores /\ ask[r] \in Asks
        BY <2>3, ServiceAssumption DEF AdmitUpload, WorldTypes, AskTypes, Stores
      <4> QED
        BY <4>1, RefusalTypes
    <3>2. /\ stage[r] = "admit" /\ stage'[r] \in {"room", "done"} /\ answer'[r] # 201
          /\ \A q \in Requests \ {r} : stage'[q] = stage[q] /\ answer'[q] = answer[q]
      BY <2>3, <3>1, MovesOnly, AnswersOnly DEF AdmitUpload, Admitted, AdmittedOK
    <3>3. \A q \in Requests \ {r} : on'[q] = on[q] /\ keyID'[q] = keyID[q]
      BY <2>3 DEF AdmitUpload, AskTypes
    <3> QED
      BY <2>3, <3>2, <3>3, QuietStep DEF AdmitUpload
  <2>4. ASSUME NEW r \in Requests, Get(r) PROVE ServiceInv'
    <3>1. /\ stage[r] = "lock" /\ stage'[r] \in {"list", "done"} /\ answer'[r] # 201
          /\ \A q \in Requests \ {r} : stage'[q] = stage[q] /\ answer'[q] = answer[q]
      BY <2>4, MovesOnly, AnswersOnly DEF Get, Admitted, AdmittedOK
    <3>2. \A q \in Requests \ {r} : ask'[q] = ask[q] /\ on'[q] = on[q] /\ keyID'[q] = keyID[q]
      BY <2>4 DEF Get, AskTypes
    <3> QED
      BY <2>4, <3>1, <3>2, QuietStep DEF Get
  <2>5. ASSUME NEW r \in Requests, Listed(r) PROVE ServiceInv'
    <3>1. /\ stage[r] = "list" /\ stage'[r] \in {"stat"} /\ answer'[r] # 201
          /\ \A q \in Requests \ {r} : stage'[q] = stage[q] /\ answer'[q] = answer[q]
      BY <2>5, MovesOnly, AnswersOnly DEF Listed, Admitted, AdmittedOK
    <3>2. \A q \in Requests \ {r} : ask'[q] = ask[q] /\ on'[q] = on[q] /\ keyID'[q] = keyID[q]
      BY <2>5 DEF Listed, AskTypes
    <3> QED
      BY <2>5, <3>1, <3>2, QuietStep DEF Listed
  <2>6. ASSUME NEW r \in Requests, StatBlob(r) PROVE ServiceInv'
    <3>1. /\ stage[r] = "stat" /\ stage'[r] \in {"stat", "expiry"} /\ answer'[r] # 201
          /\ \A q \in Requests \ {r} : stage'[q] = stage[q] /\ answer'[q] = answer[q]
      BY <2>6, MovesOnly, AnswersOnly DEF StatBlob, Admitted, AdmittedOK
    <3>2. \A q \in Requests \ {r} : ask'[q] = ask[q] /\ on'[q] = on[q] /\ keyID'[q] = keyID[q]
      BY <2>6 DEF StatBlob, AskTypes
    <3> QED
      BY <2>6, <3>1, <3>2, QuietStep DEF StatBlob
  <2>7. ASSUME NEW r \in Requests, ReadExpiry(r) PROVE ServiceInv'
    <3>1. /\ stage[r] = "expiry" /\ stage'[r] \in {"stat"} /\ answer'[r] # 201
          /\ \A q \in Requests \ {r} : stage'[q] = stage[q] /\ answer'[q] = answer[q]
      BY <2>7, MovesOnly, AnswersOnly DEF ReadExpiry, Admitted, AdmittedOK
    <3>2. \A q \in Requests \ {r} : ask'[q] = ask[q] /\ on'[q] = on[q] /\ keyID'[q] = keyID[q]
      BY <2>7 DEF ReadExpiry, AskTypes
    <3> QED
      BY <2>7, <3>1, <3>2, QuietStep DEF ReadExpiry
  <2>8. ASSUME NEW r \in Requests, Report(r) PROVE ServiceInv'
    <3>1. /\ stage[r] = "stat" /\ stage'[r] \in {"done"} /\ answer'[r] # 201
          /\ \A q \in Requests \ {r} : stage'[q] = stage[q] /\ answer'[q] = answer[q]
      BY <2>8, MovesOnly, AnswersOnly DEF Report, Admitted, AdmittedOK
    <3>2. \A q \in Requests \ {r} : ask'[q] = ask[q] /\ on'[q] = on[q] /\ keyID'[q] = keyID[q]
      BY <2>8 DEF Report, AskTypes
    <3> QED
      BY <2>8, <3>1, <3>2, QuietStep DEF Report
  <2>9. ASSUME NEW r \in Requests, AdmitStats(r) PROVE ServiceInv'
    <3>1. /\ stage[r] = "admit" /\ stage'[r] \in {"lock", "done"} /\ answer'[r] # 201
          /\ \A q \in Requests \ {r} : stage'[q] = stage[q] /\ answer'[q] = answer[q]
      BY <2>9, MovesOnly, AnswersOnly DEF AdmitStats, Admitted, AdmittedOK
    <3>2. \A q \in Requests \ {r} : ask'[q] = ask[q] /\ on'[q] = on[q] /\ keyID'[q] = keyID[q]
      BY <2>9 DEF AdmitStats, AskTypes
    <3> QED
      BY <2>9, <3>1, <3>2, QuietStep DEF AdmitStats
  <2>10. ASSUME NEW r \in Requests, ListShard(r) PROVE ServiceInv'
    <3>1. stage[r] = "list" /\ answer[r] # 201
      BY <2>10 DEF ListShard, Admitted, AdmittedOK
    <3> QED
      BY <2>10, <3>1, QuietStep DEF ListShard
  <2>11. ASSUME NEW r \in Requests, AdmitDelete(r) PROVE ServiceInv'
    <3>1. /\ stage[r] = "admit" /\ stage'[r] \in {"blob", "done"} /\ answer'[r] # 201
          /\ \A q \in Requests \ {r} : stage'[q] = stage[q] /\ answer'[q] = answer[q]
      BY <2>11, MovesOnly, AnswersOnly DEF AdmitDelete, Admitted, AdmittedOK
    <3>2. /\ ask' = ask /\ keyID'[r] = Identify(Parsed[serving], ask[r].credentials)
          /\ \A q \in Requests \ {r} : on'[q] = on[q] /\ keyID'[q] = keyID[q]
      BY <2>11 DEF AdmitDelete, AskTypes
    <3>3. ask[r].chunk \in Requests
      BY DEF AskTypes, Asks
    <3>4. stage'[r] = "blob" => FoundByOwner(serving, ask[r].chunk, keyID'[r])
      BY <2>11, <3>1, <3>2, AnswersOnly DEF AdmitDelete
    <3>5. stage'[r] = "blob" => /\ file[ask[r].chunk] = "stored"
                               /\ keyID'[r] = keyID[ask[r].chunk]
      BY <3>4 DEF FoundByOwner, StoredIn, OwnsChunk
    <3>6. file[r] = "none"
      BY <3>1 DEF ServiceInv, Filed, FiledOK
    <3>7. stage'[r] = "blob" => ask[r].chunk # r /\ answer[ask[r].chunk] = 201
      BY <3>3, <3>5, <3>6 DEF ServiceInv, Filed, FiledOK
    <3> QED
      BY <2>11, <3>1, <3>2, <3>5, <3>7, QuietStep DEF AdmitDelete
  <2>12. ASSUME NEW r \in Requests, Room(r) PROVE ServiceInv'
    <3> DEFINE others == {q \in Requests : stage[q] \in InFlight}
    <3>0. \/ Moves(r, "room", "charge") /\ answer' = answer
          \/ Answers(r, "room", 507)
      BY <2>12 DEF Room
    <3>1. /\ stage[r] = "room" /\ stage'[r] \in {"charge", "done"} /\ answer'[r] # 201
          /\ answer[r] # 201
          /\ \A q \in Requests \ {r} : stage'[q] = stage[q] /\ answer'[q] = answer[q]
      BY <3>0, MovesOnly, AnswersOnly DEF Admitted, AdmittedOK
    <3>2. FiledOK(r)'
      BY <2>12, <3>1 DEF Room, ServiceInv, Filed, FiledOK
    <3>3. Filed' /\ DeletesOwn'
      BY <2>12, <3>1, <3>2, UploadStep DEF Room
    <3>4. Meet' /\ FloorHeldAlone'
      <4>1. PICK measured \in BOOLEAN :
               /\ Parsed[on[r]].storage.minFree <= 0 => measured
               /\ IF HasRoomFor(Parsed[on[r]], ask[r].length, measured)
                  THEN /\ Moves(r, "room", "charge")
                       /\ unguarded' = IF others = {} /\ measured THEN unguarded
                                       ELSE unguarded \cup others \cup {r}
                       /\ UNCHANGED answer
                  ELSE Answers(r, "room", 507) /\ UNCHANGED unguarded
        BY <2>12 DEF Room
      <4>2. CASE HasRoomFor(Parsed[on[r]], ask[r].length, measured)
        <5>1. unguarded' = IF others = {} /\ measured THEN unguarded
                           ELSE unguarded \cup others \cup {r}
          BY <4>1, <4>2
        <5>2. \A q \in Requests : stage'[q] \in InFlight => q = r \/ q \in others
          BY <3>1
        <5>3. Meet'
          BY <5>1, <5>2 DEF ServiceInv, Meet
        <5>4. ASSUME NEW q \in Requests \ unguarded', stage'[q] \in InFlight,
                     Parsed[on[q]].storage.minFree > 0
              PROVE  free - (ask[q].length - size[q]) >= Parsed[on[q]].storage.minFree
          <6>1. CASE q = r
            <7>1. size[r] = 0
              BY <3>1 DEF ServiceInv, Filed, FiledOK
            <7>2. Accepted(r)
              BY <3>1 DEF Admitted, AdmittedOK
            <7>3. Parsed[on[r]].storage.minFree \in Nat /\ ask[r].length \in Int /\ free \in Nat
              BY <7>2, ParsedTypes DEF Accepted, UploadTypes
            <7>4. measured
              BY <5>1, <5>4, <6>1
            <7> QED
              BY <4>2, <5>4, <6>1, <7>1, <7>3, <7>4 DEF HasRoomFor
          <6>2. CASE q # r
            <7>1. q \in others /\ q \notin unguarded'
              BY <5>2, <5>4, <6>2
            <7>2. others = {} /\ measured
              BY <5>1, <7>1
            <7> QED
              BY <7>1, <7>2
          <6> QED
            BY <6>1, <6>2
        <5>5. FloorHeldAlone'
          BY <2>12, <5>4 DEF Room, FloorHeldAlone
        <5> QED
          BY <5>3, <5>5
      <4>3. CASE ~ HasRoomFor(Parsed[on[r]], ask[r].length, measured)
        <5>1. /\ \A q \in Requests : stage'[q] \in InFlight => stage[q] \in InFlight
              /\ UNCHANGED unguarded
          BY <3>1, <4>1, <4>3, AnswersOnly DEF InFlight
        <5> QED
          BY <2>12, <5>1, FloorRises DEF Room, UploadTypes
      <4> QED
        BY <4>2, <4>3
    <3> QED
      BY <3>3, <3>4 DEF ServiceInv
  <2>13. ASSUME NEW r \in Requests, Charge(r) PROVE ServiceInv'
    <3>1. /\ stage[r] = "charge" /\ stage'[r] \in {"body", "done"} /\ answer[r] # 201
          /\ \A q \in Requests \ {r} : /\ stage'[q] = stage[q] /\ answer'[q] = answer[q]
                                        /\ file'[q] = file[q] /\ size'[q] = size[q]
                                        /\ ttl'[q] = ttl[q]
      BY <2>13, MovesOnly, AnswersOnly DEF Charge, Admitted, AdmittedOK, UploadTypes
    <3>2. Accepted(r)
      BY <3>1 DEF Admitted, AdmittedOK, InFlight
    <3>3. /\ ask[r].length \in Nat /\ on[r] \in Stores
          /\ size[r] \in Nat /\ size'[r] \in Nat /\ free \in Nat /\ free' \in Nat
      BY <3>2, ParsedTypes DEF Accepted, UploadTypes
    <3>4. FiledOK(r)'
      <4>1. file[r] = "none" /\ size[r] = 0
        BY <3>1 DEF ServiceInv, Filed, FiledOK
      <4>2. CASE stage'[r] = "done"
        <5>1. answer'[r] = 429 /\ file' = file /\ size' = size
          BY <2>13, <3>1, <4>2, MovesOnly, AnswersOnly DEF Charge
        <5> QED
          BY <4>1, <4>2, <5>1 DEF FiledOK
      <4>3. CASE stage'[r] = "body"
        <5>1. /\ answer' = answer /\ size' = size /\ file'[r] = "temp" /\ ask' = ask /\ on' = on
              /\ ttl'[r] = ClampTTL(Parsed[on[r]], requestedTTL(ask[r]))
          BY <2>13, <4>3, AnswersOnly DEF Charge, UploadTypes
        <5>2. ask[r] \in Asks
          BY DEF AskTypes
        <5>3. Granted(r)'
          BY <3>3, <5>1, <5>2, GrantedTTL DEF Granted
        <5> QED
          BY <3>1, <3>3, <4>1, <4>3, <5>1, <5>3 DEF FiledOK
      <4> QED
        BY <3>1, <4>2, <4>3
    <3>5. Filed' /\ DeletesOwn'
      BY <2>13, <3>1, <3>4, UploadStep DEF Charge
    <3>6. Meet' /\ FloorHeldAlone'
      BY <2>13, <3>1, <3>3, FloorKept DEF Charge, InFlight
    <3> QED
      BY <3>5, <3>6 DEF ServiceInv
  <2>14. ASSUME NEW r \in Requests, BodySlice(r) PROVE ServiceInv'
    <3>1. /\ stage[r] = "body" /\ stage'[r] \in {"body"} /\ answer[r] # 201
          /\ \A q \in Requests \ {r} : /\ stage'[q] = stage[q] /\ answer'[q] = answer[q]
                                        /\ file'[q] = file[q] /\ size'[q] = size[q]
                                        /\ ttl'[q] = ttl[q]
      BY <2>14, MovesOnly, AnswersOnly DEF BodySlice, Admitted, AdmittedOK, UploadTypes
    <3>2. Accepted(r)
      BY <3>1 DEF Admitted, AdmittedOK, InFlight
    <3>3. /\ ask[r].length \in Nat /\ on[r] \in Stores
          /\ size[r] \in Nat /\ size'[r] \in Nat /\ free \in Nat /\ free' \in Nat
      BY <3>2, ParsedTypes DEF Accepted, UploadTypes
    <3>4. FiledOK(r)'
      <4>1. /\ size'[r] = size[r] + 1 /\ size[r] < ask[r].length
            /\ UNCHANGED <<stage, ask, on, answer, ttl, file>>
        BY <2>14 DEF BodySlice, UploadTypes
      <4>2. file[r] = "temp" /\ Granted(r)
        BY <3>1 DEF ServiceInv, Filed, FiledOK
      <4>3. Granted(r)'
        BY <4>1, <4>2 DEF Granted
      <4> QED
        BY <3>1, <3>3, <4>1, <4>2, <4>3 DEF FiledOK
    <3>5. Filed' /\ DeletesOwn'
      BY <2>14, <3>1, <3>4, UploadStep DEF BodySlice
    <3>6. Meet' /\ FloorHeldAlone'
      BY <2>14, <3>1, <3>3, FloorKept DEF BodySlice, InFlight, UploadTypes
    <3> QED
      BY <3>5, <3>6 DEF ServiceInv
  <2>15. ASSUME NEW r \in Requests, BodyEnds(r) PROVE ServiceInv'
    <3>1. /\ stage[r] = "body" /\ stage'[r] \in {"sidecar"} /\ answer[r] # 201
          /\ \A q \in Requests \ {r} : /\ stage'[q] = stage[q] /\ answer'[q] = answer[q]
                                        /\ file'[q] = file[q] /\ size'[q] = size[q]
                                        /\ ttl'[q] = ttl[q]
      BY <2>15, MovesOnly, AnswersOnly DEF BodyEnds, uploadVars, Admitted, AdmittedOK, UploadTypes
    <3>2. Accepted(r)
      BY <3>1 DEF Admitted, AdmittedOK, InFlight
    <3>3. /\ ask[r].length \in Nat /\ on[r] \in Stores
          /\ size[r] \in Nat /\ size'[r] \in Nat /\ free \in Nat /\ free' \in Nat
      BY <3>2, ParsedTypes DEF Accepted, UploadTypes
    <3>4. FiledOK(r)'
      <4>1. size[r] = ask[r].length /\ size[r] > 0 /\ UNCHANGED <<ask, on, answer, ttl, file, size>>
        BY <2>15, <3>3 DEF BodyEnds, uploadVars
      <4> QED
        BY <3>1, <3>3, <4>1 DEF ServiceInv, Filed, FiledOK, Granted
    <3>5. Filed' /\ DeletesOwn'
      BY <2>15, <3>1, <3>4, UploadStep DEF BodyEnds, uploadVars
    <3>6. Meet' /\ FloorHeldAlone'
      BY <2>15, <3>1, <3>3, FloorKept DEF BodyEnds, InFlight, uploadVars
    <3> QED
      BY <3>5, <3>6 DEF ServiceInv
  <2>16. ASSUME NEW r \in Requests, WriteSidecar(r) PROVE ServiceInv'
    <3>1. /\ stage[r] = "sidecar" /\ stage'[r] \in {"rename"} /\ answer[r] # 201
          /\ \A q \in Requests \ {r} : /\ stage'[q] = stage[q] /\ answer'[q] = answer[q]
                                        /\ file'[q] = file[q] /\ size'[q] = size[q]
                                        /\ ttl'[q] = ttl[q]
      BY <2>16, MovesOnly, AnswersOnly DEF WriteSidecar, Admitted, AdmittedOK, UploadTypes
    <3>2. Accepted(r)
      BY <3>1 DEF Admitted, AdmittedOK, InFlight
    <3>3. /\ ask[r].length \in Nat /\ on[r] \in Stores
          /\ size[r] \in Nat /\ size'[r] \in Nat /\ free \in Nat /\ free' \in Nat
      BY <3>2, ParsedTypes DEF Accepted, UploadTypes
    <3>4. FiledOK(r)'
      <4>1. file'[r] = "claimed" /\ UNCHANGED <<ask, on, answer, ttl, size>>
        BY <2>16 DEF WriteSidecar, UploadTypes
      <4>2. size[r] = ask[r].length /\ size[r] > 0 /\ Granted(r)
        BY <3>1 DEF ServiceInv, Filed, FiledOK
      <4> QED
        BY <3>1, <3>3, <4>1, <4>2 DEF FiledOK, Granted
    <3>5. Filed' /\ DeletesOwn'
      BY <2>16, <3>1, <3>4, UploadStep DEF WriteSidecar
    <3>6. Meet' /\ FloorHeldAlone'
      BY <2>16, <3>1, <3>3, FloorKept DEF WriteSidecar, InFlight
    <3> QED
      BY <3>5, <3>6 DEF ServiceInv
  <2>17. ASSUME NEW r \in Requests, Publish(r) PROVE ServiceInv'
    <3>1. /\ stage[r] = "rename" /\ stage'[r] \in {"done"} /\ answer[r] # 201
          /\ \A q \in Requests \ {r} : /\ stage'[q] = stage[q] /\ answer'[q] = answer[q]
                                        /\ file'[q] = file[q] /\ size'[q] = size[q]
                                        /\ ttl'[q] = ttl[q]
      BY <2>17, MovesOnly, AnswersOnly DEF Publish, Admitted, AdmittedOK, UploadTypes
    <3>2. Accepted(r)
      BY <3>1 DEF Admitted, AdmittedOK, InFlight
    <3>3. /\ ask[r].length \in Nat /\ on[r] \in Stores
          /\ size[r] \in Nat /\ size'[r] \in Nat /\ free \in Nat /\ free' \in Nat
      BY <3>2, ParsedTypes DEF Accepted, UploadTypes
    <3>4. FiledOK(r)'
      <4>1. file'[r] = "stored" /\ answer'[r] = 201 /\ UNCHANGED <<ask, on, ttl, size>>
        BY <2>17, AnswersOnly DEF Publish, UploadTypes
      <4>2. size[r] = ask[r].length /\ size[r] > 0 /\ Granted(r)
        BY <3>1 DEF ServiceInv, Filed, FiledOK
      <4> QED
        BY <3>1, <3>3, <4>1, <4>2 DEF FiledOK, Granted
    <3>5. Filed' /\ DeletesOwn'
      BY <2>17, <3>1, <3>4, UploadStep DEF Publish
    <3>6. Meet' /\ FloorHeldAlone'
      BY <2>17, <3>1, <3>3, FloorKept DEF Publish, InFlight
    <3> QED
      BY <3>5, <3>6 DEF ServiceInv
  <2>18. ASSUME NEW r \in Requests, EmptyBody(r) PROVE ServiceInv'
    BY <2>18, IngestFailsKeeps DEF EmptyBody
  <2>19. ASSUME NEW r \in Requests, BodyFallsShort(r) PROVE ServiceInv'
    BY <2>19, IngestFailsKeeps DEF BodyFallsShort
  <2>20. ASSUME NEW r \in Requests, StorageFails(r) PROVE ServiceInv'
    BY <2>20, IngestFailsKeeps DEF StorageFails
  <2>21. ASSUME NEW r \in Requests, Refund(r) PROVE ServiceInv'
    <3>1. /\ stage[r] = "refund" /\ stage'[r] = "done" /\ answer[r] # 201
          /\ \A q \in Requests \ {r} : stage'[q] = stage[q]
      BY <2>21, MovesOnly DEF Refund, Admitted, AdmittedOK
    <3>2. FiledOK(r)'
      BY <2>21, <3>1 DEF Refund, ServiceInv, Filed, FiledOK
    <3>3. Filed' /\ DeletesOwn'
      BY <2>21, <3>1, <3>2, UploadStep DEF Refund
    <3>4. Meet' /\ FloorHeldAlone'
      BY <2>21, <3>1, FloorRises DEF Refund, InFlight, UploadTypes
    <3> QED
      BY <3>3, <3>4 DEF ServiceInv
  <2>22. ASSUME NEW r \in Requests, DeleteBlob(r) PROVE ServiceInv'
    <3> DEFINE c == ask[r].chunk
    <3>1. /\ stage[r] = "blob" /\ stage'[r] = "meta" /\ answer[r] # 201
          /\ \A q \in Requests \ {r} : stage'[q] = stage[q]
      BY <2>22, MovesOnly DEF DeleteBlob, Admitted, AdmittedOK
    <3>2. c \in Requests /\ answer[c] = 201 /\ keyID[c] = keyID[r] /\ c # r
      BY <3>1 DEF ServiceInv, DeletesOwn, AskTypes, Asks
    <3>3. file[c] \in {"stored", "husk", "orphan", "gone"}
      BY <3>2 DEF ServiceInv, Filed, FiledOK
    <3>4. /\ file'[c] \in {"husk", "gone"} /\ free' >= free
          /\ \A q \in Requests \ {c} : file'[q] = file[q]
      BY <2>22, <3>2, <3>3 DEF DeleteBlob, BlobGoes, HasBlob, UploadTypes
    <3>5. UNCHANGED <<ask, on, answer, keyID, ttl, size, unguarded>>
      BY <2>22 DEF DeleteBlob
    <3>6. ASSUME NEW q \in Requests PROVE FiledOK(q)'
      <4>1. FiledOK(q)
        BY DEF ServiceInv, Filed
      <4>2. q # r => stage'[q] = stage[q]
        BY <3>1
      <4>3. CASE q = c
        <5>1. stage'[q] = "done" /\ file'[q] \in {"husk", "gone"}
          BY <3>2, <3>4, <4>2, <4>3 DEF Admitted, AdmittedOK
        <5>2. answer[q] = 201
          BY <3>2, <4>3
        <5> QED
          BY <3>5, <4>1, <5>1, <5>2 DEF FiledOK, Granted
      <4>4. CASE q # c
        <5>1. file'[q] = file[q]
          BY <3>4, <4>4
        <5> QED
          BY <3>1, <3>5, <4>1, <4>2, <5>1 DEF FiledOK, Granted
      <4> QED
        BY <4>3, <4>4
    <3>7. DeletesOwn'
      <4>1. \A q \in Requests : ask[q].chunk \in Requests
        BY DEF AskTypes, Asks
      <4> QED
        BY <3>1, <3>2, <3>4, <3>5, <4>1 DEF ServiceInv, DeletesOwn
    <3>8. Meet' /\ FloorHeldAlone'
      BY <3>1, <3>4, <3>5, FloorRises DEF InFlight, UploadTypes
    <3> QED
      BY <3>6, <3>7, <3>8 DEF ServiceInv, Filed
  <2>23. ASSUME NEW r \in Requests, DeleteMeta(r) PROVE ServiceInv'
    <3> DEFINE c == ask[r].chunk
    <3>0. PICK code \in Left : Answers(r, "meta", code)
      BY <2>23 DEF DeleteMeta, Left
    <3>1. /\ stage[r] = "meta" /\ stage'[r] = "done" /\ answer[r] # 201 /\ answer'[r] # 201
          /\ \A q \in Requests \ {r} : stage'[q] = stage[q] /\ answer'[q] = answer[q]
      BY <3>0, AnswersOnly DEF Left, Admitted, AdmittedOK
    <3>2. c \in Requests /\ answer[c] = 201 /\ stage[c] = "done" /\ c # r
      BY <3>1 DEF ServiceInv, DeletesOwn, AskTypes, Asks, Admitted, AdmittedOK
    <3>3. file'[c] \in {"orphan", "gone"} /\ \A q \in Requests \ {c} : file'[q] = file[q]
      BY <2>23, <3>2 DEF DeleteMeta, UploadTypes
    <3>4. UNCHANGED <<ask, on, keyID, ttl, size, unguarded, free>>
      BY <2>23 DEF DeleteMeta
    <3>5. ASSUME NEW q \in Requests PROVE FiledOK(q)'
      <4>1. FiledOK(q)
        BY DEF ServiceInv, Filed
      <4>2. CASE q = r
        BY <3>1, <3>2, <3>3, <3>4, <4>1, <4>2 DEF FiledOK, Granted
      <4>3. CASE q = c
        BY <3>1, <3>2, <3>3, <3>4, <4>1, <4>3 DEF FiledOK, Granted
      <4>4. CASE q # r /\ q # c
        BY <3>1, <3>3, <3>4, <4>1, <4>4 DEF FiledOK, Granted
      <4> QED
        BY <4>2, <4>3, <4>4
    <3>6. DeletesOwn'
      <4>1. \A q \in Requests : ask[q].chunk \in Requests
        BY DEF AskTypes, Asks
      <4> QED
        BY <3>1, <3>2, <3>3, <3>4, <4>1 DEF ServiceInv, DeletesOwn
    <3>7. Meet' /\ FloorHeldAlone'
      BY <3>1, <3>4, FloorRises DEF InFlight, UploadTypes
    <3> QED
      BY <3>5, <3>6, <3>7 DEF ServiceInv, Filed
  <2>24. ASSUME NEW c \in Requests, SweepsBlob(c) PROVE ServiceInv'
    <3>1. file[c] = "stored" /\ file'[c] = "husk" /\ \A q \in Requests \ {c} : file'[q] = file[q]
      BY <2>24 DEF SweepsBlob, BlobGoes, HasBlob, UploadTypes
    <3>2. UNCHANGED <<stage, ask, on, answer, keyID, ttl, size, unguarded>> /\ free' >= free
      BY <2>24 DEF SweepsBlob, BlobGoes, UploadTypes
    <3>3. answer[c] = 201 /\ stage[c] = "done"
      BY <3>1 DEF ServiceInv, Filed, FiledOK, Admitted, AdmittedOK
    <3>4. ASSUME NEW q \in Requests PROVE FiledOK(q)'
      <4>1. FiledOK(q)
        BY DEF ServiceInv, Filed
      <4> QED
        BY <3>1, <3>2, <3>3, <4>1 DEF FiledOK, Granted
    <3>5. DeletesOwn'
      <4>1. \A q \in Requests : ask[q].chunk \in Requests
        BY DEF AskTypes, Asks
      <4> QED
        BY <3>1, <3>2, <4>1 DEF ServiceInv, DeletesOwn
    <3>6. Meet' /\ FloorHeldAlone'
      BY <3>2, FloorRises DEF UploadTypes
    <3> QED
      BY <3>4, <3>5, <3>6 DEF ServiceInv, Filed
  <2>25. ASSUME NEW c \in Requests, SweepsMeta(c) PROVE ServiceInv'
    <3>1. file[c] = "husk" /\ file'[c] = "gone" /\ \A q \in Requests \ {c} : file'[q] = file[q]
      BY <2>25 DEF SweepsMeta, BlobGoes, UploadTypes
    <3>2. UNCHANGED <<stage, ask, on, answer, keyID, ttl, size, unguarded>> /\ free' >= free
      BY <2>25 DEF SweepsMeta, BlobGoes, UploadTypes
    <3>3. answer[c] = 201 /\ stage[c] = "done"
      BY <3>1 DEF ServiceInv, Filed, FiledOK, Admitted, AdmittedOK
    <3>4. ASSUME NEW q \in Requests PROVE FiledOK(q)'
      <4>1. FiledOK(q)
        BY DEF ServiceInv, Filed
      <4> QED
        BY <3>1, <3>2, <3>3, <4>1 DEF FiledOK, Granted
    <3>5. DeletesOwn'
      <4>1. \A q \in Requests : ask[q].chunk \in Requests
        BY DEF AskTypes, Asks
      <4> QED
        BY <3>1, <3>2, <4>1 DEF ServiceInv, DeletesOwn
    <3>6. Meet' /\ FloorHeldAlone'
      BY <3>2, FloorRises DEF UploadTypes
    <3> QED
      BY <3>4, <3>5, <3>6 DEF ServiceInv, Filed
  <2>26. CASE Reload \/ Ticks \/ (\E c \in Requests : Misreads(c)) \/ UNCHANGED serviceVars
    <3>1. UNCHANGED <<stage, ask, on, answer, keyID, free, ttl, file, size, unguarded>>
      BY <2>26 DEF Reload, Ticks, Misreads, serviceVars, uploadVars
    <3>2. Filed'
      BY <3>1 DEF ServiceInv, Filed, FiledOK, Granted
    <3>3. DeletesOwn' /\ Meet' /\ FloorHeldAlone'
      BY <3>1 DEF ServiceInv, DeletesOwn, Meet, FloorHeldAlone
    <3> QED
      BY <3>2, <3>3 DEF ServiceInv
  <2>27. ASSUME NEW r \in Requests, ChargeFails(r) PROVE ServiceInv'
    <3>1. /\ stage[r] = "charge" /\ stage'[r] = "done" /\ answer[r] # 201 /\ answer'[r] = 429
          /\ \A q \in Requests \ {r} : stage'[q] = stage[q] /\ answer'[q] = answer[q]
          /\ UNCHANGED <<ask, on, keyID, file, size, ttl, free, unguarded>>
      BY <2>27, AnswersOnly DEF ChargeFails, Admitted, AdmittedOK
    <3>2. FiledOK(r)'
      BY <3>1 DEF ServiceInv, Filed, FiledOK
    <3>3. Filed' /\ DeletesOwn'
      BY <3>1, <3>2, UploadStep
    <3>4. Meet' /\ FloorHeldAlone'
      BY <3>1, FloorRises DEF InFlight, UploadTypes
    <3> QED
      BY <3>3, <3>4 DEF ServiceInv
  <2>28. ASSUME NEW r \in Requests, RefundFails(r) PROVE ServiceInv'
    <3>1. /\ stage[r] = "refund" /\ stage'[r] = "done" /\ answer[r] # 201
          /\ \A q \in Requests \ {r} : stage'[q] = stage[q]
          /\ UNCHANGED <<ask, on, answer, keyID, file, size, ttl, free, unguarded>>
      BY <2>28, MovesOnly DEF RefundFails, Admitted, AdmittedOK
    <3>2. FiledOK(r)'
      BY <3>1 DEF ServiceInv, Filed, FiledOK
    <3>3. Filed' /\ DeletesOwn'
      BY <3>1, <3>2, UploadStep
    <3>4. Meet' /\ FloorHeldAlone'
      BY <3>1, FloorRises DEF InFlight, UploadTypes
    <3> QED
      BY <3>3, <3>4 DEF ServiceInv
  <2>29. ASSUME NEW r \in Requests, BodyHasNoRoom(r) PROVE ServiceInv'
    BY <2>29, IngestFailsKeeps DEF BodyHasNoRoom
  <2>30. ASSUME NEW r \in Requests, MetaFails(r) PROVE ServiceInv'
    <3>1. /\ stage[r] = "admit" /\ stage'[r] = "done" /\ answer'[r] # 201
          /\ \A q \in Requests \ {r} : stage'[q] = stage[q] /\ answer'[q] = answer[q]
      BY <2>30, AnswersOnly DEF MetaFails
    <3>2. \A q \in Requests \ {r} : ask'[q] = ask[q] /\ on'[q] = on[q] /\ keyID'[q] = keyID[q]
      BY <2>30 DEF MetaFails, AskTypes
    <3> QED
      BY <2>30, <3>1, <3>2, QuietStep DEF MetaFails
  <2>31. ASSUME NEW r \in Requests, ListShardFails(r) \/ StatBlobFails(r) PROVE ServiceInv'
    <3>1. /\ stage[r] \in {"list", "stat"} /\ answer[r] # 201
          /\ UNCHANGED <<stage, ask, on, answer, keyID, uploadVars>>
      BY <2>31 DEF ListShardFails, StatBlobFails, Admitted, AdmittedOK
    <3> QED
      BY <3>1, QuietStep
  <2>32. ASSUME NEW r \in Requests, ReadExpiryFails(r) PROVE ServiceInv'
    <3>1. /\ stage[r] = "expiry" /\ stage'[r] = "stat" /\ answer[r] # 201
          /\ \A q \in Requests \ {r} : stage'[q] = stage[q]
          /\ UNCHANGED <<ask, on, answer, keyID, uploadVars>>
      BY <2>32, MovesOnly DEF ReadExpiryFails, Admitted, AdmittedOK
    <3> QED
      BY <3>1, QuietStep
  <2>33. ASSUME NEW r \in Requests, DeleteBlobFails(r) \/ DeleteMetaFails(r) PROVE ServiceInv'
    <3>1. /\ stage[r] \in {"blob", "meta"} /\ stage'[r] \in {"meta", "done"}
          /\ answer[r] # 201 /\ answer'[r] # 201
          /\ \A q \in Requests \ {r} : stage'[q] = stage[q] /\ answer'[q] = answer[q]
      <4>1. CASE DeleteBlobFails(r)
        BY <4>1, MovesOnly DEF DeleteBlobFails, Admitted, AdmittedOK
      <4>2. CASE DeleteMetaFails(r)
        BY <4>2, AnswersOnly DEF DeleteMetaFails, Left, Admitted, AdmittedOK
      <4> QED
        BY <2>33, <4>1, <4>2
    <3>2. UNCHANGED <<ask, on, keyID, ttl, file, size, free, unguarded>>
      BY <2>33 DEF DeleteBlobFails, DeleteMetaFails, uploadVars
    <3>3. ASSUME NEW q \in Requests PROVE FiledOK(q)'
      <4>1. FiledOK(q)
        BY DEF ServiceInv, Filed
      <4>2. CASE q = r
        BY <3>1, <3>2, <4>1, <4>2 DEF FiledOK, Granted
      <4>3. CASE q # r
        BY <3>1, <3>2, <4>1, <4>3 DEF FiledOK, Granted
      <4> QED
        BY <4>2, <4>3
    <3>4. DeletesOwn'
      <4>1. \A q \in Requests : ask[q].chunk \in Requests
        BY DEF AskTypes, Asks
      <4> QED
        BY <3>1, <3>2, <4>1 DEF ServiceInv, DeletesOwn
    <3>5. Meet' /\ FloorHeldAlone'
      BY <3>1, <3>2, FloorRises DEF InFlight, UploadTypes
    <3> QED
      BY <3>3, <3>4, <3>5 DEF ServiceInv, Filed
  <2>34. ASSUME NEW c \in Requests, SweepLeavesBlob(c) PROVE ServiceInv'
    <3>1. file[c] = "stored" /\ file'[c] = "orphan" /\ \A q \in Requests \ {c} : file'[q] = file[q]
      BY <2>34 DEF SweepLeavesBlob, UploadTypes
    <3>2. UNCHANGED <<stage, ask, on, answer, keyID, ttl, size, unguarded, free>>
      BY <2>34 DEF SweepLeavesBlob
    <3>3. answer[c] = 201 /\ stage[c] = "done"
      BY <3>1 DEF ServiceInv, Filed, FiledOK, Admitted, AdmittedOK
    <3>4. ASSUME NEW q \in Requests PROVE FiledOK(q)'
      <4>1. FiledOK(q)
        BY DEF ServiceInv, Filed
      <4> QED
        BY <3>1, <3>2, <3>3, <4>1 DEF FiledOK, Granted
    <3>5. DeletesOwn'
      <4>1. \A q \in Requests : ask[q].chunk \in Requests
        BY DEF AskTypes, Asks
      <4> QED
        BY <3>1, <3>2, <4>1 DEF ServiceInv, DeletesOwn
    <3>6. Meet' /\ FloorHeldAlone'
      BY <3>2, FloorRises DEF UploadTypes
    <3> QED
      BY <3>4, <3>5, <3>6 DEF ServiceInv, Filed
  <2> QED
    BY <2>1, <2>2, <2>3, <2>4, <2>5, <2>6, <2>7, <2>8, <2>9, <2>10, <2>11, <2>12, <2>13, <2>14,
       <2>15, <2>16, <2>17, <2>18, <2>19, <2>20, <2>21, <2>22, <2>23, <2>24, <2>25, <2>26, <2>27,
       <2>28, <2>29, <2>30, <2>31, <2>32, <2>33, <2>34
       DEF ServiceNext, ServerStep, Failure, Sweep
<1> QED
  BY <1>1, <1>2, ServiceTypeCorrect, PTL DEF ServiceSpec

(* The floor under the free space holds for an upload that had the volume to  *)
(* itself and could be measured, from the one look HasRoomFor takes to the    *)
(* rename.                                                                   *)
THEOREM FloorAlone == ServiceSpec => []FloorHeldAlone
<1>1. ServiceInv => FloorHeldAlone
  BY DEF ServiceInv
<1> QED
  BY <1>1, ServiceInvariant, PTL

(* What a 201 means.                                                         *)
THEOREM AsAsked == ServiceSpec => []StoredAsAsked
<1>1. Admitted /\ ServiceInv => StoredAsAsked
  <2> SUFFICES ASSUME Admitted, ServiceInv, NEW r \in Requests, answer[r] = 201
               PROVE  /\ ActsAs(Configs[on[r]], ask[r].credentials, keyID[r])
                      /\ size[r] = ask[r].length
                      /\ size[r] \in 1..Parsed[on[r]].storage.maxChunkSize
                      /\ Granted(r)
    BY DEF StoredAsAsked, Granted
  <2>1. Accepted(r)
    BY DEF Admitted, AdmittedOK
  <2>2. size[r] = ask[r].length /\ size[r] > 0 /\ Granted(r)
    BY DEF ServiceInv, Filed, FiledOK
  <2>3. Parsed[on[r]].storage.maxChunkSize \in Nat
    BY <2>1, ParsedTypes DEF Accepted
  <2> QED
    BY <2>1, <2>2, <2>3 DEF Accepted
<1> QED
  BY <1>1, ServiceTypeCorrect, ServiceInvariant, PTL

(* Before its time a blob goes only by a DELETE of its owner, or by a sweep    *)
(* that could not read when it expires.                                      *)
THEOREM OnlyItsOwner == ServiceSpec => OnlyOwnerDeletes
<1> DEFINE Rightly(c) ==
        \/ IsExpired(c, clock)
        \/ c \in misread
        \/ \E r \in Requests :
              /\ stage[r] \in {"blob", "meta"} /\ ask[r].chunk = c
              /\ keyID[c] # AnonymousKeyID
              /\ ActsAs(Configs[on[r]], ask[r].credentials, keyID[c])
<1>1. ASSUME ServiceTypeOK, Admitted, ServiceInv, [ServiceNext]_serviceVars,
             NEW c \in Requests, file[c] = "stored", file'[c] # "stored"
      PROVE  Rightly(c)
  <2> USE <1>1
  <2> USE DEF ServiceTypeOK, worldVars, askVars, reportVars
  <2>1. answer[c] = 201 /\ stage[c] = "done"
    BY DEF ServiceInv, Filed, FiledOK, Admitted, AdmittedOK
  <2>2. ASSUME NEW r \in Requests, stage[r] # "done",
               \A q \in Requests \ {r} : file'[q] = file[q]
        PROVE  Rightly(c)
    BY <2>1, <2>2
  <2>3. ASSUME NEW r \in Requests,
               \/ Charge(r) \/ EmptyBody(r) \/ BodyFallsShort(r) \/ BodyHasNoRoom(r)
               \/ StorageFails(r) \/ WriteSidecar(r) \/ Publish(r)
        PROVE  Rightly(c)
    <3>1. stage[r] # "done"
      BY <2>3, MovesOnly, AnswersOnly
         DEF Charge, EmptyBody, BodyFallsShort, BodyHasNoRoom, StorageFails, IngestFails,
             WriteSidecar, Publish
    <3>2. \A q \in Requests \ {r} : file'[q] = file[q]
      BY <2>3
         DEF Charge, EmptyBody, BodyFallsShort, BodyHasNoRoom, StorageFails, IngestFails,
             WriteSidecar, Publish, UploadTypes
    <3> QED
      BY <2>2, <3>1, <3>2
  <2>4. ASSUME NEW r \in Requests, DeleteBlob(r) \/ DeleteMeta(r) PROVE Rightly(c)
    <3>1. stage[r] \in {"blob", "meta"}
      BY <2>4, MovesOnly, AnswersOnly DEF DeleteBlob, DeleteMeta, Left
    <3>2. ask[r].chunk = c
      BY <2>4 DEF DeleteBlob, DeleteMeta, BlobGoes, UploadTypes
    <3>3. keyID[c] = keyID[r]
      BY <3>1, <3>2 DEF ServiceInv, DeletesOwn
    <3>4. keyID[r] # AnonymousKeyID /\ ActsAs(Configs[on[r]], ask[r].credentials, keyID[r])
      BY <3>1 DEF Admitted, AdmittedOK
    <3> QED
      BY <3>1, <3>2, <3>3, <3>4
  <2>6. ASSUME NEW d \in Requests, SweepsBlob(d) \/ SweepsMeta(d) \/ SweepLeavesBlob(d)
        PROVE  Rightly(c)
    <3>1. d = c
      BY <2>6 DEF SweepsBlob, SweepsMeta, SweepLeavesBlob, BlobGoes, UploadTypes
    <3> QED
      BY <2>6, <3>1 DEF SweepsBlob, SweepsMeta, SweepLeavesBlob, Condemned
  <2>7. ASSUME NEW r \in Requests,
               \/ Asking(r) \/ NotInstalled(r) \/ AdmitUpload(r) \/ Room(r) \/ BodySlice(r)
               \/ BodyEnds(r) \/ Refund(r) \/ AdmitDelete(r) \/ AdmitStats(r) \/ Get(r)
               \/ ListShard(r) \/ Listed(r) \/ StatBlob(r) \/ ReadExpiry(r) \/ Report(r)
               \/ Failure(r)
        PROVE  Rightly(c)
    <3>1. file' = file
      BY <2>7
         DEF Failure, ChargeFails, RefundFails, MetaFails, DeleteBlobFails, DeleteMetaFails,
             ListShardFails, StatBlobFails, ReadExpiryFails,
             Asking, NotInstalled, AdmitUpload, Room, BodySlice, BodyEnds, Refund, AdmitDelete,
             AdmitStats, Get, ListShard, Listed, StatBlob, ReadExpiry, Report, uploadVars
    <3> QED
      BY <3>1
  <2>8. CASE Reload \/ Ticks \/ (\E d \in Requests : Misreads(d)) \/ UNCHANGED serviceVars
    BY <2>8 DEF Reload, Ticks, Misreads, serviceVars, uploadVars
  <2> QED
    BY <2>3, <2>4, <2>6, <2>7, <2>8 DEF ServiceNext, ServerStep, Sweep
<1>2. ASSUME ServiceTypeOK, Admitted, ServiceInv, [ServiceNext]_serviceVars
      PROVE  [\A c \in Requests : file[c] = "stored" /\ file'[c] # "stored" => Rightly(c)]_serviceVars
  BY <1>1, <1>2
<1> QED
  BY <1>2, ServiceTypeCorrect, ServiceInvariant, PTL DEF ServiceSpec, OnlyOwnerDeletes

-----------------------------------------------------------------------------
(* What /v1/stats tells. *)

\* The figures of a walk that began at t for the store of config g, as far as
\* it has come.
FiguresOK(w, g, t) ==
    /\ \A c \in w.before \cup w.holds : answer[c] = 201
    /\ w.before \cup w.listing \cup w.ids \cup w.holds \subseteq InStore(g)
    /\ w.before \cap StoredIn(g) \subseteq w.listing \cup w.ids \cup w.holds \cup w.unread
    /\ w.chunk \cup w.lapsed \subseteq w.holds
    /\ \A c \in w.lapsed : IsExpired(c, t) \/ ~HasSidecar(file[c]) \/ c \in w.unread
    /\ \A c \in w.holds \ (w.lapsed \cup w.chunk) : ~IsExpired(c, t)

WalkOK(r) ==
    /\ walker = r
    /\ FiguresOK(walk, on[r], asked[r])
    /\ stage[r] \in {"stat", "expiry"} => walk.listing = {}
    /\ stage[r] \in {"list", "stat"} => walk.chunk = {}

ReportInv ==
    /\ \A r \in Requests : stage[r] \in {"list", "stat", "expiry"} => WalkOK(r)
    /\ \A r \in Requests : stage[r] \in {"idle", "admit"} => on[r] = 0
    /\ cache.store > 0 =>
          /\ FiguresOK(cache.figures, cache.store, cache.at)
          /\ cache.figures.listing = {} /\ cache.figures.ids = {} /\ cache.figures.chunk = {}
    /\ \A r \in Requests : answer[r] = 200 => told[r] = on[r] /\ stage[r] = "done"

\* What a step leaves of every chunk that is stored or was.
Stays ==
    \A c \in Requests :
        /\ answer[c] = 201 =>
              /\ answer'[c] = 201 /\ expires'[c] = expires[c]
              /\ file'[c] = "stored" => file[c] = "stored"
              /\ HasSidecar(file'[c]) => HasSidecar(file[c])
        /\ on[c] > 0 => ask'[c] = ask[c] /\ on'[c] = on[c]

\* A request's own step touches neither another nor one that is answered.
LEMMA OwnStep ==
    ASSUME AskTypes, UploadTypes, NEW r \in Requests,
           \/ Asking(r) \/ NotInstalled(r) \/ AdmitUpload(r) \/ Room(r) \/ Charge(r)
           \/ BodySlice(r) \/ BodyEnds(r) \/ EmptyBody(r) \/ BodyFallsShort(r)
           \/ StorageFails(r) \/ WriteSidecar(r) \/ Publish(r) \/ Refund(r)
           \/ AdmitDelete(r) \/ AdmitStats(r) \/ Get(r) \/ ListShard(r) \/ Listed(r)
           \/ StatBlob(r) \/ ReadExpiry(r) \/ Report(r)
           \/ BodyHasNoRoom(r) \/ Failure(r)
    PROVE  /\ stage[r] # "done"
           /\ stage[r] \notin {"idle", "admit"} => ask'[r] = ask[r] /\ on'[r] = on[r]
           /\ \A q \in Requests \ {r} :
                 /\ answer'[q] = answer[q] /\ file'[q] = file[q] /\ expires'[q] = expires[q]
                 /\ ask'[q] = ask[q] /\ on'[q] = on[q]
<1> USE DEF AskTypes, UploadTypes, askVars, uploadVars, reportVars, worldVars
<1>1. CASE Asking(r) \/ NotInstalled(r)
  BY <1>1, MovesOnly, AnswersOnly DEF Asking, NotInstalled
<1>2. CASE AdmitUpload(r) \/ AdmitDelete(r) \/ AdmitStats(r)
  BY <1>2, MovesOnly, AnswersOnly DEF AdmitUpload, AdmitDelete, AdmitStats
<1>3. CASE Room(r) \/ Charge(r)
  BY <1>3, MovesOnly, AnswersOnly DEF Room, Charge
<1>4. CASE BodySlice(r) \/ BodyEnds(r)
  BY <1>4, MovesOnly DEF BodySlice, BodyEnds
<1>5. CASE EmptyBody(r) \/ BodyFallsShort(r) \/ BodyHasNoRoom(r) \/ StorageFails(r)
  BY <1>5, MovesOnly DEF EmptyBody, BodyFallsShort, BodyHasNoRoom, StorageFails, IngestFails
<1>6. CASE WriteSidecar(r) \/ Publish(r) \/ Refund(r)
  BY <1>6, MovesOnly, AnswersOnly DEF WriteSidecar, Publish, Refund
<1>7. CASE Get(r)
  BY <1>7, MovesOnly, AnswersOnly DEF Get
<1>8. CASE ListShard(r) \/ Listed(r)
  BY <1>8, MovesOnly DEF ListShard, Listed
<1>9. CASE StatBlob(r)
  <2>1. stage[r] = "stat" /\ UNCHANGED <<ask, on, answer, uploadVars>>
    BY <1>9 DEF StatBlob
  <2> QED
    BY <2>1
<1>10. CASE ReadExpiry(r) \/ Report(r)
  <2>1. /\ stage[r] \in {"stat", "expiry"} /\ UNCHANGED <<ask, on, uploadVars>>
        /\ \A q \in Requests \ {r} : answer'[q] = answer[q]
    BY <1>10, MovesOnly, AnswersOnly DEF ReadExpiry, Report
  <2> QED
    BY <2>1
<1>11. CASE ChargeFails(r) \/ RefundFails(r)
  BY <1>11, MovesOnly, AnswersOnly DEF ChargeFails, RefundFails
<1>12. CASE MetaFails(r)
  BY <1>12, AnswersOnly DEF MetaFails
<1>13. CASE DeleteBlobFails(r) \/ DeleteMetaFails(r)
  <2>1. /\ stage[r] \in {"blob", "meta"} /\ UNCHANGED <<ask, on, uploadVars>>
        /\ \A q \in Requests \ {r} : answer'[q] = answer[q]
    BY <1>13, MovesOnly, AnswersOnly DEF DeleteBlobFails, DeleteMetaFails
  <2> QED
    BY <2>1
<1>14. CASE ListShardFails(r) \/ StatBlobFails(r)
  <2>1. stage[r] \in {"list", "stat"} /\ UNCHANGED <<ask, on, answer, uploadVars>>
    BY <1>14 DEF ListShardFails, StatBlobFails
  <2> QED
    BY <2>1
<1>15. CASE ReadExpiryFails(r)
  BY <1>15, MovesOnly DEF ReadExpiryFails
<1> QED
  BY <1>1, <1>2, <1>3, <1>4, <1>5, <1>6, <1>7, <1>8, <1>9, <1>10, <1>11, <1>12, <1>13, <1>14,
     <1>15 DEF Failure

LEMMA WhatStays ==
    ASSUME ServiceTypeOK, Admitted, ServiceInv, ReportInv, [ServiceNext]_serviceVars
    PROVE  Stays
<1> USE DEF ServiceTypeOK
<1>1. \A c \in Requests : answer[c] = 201 => stage[c] = "done"
  BY DEF Admitted, AdmittedOK
<1>2. \A c \in Requests : on[c] > 0 => stage[c] \notin {"idle", "admit"}
  BY DEF ReportInv
<1>3. ASSUME NEW r \in Requests,
             \/ Asking(r) \/ NotInstalled(r) \/ AdmitUpload(r) \/ Room(r) \/ Charge(r)
             \/ BodySlice(r) \/ BodyEnds(r) \/ EmptyBody(r) \/ BodyFallsShort(r)
             \/ StorageFails(r) \/ WriteSidecar(r) \/ Publish(r) \/ Refund(r)
             \/ AdmitDelete(r) \/ AdmitStats(r) \/ Get(r) \/ ListShard(r) \/ Listed(r)
             \/ StatBlob(r) \/ ReadExpiry(r) \/ Report(r)
             \/ BodyHasNoRoom(r) \/ Failure(r)
      PROVE  Stays
  <2>1. /\ stage[r] # "done"
        /\ stage[r] \notin {"idle", "admit"} => ask'[r] = ask[r] /\ on'[r] = on[r]
        /\ \A q \in Requests \ {r} :
              /\ answer'[q] = answer[q] /\ file'[q] = file[q] /\ expires'[q] = expires[q]
              /\ ask'[q] = ask[q] /\ on'[q] = on[q]
    BY <1>3, OwnStep
  <2> QED
    BY <1>1, <1>2, <2>1 DEF Stays
<1>4. ASSUME NEW r \in Requests, DeleteBlob(r) \/ DeleteMeta(r) PROVE Stays
  <2>1. /\ stage[r] \in {"blob", "meta"}
        /\ UNCHANGED <<ask, on, expires>>
        /\ \A q \in Requests \ {r} : answer'[q] = answer[q]
    BY <1>4, MovesOnly, AnswersOnly DEF DeleteBlob, DeleteMeta, Left
  <2>2. \A q \in Requests : /\ file'[q] = "stored" => file[q] = "stored"
                            /\ HasSidecar(file'[q]) => HasSidecar(file[q])
    BY <1>4 DEF DeleteBlob, DeleteMeta, BlobGoes, HasBlob, HasSidecar, UploadTypes
  <2> QED
    BY <1>1, <2>1, <2>2 DEF Stays
<1>5. ASSUME NEW d \in Requests, SweepsBlob(d) \/ SweepsMeta(d) \/ SweepLeavesBlob(d)
      PROVE  Stays
  <2>1. /\ UNCHANGED <<answer, ask, on, expires>>
        /\ \A q \in Requests \ {d} : file'[q] = file[q]
        /\ file[d] \in {"stored", "husk"} /\ file'[d] \in {"husk", "orphan", "gone"}
    <3>1. CASE SweepsBlob(d)
      BY <3>1 DEF SweepsBlob, BlobGoes, HasBlob, UploadTypes, askVars
    <3>2. CASE SweepsMeta(d) \/ SweepLeavesBlob(d)
      BY <3>2 DEF SweepsMeta, SweepLeavesBlob, UploadTypes, askVars
    <3> QED
      BY <1>5, <3>1, <3>2
  <2> QED
    BY <2>1 DEF Stays, HasSidecar
<1>6. CASE Reload \/ Ticks \/ (\E c \in Requests : Misreads(c)) \/ UNCHANGED serviceVars
  BY <1>6 DEF Reload, Ticks, Misreads, serviceVars, uploadVars, askVars, Stays
<1> QED
  BY <1>3, <1>4, <1>5, <1>6 DEF ServiceNext, ServerStep, Sweep

\* Figures remain what they are.
LEMMA FiguresKept ==
    ASSUME Stays, NEW w, w \in Walks, NEW g, NEW t, FiguresOK(w, g, t)
    PROVE  FiguresOK(w, g, t)'
<1>1. \A c \in InStore(g) : c \in Requests /\ c \in InStore(g)'
  BY DEF InStore, Stays
<1>2. \A c \in w.before \cup w.holds :
          /\ c \in Requests /\ answer[c] = 201 /\ answer'[c] = 201 /\ expires'[c] = expires[c]
          /\ file'[c] = "stored" => file[c] = "stored"
          /\ HasSidecar(file'[c]) => HasSidecar(file[c])
  BY <1>1 DEF FiguresOK, Stays
<1>3. w.before \cap StoredIn(g)' \subseteq w.before \cap StoredIn(g)
  BY <1>2 DEF FiguresOK, StoredIn
<1>4. \A c \in w.holds : IsExpired(c, t)' <=> IsExpired(c, t)
  BY <1>2 DEF IsExpired
<1> QED
  BY <1>1, <1>2, <1>3, <1>4 DEF FiguresOK

\* A step of whoever walks no store leaves the walk alone.
LEMMA ReportKept ==
    ASSUME ServiceTypeOK, ReportInv, Stays, UNCHANGED <<told, walker, walk, cache>>,
           \A q \in Requests :
              /\ stage'[q] \in {"list", "stat", "expiry"} =>
                    stage'[q] = stage[q] /\ on'[q] = on[q] /\ asked'[q] = asked[q]
              /\ stage'[q] \in {"idle", "admit"} => stage[q] = "idle" \/ stage'[q] = stage[q]
              /\ stage'[q] \in {"idle", "admit"} => on'[q] = on[q]
              /\ answer'[q] = 200 => /\ answer[q] = 200 /\ on'[q] = on[q]
                                     /\ stage[q] = "done" => stage'[q] = "done"
    PROVE  ReportInv'
<1>1. ASSUME NEW r \in Requests, stage'[r] \in {"list", "stat", "expiry"} PROVE WalkOK(r)'
  <2>1. /\ WalkOK(r) /\ stage'[r] = stage[r] /\ on'[r] = on[r] /\ asked'[r] = asked[r]
        /\ walk' = walk /\ walker' = walker
    BY <1>1 DEF ReportInv
  <2>2. PICK w, g, t : w = walk /\ g = on[r] /\ t = asked[r]
    OBVIOUS
  <2>3. w \in Walks /\ FiguresOK(w, g, t)
    BY <2>1, <2>2 DEF WalkOK, ServiceTypeOK, ReportTypes
  <2>4. FiguresOK(w, g, t)'
    BY <2>3, FiguresKept
  <2> QED
    BY <2>1, <2>2, <2>4 DEF WalkOK, FiguresOK
<1>2. ASSUME cache.store > 0 PROVE FiguresOK(cache.figures, cache.store, cache.at)'
  <2>1. PICK w, g, t : w = cache.figures /\ g = cache.store /\ t = cache.at
    OBVIOUS
  <2>2. w \in Walks /\ FiguresOK(w, g, t)
    BY <1>2, <2>1 DEF ReportInv, ServiceTypeOK, ReportTypes
  <2>3. FiguresOK(w, g, t)'
    BY <2>2, FiguresKept
  <2> QED
    BY <2>1, <2>3 DEF FiguresOK
<1> QED
  BY <1>1, <1>2 DEF ReportInv

\* Whoever walks the store has the mutex.
LEMMA OneWalks ==
    ASSUME ReportInv, NEW r \in Requests, NEW q \in Requests,
           stage[q] \in {"list", "stat", "expiry"}, r # q
    PROVE  walker # r /\ stage[r] \notin {"list", "stat", "expiry"}
BY DEF ReportInv, WalkOK

(* Uploads, DELETEs, sweeps and reloads run all the while, and the figures of  *)
(* a walk are right as far as it has come.                                   *)
THEOREM WalkInvariant == ServiceSpec => []ReportInv
<1>1. ServiceInit => ReportInv
  BY DEF ServiceInit, ReportInv
<1>2. /\ ServiceTypeOK /\ ServiceTypeOK' /\ Admitted /\ ServiceInv /\ ReportInv
      /\ [ServiceNext]_serviceVars
      => ReportInv'
  <2> SUFFICES ASSUME ServiceTypeOK, ServiceTypeOK', Admitted, ServiceInv, ReportInv,
                      [ServiceNext]_serviceVars
               PROVE  ReportInv'
    OBVIOUS
  <2>0. Stays
    BY WhatStays
  <2> USE DEF ServiceTypeOK, worldVars, askVars, reportVars
  <2>1. ASSUME NEW r \in Requests, Asking(r) PROVE ReportInv'
    <3>1. /\ stage[r] = "idle" /\ stage'[r] \in {"admit"}
          /\ answer'[r] = 200 => answer'[r] = answer[r]
          /\ \A q \in Requests \ {r} : stage'[q] = stage[q] /\ answer'[q] = answer[q]
      BY <2>1, MovesOnly, AnswersOnly DEF Asking
    <3>2. /\ \A q \in Requests \ {r} : on'[q] = on[q] /\ asked'[q] = asked[q]
          /\ UNCHANGED <<told, walker, walk, cache>>
      BY <2>1 DEF Asking, AskTypes, ReportTypes
    <3>3. answer[r] # 200
      BY <3>1 DEF ReportInv
    <3>4. on' = on
      BY <2>1 DEF Asking
    <3> QED
      BY <2>0, <3>1, <3>2, <3>3, <3>4, ReportKept
  <2>2. ASSUME NEW r \in Requests, NotInstalled(r) PROVE ReportInv'
    <3>1. /\ stage[r] = "admit" /\ stage'[r] \in {"done"}
          /\ answer'[r] = 200 => answer'[r] = answer[r]
          /\ \A q \in Requests \ {r} : stage'[q] = stage[q] /\ answer'[q] = answer[q]
      BY <2>2, MovesOnly, AnswersOnly DEF NotInstalled
    <3>2. /\ \A q \in Requests \ {r} : on'[q] = on[q] /\ asked'[q] = asked[q]
          /\ UNCHANGED <<told, walker, walk, cache>>
      BY <2>2 DEF NotInstalled, AskTypes, ReportTypes
    <3>3. answer[r] # 200
      BY <3>1 DEF ReportInv
    <3> QED
      BY <2>0, <3>1, <3>2, <3>3, ReportKept
  <2>3. ASSUME NEW r \in Requests, AdmitUpload(r) PROVE ReportInv'
    <3>0. Refusal(Parsed[serving], ask[r]) # 200
      <4>1. serving \in Stores /\ ask[r] \in Asks
        BY <2>3, ServiceAssumption DEF AdmitUpload, WorldTypes, AskTypes, Stores
      <4> QED
        BY <4>1, RefusalTypes
    <3>1. /\ stage[r] = "admit" /\ stage'[r] \in {"room", "done"}
          /\ answer'[r] = 200 => answer'[r] = answer[r]
          /\ \A q \in Requests \ {r} : stage'[q] = stage[q] /\ answer'[q] = answer[q]
      BY <2>3, <3>0, MovesOnly, AnswersOnly DEF AdmitUpload
    <3>2. /\ \A q \in Requests \ {r} : on'[q] = on[q] /\ asked'[q] = asked[q]
          /\ UNCHANGED <<told, walker, walk, cache>>
      BY <2>3 DEF AdmitUpload, AskTypes, ReportTypes
    <3>3. answer[r] # 200
      BY <3>1 DEF ReportInv
    <3> QED
      BY <2>0, <3>1, <3>2, <3>3, ReportKept
  <2>4. ASSUME NEW r \in Requests, AdmitDelete(r) PROVE ReportInv'
    <3>1. /\ stage[r] = "admit" /\ stage'[r] \in {"blob", "done"}
          /\ answer'[r] = 200 => answer'[r] = answer[r]
          /\ \A q \in Requests \ {r} : stage'[q] = stage[q] /\ answer'[q] = answer[q]
      BY <2>4, MovesOnly, AnswersOnly DEF AdmitDelete
    <3>2. /\ \A q \in Requests \ {r} : on'[q] = on[q] /\ asked'[q] = asked[q]
          /\ UNCHANGED <<told, walker, walk, cache>>
      BY <2>4 DEF AdmitDelete, AskTypes, ReportTypes
    <3>3. answer[r] # 200
      BY <3>1 DEF ReportInv
    <3> QED
      BY <2>0, <3>1, <3>2, <3>3, ReportKept
  <2>5. ASSUME NEW r \in Requests, AdmitStats(r) PROVE ReportInv'
    <3>1. /\ stage[r] = "admit" /\ stage'[r] \in {"lock", "done"}
          /\ answer'[r] = 200 => answer'[r] = answer[r]
          /\ \A q \in Requests \ {r} : stage'[q] = stage[q] /\ answer'[q] = answer[q]
      BY <2>5, MovesOnly, AnswersOnly DEF AdmitStats
    <3>2. /\ \A q \in Requests \ {r} : on'[q] = on[q] /\ asked'[q] = asked[q]
          /\ UNCHANGED <<told, walker, walk, cache>>
      BY <2>5 DEF AdmitStats, AskTypes, ReportTypes
    <3>3. answer[r] # 200
      BY <3>1 DEF ReportInv
    <3> QED
      BY <2>0, <3>1, <3>2, <3>3, ReportKept
  <2>6. ASSUME NEW r \in Requests, Room(r) PROVE ReportInv'
    <3>1. /\ stage[r] = "room" /\ stage'[r] \in {"charge", "done"}
          /\ answer'[r] = 200 => answer'[r] = answer[r]
          /\ \A q \in Requests \ {r} : stage'[q] = stage[q] /\ answer'[q] = answer[q]
      <4>1. \/ Moves(r, "room", "charge") /\ answer' = answer
            \/ Answers(r, "room", 507)
        BY <2>6 DEF Room
      <4> QED
        BY <4>1, MovesOnly, AnswersOnly
    <3>2. /\ \A q \in Requests \ {r} : on'[q] = on[q] /\ asked'[q] = asked[q]
          /\ UNCHANGED <<told, walker, walk, cache>>
      BY <2>6 DEF Room, AskTypes, ReportTypes
    <3>3. answer[r] # 200
      BY <3>1 DEF ReportInv
    <3> QED
      BY <2>0, <3>1, <3>2, <3>3, ReportKept
  <2>7. ASSUME NEW r \in Requests, Charge(r) PROVE ReportInv'
    <3>1. /\ stage[r] = "charge" /\ stage'[r] \in {"body", "done"}
          /\ answer'[r] = 200 => answer'[r] = answer[r]
          /\ \A q \in Requests \ {r} : stage'[q] = stage[q] /\ answer'[q] = answer[q]
      BY <2>7, MovesOnly, AnswersOnly DEF Charge
    <3>2. /\ \A q \in Requests \ {r} : on'[q] = on[q] /\ asked'[q] = asked[q]
          /\ UNCHANGED <<told, walker, walk, cache>>
      BY <2>7 DEF Charge, AskTypes, ReportTypes
    <3>3. answer[r] # 200
      BY <3>1 DEF ReportInv
    <3> QED
      BY <2>0, <3>1, <3>2, <3>3, ReportKept
  <2>8. ASSUME NEW r \in Requests, BodyEnds(r) PROVE ReportInv'
    <3>1. /\ stage[r] = "body" /\ stage'[r] \in {"sidecar"}
          /\ answer'[r] = 200 => answer'[r] = answer[r]
          /\ \A q \in Requests \ {r} : stage'[q] = stage[q] /\ answer'[q] = answer[q]
      BY <2>8, MovesOnly, AnswersOnly DEF BodyEnds
    <3>2. /\ \A q \in Requests \ {r} : on'[q] = on[q] /\ asked'[q] = asked[q]
          /\ UNCHANGED <<told, walker, walk, cache>>
      BY <2>8 DEF BodyEnds, AskTypes, ReportTypes
    <3>3. answer[r] # 200
      BY <3>1 DEF ReportInv
    <3> QED
      BY <2>0, <3>1, <3>2, <3>3, ReportKept
  <2>9. ASSUME NEW r \in Requests, WriteSidecar(r) PROVE ReportInv'
    <3>1. /\ stage[r] = "sidecar" /\ stage'[r] \in {"rename"}
          /\ answer'[r] = 200 => answer'[r] = answer[r]
          /\ \A q \in Requests \ {r} : stage'[q] = stage[q] /\ answer'[q] = answer[q]
      BY <2>9, MovesOnly, AnswersOnly DEF WriteSidecar
    <3>2. /\ \A q \in Requests \ {r} : on'[q] = on[q] /\ asked'[q] = asked[q]
          /\ UNCHANGED <<told, walker, walk, cache>>
      BY <2>9 DEF WriteSidecar, AskTypes, ReportTypes
    <3>3. answer[r] # 200
      BY <3>1 DEF ReportInv
    <3> QED
      BY <2>0, <3>1, <3>2, <3>3, ReportKept
  <2>10. ASSUME NEW r \in Requests, Publish(r) PROVE ReportInv'
    <3>1. /\ stage[r] = "rename" /\ stage'[r] \in {"done"}
          /\ answer'[r] = 200 => answer'[r] = answer[r]
          /\ \A q \in Requests \ {r} : stage'[q] = stage[q] /\ answer'[q] = answer[q]
      BY <2>10, MovesOnly, AnswersOnly DEF Publish
    <3>2. /\ \A q \in Requests \ {r} : on'[q] = on[q] /\ asked'[q] = asked[q]
          /\ UNCHANGED <<told, walker, walk, cache>>
      BY <2>10 DEF Publish, AskTypes, ReportTypes
    <3>3. answer[r] # 200
      BY <3>1 DEF ReportInv
    <3> QED
      BY <2>0, <3>1, <3>2, <3>3, ReportKept
  <2>11. ASSUME NEW r \in Requests, Refund(r) PROVE ReportInv'
    <3>1. /\ stage[r] = "refund" /\ stage'[r] \in {"done"}
          /\ answer'[r] = 200 => answer'[r] = answer[r]
          /\ \A q \in Requests \ {r} : stage'[q] = stage[q] /\ answer'[q] = answer[q]
      BY <2>11, MovesOnly, AnswersOnly DEF Refund
    <3>2. /\ \A q \in Requests \ {r} : on'[q] = on[q] /\ asked'[q] = asked[q]
          /\ UNCHANGED <<told, walker, walk, cache>>
      BY <2>11 DEF Refund, AskTypes, ReportTypes
    <3>3. answer[r] # 200
      BY <3>1 DEF ReportInv
    <3> QED
      BY <2>0, <3>1, <3>2, <3>3, ReportKept
  <2>12. ASSUME NEW r \in Requests, DeleteBlob(r) PROVE ReportInv'
    <3>1. /\ stage[r] = "blob" /\ stage'[r] \in {"meta"}
          /\ answer'[r] = 200 => answer'[r] = answer[r]
          /\ \A q \in Requests \ {r} : stage'[q] = stage[q] /\ answer'[q] = answer[q]
      BY <2>12, MovesOnly, AnswersOnly DEF DeleteBlob
    <3>2. /\ \A q \in Requests \ {r} : on'[q] = on[q] /\ asked'[q] = asked[q]
          /\ UNCHANGED <<told, walker, walk, cache>>
      BY <2>12 DEF DeleteBlob, AskTypes, ReportTypes
    <3>3. answer[r] # 200
      BY <3>1 DEF ReportInv
    <3> QED
      BY <2>0, <3>1, <3>2, <3>3, ReportKept
  <2>13. ASSUME NEW r \in Requests, DeleteMeta(r) PROVE ReportInv'
    <3>1. /\ stage[r] = "meta" /\ stage'[r] \in {"done"}
          /\ answer'[r] = 200 => answer'[r] = answer[r]
          /\ \A q \in Requests \ {r} : stage'[q] = stage[q] /\ answer'[q] = answer[q]
      BY <2>13, MovesOnly, AnswersOnly DEF DeleteMeta, Left
    <3>2. /\ \A q \in Requests \ {r} : on'[q] = on[q] /\ asked'[q] = asked[q]
          /\ UNCHANGED <<told, walker, walk, cache>>
      BY <2>13 DEF DeleteMeta, AskTypes, ReportTypes
    <3>3. answer[r] # 200
      BY <3>1 DEF ReportInv
    <3> QED
      BY <2>0, <3>1, <3>2, <3>3, ReportKept
  <2>14. ASSUME NEW r \in Requests,
                EmptyBody(r) \/ BodyFallsShort(r) \/ BodyHasNoRoom(r) \/ StorageFails(r)
        PROVE  ReportInv'
    <3>1. PICK here \in {"body", "sidecar", "rename"}, code \in {400, 507} :
             IngestFails(r, here, code)
      BY <2>14 DEF EmptyBody, BodyFallsShort, BodyHasNoRoom, StorageFails
    <3>2. /\ stage[r] = here /\ stage'[r] = "refund" /\ answer'[r] = code
          /\ \A q \in Requests \ {r} : stage'[q] = stage[q] /\ answer'[q] = answer[q]
          /\ UNCHANGED <<on, asked, told, walker, walk, cache>>
      BY <3>1, MovesOnly DEF IngestFails, AskTypes
    <3> QED
      BY <2>0, <3>2, ReportKept
  <2>15. ASSUME NEW r \in Requests, BodySlice(r) PROVE ReportInv'
    BY <2>15, <2>0, ReportKept DEF BodySlice
  <2>16. ASSUME NEW d \in Requests, Sweep(d) PROVE ReportInv'
    BY <2>16, <2>0, ReportKept DEF Sweep, Misreads, SweepsBlob, SweepsMeta, SweepLeavesBlob
  <2>17. CASE Reload \/ Ticks \/ UNCHANGED serviceVars
    BY <2>17, <2>0, ReportKept DEF Reload, Ticks, serviceVars
  <2>18. ASSUME NEW r \in Requests, Get(r) PROVE ReportInv'
    <3>1. /\ stage[r] = "lock" /\ walker = Nobody
          /\ UNCHANGED <<ask, on, asked, cache, file, expires, clock>>
      BY <2>18 DEF Get, uploadVars
    <3>2. CASE Stale(r)
      <4>1. /\ stage'[r] = "list" /\ walker' = r /\ UNCHANGED <<answer, told>>
            /\ \A q \in Requests \ {r} : stage'[q] = stage[q]
            /\ walk' = [NoWalk EXCEPT !.before = StoredIn(on[r]),
                                      !.listing = {c \in InStore(on[r]) : ~Over(c)}]
        BY <2>18, <3>2, MovesOnly DEF Get
      <4>2. \A q \in Requests : stage[q] \notin {"list", "stat", "expiry"}
        BY <3>1, ServiceAssumption DEF ReportInv, WalkOK
      <4>3. \A c \in StoredIn(on[r]) : answer[c] = 201 /\ ~Over(c)
        BY DEF StoredIn, InStore, Over, ServiceInv, Filed, FiledOK
      <4>4. FiguresOK(walk', on[r], asked[r])
        BY <4>1, <4>3 DEF NoWalk, FiguresOK, StoredIn
      <4>5. WalkOK(r)'
        BY <3>1, <4>1, <4>4 DEF WalkOK, FiguresOK, StoredIn, InStore, IsExpired, NoWalk
      <4> QED
        BY <3>1, <4>1, <4>2, <4>5 DEF ReportInv, FiguresOK, StoredIn, InStore, IsExpired
    <3>3. CASE ~Stale(r)
      <4>1. /\ stage'[r] = "done" /\ UNCHANGED <<walker, walk>>
            /\ told' = [told EXCEPT ![r] = cache.store] /\ answer'[r] = 200
            /\ \A q \in Requests \ {r} : stage'[q] = stage[q] /\ answer'[q] = answer[q]
        BY <2>18, <3>3, AnswersOnly DEF Get
      <4>2. cache.store = on[r]
        BY <3>3 DEF Stale
      <4>3. told'[r] = on[r] /\ \A q \in Requests \ {r} : told'[q] = told[q]
        BY <4>1, <4>2 DEF ReportTypes
      <4>4. \A c \in Requests : answer[c] = 201 => answer'[c] = 201
        BY <2>0 DEF Stays
      <4>5. \A q \in Requests : stage[q] \notin {"list", "stat", "expiry"}
        BY <3>1, ServiceAssumption DEF ReportInv, WalkOK
      <4>6. ASSUME cache.store > 0 PROVE FiguresOK(cache.figures, cache.store, cache.at)'
        <5>1. PICK w, g, t : w = cache.figures /\ g = cache.store /\ t = cache.at
          OBVIOUS
        <5>2. w \in Walks /\ FiguresOK(w, g, t)
          BY <4>6, <5>1 DEF ReportInv, ReportTypes
        <5>3. FiguresOK(w, g, t)'
          BY <2>0, <5>2, FiguresKept
        <5> QED
          BY <3>1, <5>1, <5>3 DEF FiguresOK
      <4> QED
        BY <3>1, <4>1, <4>3, <4>5, <4>6 DEF ReportInv
    <3> QED
      BY <3>2, <3>3
  <2>19. ASSUME NEW r \in Requests, ListShard(r) PROVE ReportInv'
    <3>1. /\ stage[r] = "list" /\ stage'[r] \in {"list"}
          /\ UNCHANGED <<ask, on, asked, file, expires>>
          /\ \A q \in Requests \ {r} : stage'[q] = stage[q] /\ answer'[q] = answer[q]
      BY <2>19, MovesOnly, AnswersOnly DEF ListShard, uploadVars
    <3>2. WalkOK(r) /\ answer[r] # 201 /\ on[r] \in Stores
      BY <3>1 DEF ReportInv, Admitted, AdmittedOK
    <3>3. \A q \in Requests \ {r} : stage[q] \notin {"list", "stat", "expiry"}
      BY <3>1, OneWalks
    <3>4. PICK c \in walk.listing :
             walk' = [walk EXCEPT !.listing = @ \ {c},
                                  !.ids = IF HasSidecar(file[c]) THEN @ \cup {c} ELSE @]
      BY <2>19 DEF ListShard
    <3>5. WalkOK(r)'
      <4>1. /\ walk'.before = walk.before /\ walk'.holds = walk.holds /\ walk'.chunk = walk.chunk
            /\ walk'.lapsed = walk.lapsed /\ walk'.listing = walk.listing \ {c}
            /\ walk'.ids = IF HasSidecar(file[c]) THEN walk.ids \cup {c} ELSE walk.ids
            /\ walk'.unread = walk.unread
        BY <3>4 DEF ReportTypes, Walks
      <4>2. walker' = r /\ answer' = answer
        BY <2>19, <3>2 DEF ListShard, WalkOK
      <4>3. FiguresOK(walk, on[r], asked[r])
        BY <3>2 DEF WalkOK
      <4>4. FiguresOK(walk, on[r], asked[r])'
        BY <3>1, <4>1, <4>2, <4>3 DEF FiguresOK, StoredIn, InStore, IsExpired, HasSidecar
      <4> QED
        BY <3>1, <3>2, <4>1, <4>2, <4>4 DEF WalkOK
    <3>6. UNCHANGED <<answer, told, walker, cache>>
      BY <2>19 DEF ListShard
    <3> QED
      BY <3>1, <3>3, <3>5, <3>6 DEF ReportInv, FiguresOK, StoredIn, InStore, IsExpired
  <2>20. ASSUME NEW r \in Requests, Listed(r) PROVE ReportInv'
    <3>1. /\ stage[r] = "list" /\ stage'[r] \in {"stat"}
          /\ UNCHANGED <<ask, on, asked, file, expires>>
          /\ \A q \in Requests \ {r} : stage'[q] = stage[q] /\ answer'[q] = answer[q]
      BY <2>20, MovesOnly, AnswersOnly DEF Listed, uploadVars
    <3>2. WalkOK(r) /\ answer[r] # 201 /\ on[r] \in Stores
      BY <3>1 DEF ReportInv, Admitted, AdmittedOK
    <3>3. \A q \in Requests \ {r} : stage[q] \notin {"list", "stat", "expiry"}
      BY <3>1, OneWalks
    <3>5. WalkOK(r)'
      <4>1. walk' = walk /\ walker' = walker /\ answer' = answer /\ walk.listing = {}
        BY <2>20 DEF Listed
      <4> QED
        BY <3>1, <3>2, <4>1 DEF WalkOK, FiguresOK, StoredIn, InStore, IsExpired
    <3>6. UNCHANGED <<answer, told, walker, cache>>
      BY <2>20 DEF Listed
    <3> QED
      BY <3>1, <3>3, <3>5, <3>6 DEF ReportInv, FiguresOK, StoredIn, InStore, IsExpired
  <2>21. ASSUME NEW r \in Requests, StatBlob(r) PROVE ReportInv'
    <3>1. /\ stage[r] = "stat" /\ stage'[r] \in {"stat", "expiry"}
          /\ UNCHANGED <<ask, on, asked, file, expires>>
          /\ \A q \in Requests \ {r} : stage'[q] = stage[q] /\ answer'[q] = answer[q]
      BY <2>21, MovesOnly, AnswersOnly DEF StatBlob, uploadVars
    <3>2. WalkOK(r) /\ answer[r] # 201 /\ on[r] \in Stores
      BY <3>1 DEF ReportInv, Admitted, AdmittedOK
    <3>3. \A q \in Requests \ {r} : stage[q] \notin {"list", "stat", "expiry"}
      BY <3>1, OneWalks
    <3>4. PICK c \in walk.ids :
             IF IsCounted(c)
             THEN /\ Moves(r, "stat", "expiry")
                  /\ walk' = [walk EXCEPT !.ids = @ \ {c}, !.chunk = {c}, !.holds = @ \cup {c}]
             ELSE /\ walk' = [walk EXCEPT !.ids = @ \ {c}]
                  /\ UNCHANGED stage
      BY <2>21 DEF StatBlob
    <3>5. WalkOK(r)'
      <4>1. /\ walk'.before = walk.before /\ walk'.listing = walk.listing
            /\ walk'.lapsed = walk.lapsed /\ walk'.ids = walk.ids \ {c}
            /\ walk'.unread = walk.unread
            /\ \/ /\ HasBlob(file[c]) /\ stage'[r] = "expiry"
                  /\ walk'.chunk = {c} /\ walk'.holds = walk.holds \cup {c}
               \/ /\ ~HasBlob(file[c]) /\ stage'[r] = "stat"
                  /\ walk'.chunk = walk.chunk /\ walk'.holds = walk.holds
        <5>1. walk \in Walks
          BY DEF ReportTypes
        <5>2. CASE IsCounted(c)
          BY <3>4, <5>1, <5>2, MovesOnly DEF Walks, IsCounted
        <5>3. CASE ~IsCounted(c)
          BY <3>1, <3>4, <5>1, <5>3 DEF Walks, IsCounted
        <5> QED
          BY <5>2, <5>3
      <4>2. walker' = r /\ answer' = answer /\ walk.chunk = {} /\ walk.listing = {}
        BY <2>21, <3>1, <3>2 DEF StatBlob, WalkOK
      <4>3. FiguresOK(walk, on[r], asked[r])
        BY <3>2 DEF WalkOK
      <4>4. c \in InStore(on[r]) /\ c \in Requests
        BY <4>3 DEF FiguresOK, InStore
      <4>5. /\ HasBlob(file[c]) => answer[c] = 201
            /\ ~HasBlob(file[c]) => file[c] # "stored"
        BY <4>4 DEF ServiceInv, Filed, FiledOK, HasBlob
      <4>6. FiguresOK(walk, on[r], asked[r])'
        BY <3>1, <4>1, <4>2, <4>3, <4>4, <4>5 DEF FiguresOK, StoredIn, InStore, IsExpired
      <4> QED
        BY <3>1, <3>2, <4>1, <4>2, <4>6 DEF WalkOK
    <3>6. UNCHANGED <<answer, told, walker, cache>>
      BY <2>21 DEF StatBlob
    <3> QED
      BY <3>1, <3>3, <3>5, <3>6 DEF ReportInv, FiguresOK, StoredIn, InStore, IsExpired
  <2>22. ASSUME NEW r \in Requests, ReadExpiry(r) PROVE ReportInv'
    <3>1. /\ stage[r] = "expiry" /\ stage'[r] \in {"stat"}
          /\ UNCHANGED <<ask, on, asked, file, expires>>
          /\ \A q \in Requests \ {r} : stage'[q] = stage[q] /\ answer'[q] = answer[q]
      BY <2>22, MovesOnly, AnswersOnly DEF ReadExpiry, uploadVars
    <3>2. WalkOK(r) /\ answer[r] # 201 /\ on[r] \in Stores
      BY <3>1 DEF ReportInv, Admitted, AdmittedOK
    <3>3. \A q \in Requests \ {r} : stage[q] \notin {"list", "stat", "expiry"}
      BY <3>1, OneWalks
    <3>5. WalkOK(r)'
      <4>1. /\ walk'.before = walk.before /\ walk'.listing = walk.listing
            /\ walk'.ids = walk.ids /\ walk'.holds = walk.holds /\ walk'.chunk = {}
            /\ walk'.unread = walk.unread
            /\ walk'.lapsed = walk.lapsed \cup
                  {c \in walk.chunk : ~HasSidecar(file[c]) \/ IsExpired(c, asked[r])}
        BY <2>22 DEF ReadExpiry, ReportTypes, Walks
      <4>2. walker' = r /\ answer' = answer
        BY <2>22, <3>2 DEF ReadExpiry, WalkOK
      <4>3. FiguresOK(walk, on[r], asked[r])
        BY <3>2 DEF WalkOK
      <4>4. FiguresOK(walk, on[r], asked[r])'
        BY <3>1, <4>1, <4>2, <4>3 DEF FiguresOK, StoredIn, InStore, IsExpired
      <4> QED
        BY <3>1, <3>2, <4>1, <4>2, <4>4 DEF WalkOK
    <3>6. UNCHANGED <<answer, told, walker, cache>>
      BY <2>22 DEF ReadExpiry
    <3> QED
      BY <3>1, <3>3, <3>5, <3>6 DEF ReportInv, FiguresOK, StoredIn, InStore, IsExpired
  <2>23. ASSUME NEW r \in Requests, Report(r) PROVE ReportInv'
    <3>1. /\ stage[r] = "stat" /\ stage'[r] \in {"done"}
          /\ UNCHANGED <<ask, on, asked, file, expires>>
          /\ \A q \in Requests \ {r} : stage'[q] = stage[q] /\ answer'[q] = answer[q]
      BY <2>23, MovesOnly, AnswersOnly DEF Report, uploadVars
    <3>2. WalkOK(r) /\ answer[r] # 201 /\ on[r] \in Stores
      BY <3>1 DEF ReportInv, Admitted, AdmittedOK
    <3>3. \A q \in Requests \ {r} : stage[q] \notin {"list", "stat", "expiry"}
      BY <3>1, OneWalks
    <3>4. /\ answer'[r] = 200 /\ told' = [told EXCEPT ![r] = on[r]] /\ walk.ids = {}
          /\ cache' = [store |-> on[r], at |-> asked[r], figures |-> walk]
      BY <2>23, AnswersOnly DEF Report, AskTypes
    <3>5. told'[r] = on[r] /\ \A q \in Requests \ {r} : told'[q] = told[q]
      BY <3>4 DEF ReportTypes
    <3>6. walk.listing = {} /\ walk.chunk = {} /\ FiguresOK(walk, on[r], asked[r])
      BY <3>1, <3>2 DEF WalkOK
    <3>7. FiguresOK(cache.figures, cache.store, cache.at)'
      <4>1. PICK w, g, t : w = walk /\ g = on[r] /\ t = asked[r]
        OBVIOUS
      <4>2. w \in Walks /\ FiguresOK(w, g, t)
        BY <3>6, <4>1 DEF ReportTypes
      <4>3. FiguresOK(w, g, t)'
        BY <2>0, <4>2, FiguresKept
      <4> QED
        BY <3>4, <4>1, <4>3 DEF FiguresOK
    <3> QED
      BY <3>1, <3>3, <3>4, <3>5, <3>6, <3>7 DEF ReportInv
  <2>24. ASSUME NEW r \in Requests, ChargeFails(r) PROVE ReportInv'
    <3>1. /\ stage[r] = "charge" /\ stage'[r] = "done"
          /\ answer'[r] = 200 => answer'[r] = answer[r]
          /\ \A q \in Requests \ {r} : stage'[q] = stage[q] /\ answer'[q] = answer[q]
      BY <2>24, MovesOnly, AnswersOnly DEF ChargeFails
    <3>2. /\ \A q \in Requests \ {r} : on'[q] = on[q] /\ asked'[q] = asked[q]
          /\ UNCHANGED <<told, walker, walk, cache>>
      BY <2>24 DEF ChargeFails, AskTypes, ReportTypes
    <3>3. answer[r] # 200
      BY <3>1 DEF ReportInv
    <3> QED
      BY <2>0, <3>1, <3>2, <3>3, ReportKept
  <2>25. ASSUME NEW r \in Requests, RefundFails(r) PROVE ReportInv'
    <3>1. /\ stage[r] = "refund" /\ stage'[r] = "done"
          /\ answer'[r] = 200 => answer'[r] = answer[r]
          /\ \A q \in Requests \ {r} : stage'[q] = stage[q] /\ answer'[q] = answer[q]
      BY <2>25, MovesOnly, AnswersOnly DEF RefundFails
    <3>2. /\ \A q \in Requests \ {r} : on'[q] = on[q] /\ asked'[q] = asked[q]
          /\ UNCHANGED <<told, walker, walk, cache>>
      BY <2>25 DEF RefundFails, AskTypes, ReportTypes
    <3>3. answer[r] # 200
      BY <3>1 DEF ReportInv
    <3> QED
      BY <2>0, <3>1, <3>2, <3>3, ReportKept
  <2>26. ASSUME NEW r \in Requests, MetaFails(r) PROVE ReportInv'
    <3>1. /\ stage[r] = "admit" /\ stage'[r] = "done"
          /\ answer'[r] = 200 => answer'[r] = answer[r]
          /\ \A q \in Requests \ {r} : stage'[q] = stage[q] /\ answer'[q] = answer[q]
      BY <2>26, MovesOnly, AnswersOnly DEF MetaFails
    <3>2. /\ \A q \in Requests \ {r} : on'[q] = on[q] /\ asked'[q] = asked[q]
          /\ UNCHANGED <<told, walker, walk, cache>>
      BY <2>26 DEF MetaFails, AskTypes, ReportTypes
    <3>3. answer[r] # 200
      BY <3>1 DEF ReportInv
    <3> QED
      BY <2>0, <3>1, <3>2, <3>3, ReportKept
  <2>27. ASSUME NEW r \in Requests, DeleteBlobFails(r) PROVE ReportInv'
    <3>1. /\ stage[r] = "blob" /\ stage'[r] = "meta"
          /\ answer'[r] = 200 => answer'[r] = answer[r]
          /\ \A q \in Requests \ {r} : stage'[q] = stage[q] /\ answer'[q] = answer[q]
      BY <2>27, MovesOnly, AnswersOnly DEF DeleteBlobFails
    <3>2. /\ \A q \in Requests \ {r} : on'[q] = on[q] /\ asked'[q] = asked[q]
          /\ UNCHANGED <<told, walker, walk, cache>>
      BY <2>27 DEF DeleteBlobFails, AskTypes, ReportTypes
    <3>3. answer[r] # 200
      BY <3>1 DEF ReportInv
    <3> QED
      BY <2>0, <3>1, <3>2, <3>3, ReportKept
  <2>28. ASSUME NEW r \in Requests, DeleteMetaFails(r) PROVE ReportInv'
    <3>1. /\ stage[r] = "meta" /\ stage'[r] = "done"
          /\ answer'[r] = 200 => answer'[r] = answer[r]
          /\ \A q \in Requests \ {r} : stage'[q] = stage[q] /\ answer'[q] = answer[q]
      BY <2>28, MovesOnly, AnswersOnly DEF DeleteMetaFails, Left
    <3>2. /\ \A q \in Requests \ {r} : on'[q] = on[q] /\ asked'[q] = asked[q]
          /\ UNCHANGED <<told, walker, walk, cache>>
      BY <2>28 DEF DeleteMetaFails, AskTypes, ReportTypes
    <3>3. answer[r] # 200
      BY <3>1 DEF ReportInv
    <3> QED
      BY <2>0, <3>1, <3>2, <3>3, ReportKept
  <2>29. ASSUME NEW r \in Requests, ListShardFails(r) PROVE ReportInv'
    <3>1. /\ stage[r] = "list" /\ stage' = stage
          /\ UNCHANGED <<ask, on, asked, file, expires, answer, told, walker, cache>>
      BY <2>29 DEF ListShardFails, uploadVars
    <3>2. WalkOK(r) /\ on[r] \in Stores
      BY <3>1 DEF ReportInv, Admitted, AdmittedOK
    <3>3. \A q \in Requests \ {r} : stage[q] \notin {"list", "stat", "expiry"}
      BY <3>1, OneWalks
    <3>4. PICK c \in walk.listing :
             walk' = [walk EXCEPT !.listing = @ \ {c}, !.unread = @ \cup {c}]
      BY <2>29 DEF ListShardFails
    <3>5. WalkOK(r)'
      <4>1. /\ walk'.before = walk.before /\ walk'.holds = walk.holds /\ walk'.chunk = walk.chunk
            /\ walk'.lapsed = walk.lapsed /\ walk'.listing = walk.listing \ {c}
            /\ walk'.ids = walk.ids /\ walk'.unread = walk.unread \cup {c}
        BY <3>4 DEF ReportTypes, Walks
      <4>2. FiguresOK(walk, on[r], asked[r])
        BY <3>2 DEF WalkOK
      <4>3. FiguresOK(walk, on[r], asked[r])'
        BY <3>1, <4>1, <4>2 DEF FiguresOK, StoredIn, InStore, IsExpired
      <4> QED
        BY <3>1, <3>2, <4>1, <4>3 DEF WalkOK
    <3> QED
      BY <3>1, <3>3, <3>5 DEF ReportInv, FiguresOK, StoredIn, InStore, IsExpired
  <2>30. ASSUME NEW r \in Requests, StatBlobFails(r) PROVE ReportInv'
    <3>1. /\ stage[r] = "stat" /\ stage' = stage
          /\ UNCHANGED <<ask, on, asked, file, expires, answer, told, walker, cache>>
      BY <2>30 DEF StatBlobFails, uploadVars
    <3>2. WalkOK(r) /\ on[r] \in Stores
      BY <3>1 DEF ReportInv, Admitted, AdmittedOK
    <3>3. \A q \in Requests \ {r} : stage[q] \notin {"list", "stat", "expiry"}
      BY <3>1, OneWalks
    <3>4. PICK c \in walk.ids :
             walk' = [walk EXCEPT !.ids = @ \ {c}, !.unread = @ \cup {c}]
      BY <2>30 DEF StatBlobFails
    <3>5. WalkOK(r)'
      <4>1. /\ walk'.before = walk.before /\ walk'.holds = walk.holds /\ walk'.chunk = walk.chunk
            /\ walk'.lapsed = walk.lapsed /\ walk'.listing = walk.listing
            /\ walk'.ids = walk.ids \ {c} /\ walk'.unread = walk.unread \cup {c}
        BY <3>4 DEF ReportTypes, Walks
      <4>2. FiguresOK(walk, on[r], asked[r])
        BY <3>2 DEF WalkOK
      <4>3. FiguresOK(walk, on[r], asked[r])'
        BY <3>1, <4>1, <4>2 DEF FiguresOK, StoredIn, InStore, IsExpired
      <4> QED
        BY <3>1, <3>2, <4>1, <4>3 DEF WalkOK
    <3> QED
      BY <3>1, <3>3, <3>5 DEF ReportInv, FiguresOK, StoredIn, InStore, IsExpired
  <2>31. ASSUME NEW r \in Requests, ReadExpiryFails(r) PROVE ReportInv'
    <3>1. /\ stage[r] = "expiry" /\ stage'[r] = "stat"
          /\ UNCHANGED <<ask, on, asked, file, expires, answer, told, walker, cache>>
          /\ \A q \in Requests \ {r} : stage'[q] = stage[q]
      BY <2>31, MovesOnly DEF ReadExpiryFails, uploadVars
    <3>2. WalkOK(r) /\ answer[r] # 201 /\ on[r] \in Stores
      BY <3>1 DEF ReportInv, Admitted, AdmittedOK
    <3>3. \A q \in Requests \ {r} : stage[q] \notin {"list", "stat", "expiry"}
      BY <3>1, OneWalks
    <3>5. WalkOK(r)'
      <4>1. /\ walk'.before = walk.before /\ walk'.listing = walk.listing
            /\ walk'.ids = walk.ids /\ walk'.holds = walk.holds /\ walk'.chunk = {}
            /\ walk'.unread = walk.unread \cup walk.chunk
            /\ walk'.lapsed = walk.lapsed \cup walk.chunk
        BY <2>31 DEF ReadExpiryFails, ReportTypes, Walks
      <4>2. FiguresOK(walk, on[r], asked[r])
        BY <3>2 DEF WalkOK
      <4>3. FiguresOK(walk, on[r], asked[r])'
        BY <3>1, <4>1, <4>2 DEF FiguresOK, StoredIn, InStore, IsExpired
      <4> QED
        BY <3>1, <3>2, <4>1, <4>3 DEF WalkOK
    <3> QED
      BY <3>1, <3>3, <3>5 DEF ReportInv, FiguresOK, StoredIn, InStore, IsExpired
  <2> QED
    BY <2>1, <2>2, <2>3, <2>4, <2>5, <2>6, <2>7, <2>8, <2>9, <2>10, <2>11, <2>12,
       <2>13, <2>14, <2>15, <2>16, <2>17, <2>18, <2>19, <2>20, <2>21, <2>22, <2>23, <2>24,
       <2>25, <2>26, <2>27, <2>28, <2>29, <2>30, <2>31
       DEF ServiceNext, ServerStep, Failure
<1> QED
  BY <1>1, <1>2, ServiceTypeCorrect, ServiceInvariant, PTL DEF ServiceSpec

(* The figures of /v1/stats are those of a store's blobs, and of the right     *)
(* store.                                                                    *)
THEOREM UsageTrue == ServiceSpec => []UsageIsReal
<1>1. ReportInv => UsageIsReal
  BY DEF ReportInv, UsageIsReal, FiguresOK, InStore
<1> QED
  BY <1>1, WalkInvariant, PTL

-----------------------------------------------------------------------------
(* What the keys have been charged. *)

\* An upload whose bytes its key's counter holds.
Owes(r) == Holding(r) /\ GivesBack(r)

\* Nothing more comes of an upload whose refund failed.
Ended == \A r \in Requests : r \in unrefunded => stage[r] = "done"

\* A counter holds what is owed, or less if it was emptied once; and what is
\* owed is finite.
Counted(k) ==
    /\ IsFiniteSet(OwedBy(k))
    /\ charged[k] <= Cardinality(OwedBy(k))
    /\ k \notin lost => charged[k] = Cardinality(OwedBy(k))

Books == Ended /\ \A k \in KeyIds : Counted(k)

\* Two uploads share no byte.
LEMMA OneByte ==
    ASSUME NEW k, NEW b
    PROVE  b \in OwedBy(k) <=>
               \E q \in Requests : Owes(q) /\ keyID[q] = k /\ b[1] = q /\ b \in BytesOf(q)
BY DEF OwedBy, Owes, BytesOf

\* An upload has as many bytes as it declares.
LEMMA BytesCount ==
    ASSUME NEW r \in Requests, ask[r].length \in Nat
    PROVE  IsFiniteSet(BytesOf(r)) /\ Cardinality(BytesOf(r)) = ask[r].length
<1> DEFINE n == ask[r].length
<1>1. IsFiniteSet(1..n) /\ Cardinality(1..n) = n
  <2>1. n \in Nat
    OBVIOUS
  <2> HIDE DEF n
  <2> QED
    BY <2>1, FS_Interval
<1>2. IsFiniteSet({r}) /\ Cardinality({r}) = 1
  BY FS_Singleton
<1> HIDE DEF n
<1>3. IsFiniteSet({r} \X (1..n)) /\ Cardinality({r} \X (1..n)) = 1 * Cardinality(1..n)
  BY <1>1, <1>2, FS_Product
<1> QED
  BY <1>1, <1>3 DEF BytesOf, n

\* What is owed for a key is what its uploads owe.
LEMMA SameDebts ==
    ASSUME NEW k,
           \A q \in Requests : Owes(q)' /\ keyID'[q] = k <=> Owes(q) /\ keyID[q] = k,
           \A q \in Requests : Owes(q) /\ keyID[q] = k => ask'[q] = ask[q]
    PROVE  OwedBy(k)' = OwedBy(k)
<1>1. {q \in Requests : Holding(q) /\ keyID[q] = k /\ GivesBack(q)}'
        = {q \in Requests : Holding(q) /\ keyID[q] = k /\ GivesBack(q)}
  BY DEF Owes
<1>2. \A q \in {p \in Requests : Holding(p) /\ keyID[p] = k /\ GivesBack(p)} :
         BytesOf(q)' = BytesOf(q)
  BY DEF BytesOf, Owes
<1> QED
  BY <1>1, <1>2 DEF OwedBy

\* A step that neither makes a debt nor settles one leaves the books as they are.
LEMMA BooksKept ==
    ASSUME Books, UNCHANGED <<charged, lost>>, Ended',
           \A q \in Requests : /\ Owes(q)' <=> Owes(q)
                               /\ Owes(q) => keyID'[q] = keyID[q] /\ ask'[q] = ask[q]
    PROVE  Books'
<1>1. \A k : OwedBy(k)' = OwedBy(k)
  BY SameDebts
<1> QED
  BY <1>1 DEF Books, Counted

\* An emptied counter holds no more than is owed, if only its own key's debts
\* are settled.
LEMMA BooksEmptied ==
    ASSUME Books, charged \in [KeyIds -> Nat], NEW k \in KeyIds, Empties(k), Ended',
           UNCHANGED <<ask, keyID>>,
           \A q \in Requests : /\ Owes(q)' => Owes(q)
                               /\ Owes(q) /\ keyID[q] # k => Owes(q)'
    PROVE  Books'
<1>1. /\ charged'[k] = 0 /\ k \in lost'
      /\ \A h \in KeyIds \ {k} : charged'[h] = charged[h] /\ (h \in lost' <=> h \in lost)
  BY DEF Empties
<1>2. Counted(k)'
  <2>1. OwedBy(k)' \subseteq OwedBy(k)
    BY DEF OwedBy, Owes, BytesOf
  <2>2. PICK S, T : S = OwedBy(k) /\ T = OwedBy(k)'
    OBVIOUS
  <2>3. IsFiniteSet(S) /\ T \subseteq S
    BY <2>1, <2>2 DEF Books, Counted
  <2>4. IsFiniteSet(T) /\ Cardinality(T) \in Nat
    BY <2>3, FS_Subset, FS_CardinalityType
  <2> QED
    BY <1>1, <2>2, <2>4 DEF Counted
<1>3. ASSUME NEW h \in KeyIds \ {k} PROVE Counted(h)'
  <2>1. OwedBy(h)' = OwedBy(h)
    BY SameDebts
  <2> QED
    BY <1>1, <2>1 DEF Books, Counted
<1> QED
  BY <1>2, <1>3 DEF Books

\* Nor does one of a request that goes on owing, or owing nothing.
LEMMA BooksByOne ==
    ASSUME Books, UNCHANGED <<charged, lost, unrefunded>>, NEW r \in Requests,
           stage[r] # "done",
           \A q \in Requests \ {r} :
              /\ stage'[q] = stage[q] /\ answer'[q] = answer[q] /\ ask'[q] = ask[q]
              /\ on'[q] = on[q] /\ keyID'[q] = keyID[q],
           Holding(r)' <=> Holding(r),
           Holding(r) => ask'[r] = ask[r] /\ on'[r] = on[r] /\ keyID'[r] = keyID[r]
    PROVE  Books'
<1>1. \A q \in Requests : Holding(q)' <=> Holding(q)
  BY DEF Holding
<1>2. \A q \in Requests : Holding(q) =>
         /\ ask'[q] = ask[q] /\ on'[q] = on[q] /\ keyID'[q] = keyID[q]
         /\ GivesBack(q)' <=> GivesBack(q)
  BY DEF GivesBack, QuotaFor, Parsed, Stores
<1>3. Ended'
  BY DEF Books, Ended
<1> QED
  BY <1>1, <1>2, <1>3, BooksKept DEF Owes

\* The declared length is entered for the key, byte by byte.
LEMMA ChargeKeepsBooks ==
    ASSUME ServiceTypeOK, Admitted, Books, NEW r \in Requests, Charge(r) PROVE Books'
<1>0. PICK k : k = keyID[r]
  OBVIOUS
<1> DEFINE n == ask[r].length
           limit == QuotaFor(Parsed[on[r]], k)
<1>1. /\ stage[r] = "charge" /\ UNCHANGED <<ask, on, keyID, lost, unrefunded>>
      /\ AskTypes /\ ~Holding(r)
  BY DEF Charge, ServiceTypeOK, Admitted, AdmittedOK, Holding, Books, Ended, mishapVars
<1>2. on[r] \in Stores /\ k \in KeyIds /\ n \in Nat /\ limit \in Nat /\ charged \in [KeyIds -> Nat]
  <2>1. Accepted(r)
    BY <1>1 DEF Admitted, AdmittedOK, InFlight
  <2>2. on[r] \in Stores /\ k \in KeyIds /\ n \in 0..Parsed[on[r]].storage.maxChunkSize
    BY <1>0, <2>1 DEF Accepted
  <2>3. n \in Nat /\ limit \in Nat
    BY <2>2, QuotaTypes, ParsedTypes
  <2> QED
    BY <2>2, <2>3 DEF ServiceTypeOK, UploadTypes
<1>3. CASE limit > 0 /\ charged[k] + n > limit
  <2>1. /\ stage'[r] = "done" /\ answer'[r] = 429 /\ charged' = charged
        /\ \A q \in Requests \ {r} : stage'[q] = stage[q] /\ answer'[q] = answer[q]
    BY <1>0, <1>1, <1>3, AnswersOnly DEF Charge
  <2> QED
    BY <1>1, <2>1, BooksByOne DEF Holding
<1>4. CASE ~ (limit > 0 /\ charged[k] + n > limit)
  <2>1. /\ stage'[r] = "body" /\ answer' = answer
        /\ \A q \in Requests \ {r} : stage'[q] = stage[q]
        /\ charged' = IF limit > 0 THEN [charged EXCEPT ![k] = @ + n] ELSE charged
    BY <1>0, <1>1, <1>4, MovesOnly DEF Charge
  <2>2. ask[r].kind = "upload"
    BY <1>1 DEF Admitted, AdmittedOK, Accepted, InFlight
  <2>3. \A q \in Requests : GivesBack(q)' <=> GivesBack(q)
    BY <1>1 DEF GivesBack, QuotaFor, Parsed, Stores
  <2>4. GivesBack(r) <=> limit > 0
    BY <1>0 DEF GivesBack
  <2>5. \A q \in Requests \ {r} : Owes(q)' <=> Owes(q)
    BY <1>1, <2>1, <2>3 DEF Owes, Holding
  <2>6. ~Owes(r) /\ (Owes(r)' <=> limit > 0)
    BY <1>1, <2>1, <2>2, <2>3, <2>4 DEF Owes, Holding
  <2>0. Ended'
    BY <1>1, <2>1 DEF Books, Ended
  <2>7. CASE ~ (limit > 0)
    BY <1>1, <2>0, <2>1, <2>5, <2>6, <2>7, BooksKept
  <2>8. CASE limit > 0
    <3> HIDE DEF n, limit
    <3>1. \A q \in Requests : BytesOf(q)' = BytesOf(q)
      BY <1>1 DEF BytesOf
    <3>2. \A q \in Requests : Owes(q)' <=> Owes(q) \/ q = r
      BY <2>5, <2>6, <2>8
    <3>3. \A h, b : b \in OwedBy(h)' <=>
             \E q \in Requests : Owes(q)' /\ keyID'[q] = h /\ b[1] = q /\ b \in BytesOf(q)'
      BY DEF OwedBy, Owes, BytesOf
    <3>4. ASSUME NEW h \in KeyIds \ {k} PROVE OwedBy(h)' = OwedBy(h)
      <4>1. \A q \in Requests : Owes(q)' /\ keyID'[q] = h <=> Owes(q) /\ keyID[q] = h
        BY <1>0, <1>1, <3>2
      <4> QED
        BY <1>1, <4>1, SameDebts
    <3>5. OwedBy(k)' = OwedBy(k) \cup BytesOf(r)
      BY <1>0, <1>1, <3>1, <3>2, <3>3, OneByte DEF BytesOf
    <3>6. OwedBy(k) \cap BytesOf(r) = {}
      <4>1. \A b \in BytesOf(r) : b[1] = r
        BY DEF BytesOf
      <4> QED
        BY <2>6, <4>1, OneByte
    <3>7. IsFiniteSet(BytesOf(r)) /\ Cardinality(BytesOf(r)) = n
      BY <1>2, BytesCount DEF n
    <3>8. IsFiniteSet(OwedBy(k)) /\ Cardinality(OwedBy(k)) \in Nat
      BY <1>2, FS_CardinalityType DEF Books, Counted
    <3>9. /\ IsFiniteSet(OwedBy(k)')
          /\ Cardinality(OwedBy(k)') = Cardinality(OwedBy(k)) + n
      <4>1. PICK S, T : S = OwedBy(k) /\ T = BytesOf(r)
        OBVIOUS
      <4>2. S \cap T = {} /\ Cardinality({}) = 0 /\ IsFiniteSet(S) /\ IsFiniteSet(T)
        BY <3>6, <3>7, <3>8, <4>1, FS_EmptySet
      <4>3. /\ IsFiniteSet(S \cup T)
            /\ Cardinality(S \cup T) = Cardinality(S) + Cardinality(T) - Cardinality(S \cap T)
        BY <4>2, FS_Union
      <4>4. Cardinality(S) \in Nat /\ Cardinality(T) = n /\ Cardinality(S \cap T) = 0
        BY <3>7, <3>8, <4>1, <4>2
      <4>5. Cardinality(S \cup T) = Cardinality(S) + n
        BY <1>2, <4>3, <4>4
      <4> QED
        BY <3>5, <4>1, <4>3, <4>5
    <3>10. charged'[k] = charged[k] + n /\ \A h \in KeyIds \ {k} : charged'[h] = charged[h]
      BY <1>2, <2>1, <2>8
    <3>11. ASSUME NEW h \in KeyIds PROVE Counted(h)'
      <4>1. CASE h = k
        <5>1. PICK a, b : a = Cardinality(OwedBy(k)) /\ b = Cardinality(OwedBy(k)')
          OBVIOUS
        <5>2. /\ charged[k] \in Nat /\ a \in Nat /\ b = a + n
              /\ charged[k] <= a /\ (k \notin lost => charged[k] = a)
          BY <1>2, <3>8, <3>9, <5>1 DEF Books, Counted
        <5>3. charged'[k] <= b /\ (k \notin lost => charged'[k] = b)
          BY <1>2, <3>10, <5>2
        <5> QED
          BY <1>1, <3>9, <4>1, <5>1, <5>3 DEF Counted
      <4>2. CASE h # k
        BY <1>1, <3>4, <3>10, <4>2 DEF Books, Counted
      <4> QED
        BY <4>1, <4>2
    <3> QED
      BY <2>0, <3>11 DEF Books
  <2> QED
    BY <2>7, <2>8
<1> QED
  BY <1>3, <1>4

\* What is given back is what had been entered, and no more is taken off.
LEMMA RefundKeepsBooks ==
    ASSUME ServiceTypeOK, Admitted, Books, NEW r \in Requests, Refund(r), answer[r] # 201
    PROVE  Books'
<1>0. PICK k : k = keyID[r]
  OBVIOUS
<1> DEFINE n == ask[r].length
<1>1. /\ stage[r] = "refund" /\ stage'[r] = "done"
      /\ UNCHANGED <<ask, on, keyID, answer, lost, unrefunded>>
      /\ \A q \in Requests \ {r} : stage'[q] = stage[q]
  BY MovesOnly DEF Refund, ServiceTypeOK, mishapVars
<1>2. /\ k \in KeyIds /\ n \in Nat /\ charged \in [KeyIds -> Nat] /\ Holding(r)
  BY <1>0, <1>1, ParsedTypes DEF Admitted, AdmittedOK, Accepted, Holding, ServiceTypeOK, UploadTypes
<1>3. \A q \in Requests : GivesBack(q)' <=> GivesBack(q)
  BY <1>1 DEF GivesBack, QuotaFor, Parsed, Stores
<1>4. \A q \in Requests : Owes(q)' <=> Owes(q) /\ q # r
  <2>1. r \notin unrefunded
    BY <1>1 DEF Books, Ended
  <2> QED
    BY <1>1, <1>3, <2>1 DEF Owes, Holding
<1>9. Ended'
  BY <1>1 DEF Books, Ended
<1>5. CASE ~GivesBack(r)
  BY <1>1, <1>4, <1>5, <1>9, BooksKept DEF Refund, Owes
<1>6. CASE GivesBack(r)
  <2>0. charged' = [charged EXCEPT ![k] = AtLeastZero(@ - n)]
    BY <1>0, <1>6 DEF Refund
  <2> HIDE DEF n
  <2>1. \A q \in Requests : BytesOf(q)' = BytesOf(q)
    BY <1>1 DEF BytesOf
  <2>2. \A h, b : b \in OwedBy(h)' <=>
           \E q \in Requests : Owes(q)' /\ keyID'[q] = h /\ b[1] = q /\ b \in BytesOf(q)'
    BY DEF OwedBy, Owes, BytesOf
  <2>3. \A h \in KeyIds \ {k} : OwedBy(h)' = OwedBy(h)
    BY <1>0, <1>1, <1>4, SameDebts
  <2>4. \A b \in BytesOf(r) : b[1] = r
    BY DEF BytesOf
  <2>5. OwedBy(k)' = OwedBy(k) \ BytesOf(r)
    BY <1>0, <1>1, <1>4, <2>1, <2>2, <2>4, OneByte
  <2>6. BytesOf(r) \subseteq OwedBy(k)
    BY <1>0, <1>2, <1>6, <2>4, OneByte DEF Owes
  <2>7. IsFiniteSet(BytesOf(r)) /\ Cardinality(BytesOf(r)) = n
    BY <1>2, BytesCount DEF n
  <2>8. IsFiniteSet(OwedBy(k)) /\ Cardinality(OwedBy(k)) \in Nat
    BY <1>2, FS_CardinalityType DEF Books, Counted
  <2>9. /\ IsFiniteSet(OwedBy(k)')
        /\ Cardinality(OwedBy(k)') = Cardinality(OwedBy(k)) - n
        /\ Cardinality(OwedBy(k)) - n \in Nat
    <3>1. PICK S, T : S = OwedBy(k) /\ T = BytesOf(r)
      OBVIOUS
    <3>2. /\ IsFiniteSet(S \ T)
          /\ Cardinality(S \ T) = Cardinality(S) - Cardinality(S \cap T)
      BY <2>8, <3>1, FS_Difference
    <3>3. S \cap T = T
      BY <2>6, <3>1
    <3>4. Cardinality(S \ T) \in Nat
      BY <3>2, FS_CardinalityType
    <3> QED
      BY <2>5, <2>7, <2>8, <3>1, <3>2, <3>3, <3>4
  <2>10. /\ charged'[k] = AtLeastZero(charged[k] - n)
         /\ \A h \in KeyIds \ {k} : charged'[h] = charged[h]
    BY <1>2, <2>0
  <2>11. ASSUME NEW h \in KeyIds PROVE Counted(h)'
    <3>1. CASE h = k
      <4>1. PICK a, b : a = Cardinality(OwedBy(k)) /\ b = Cardinality(OwedBy(k)')
        OBVIOUS
      <4>2. /\ charged[k] \in Nat /\ a \in Nat /\ b = a - n /\ a - n \in Nat
            /\ charged[k] <= a /\ (k \notin lost => charged[k] = a)
        BY <1>2, <2>8, <2>9, <4>1 DEF Books, Counted
      <4>3. charged'[k] <= b /\ (k \notin lost => charged'[k] = b)
        BY <1>2, <2>10, <4>2 DEF AtLeastZero
      <4> QED
        BY <1>1, <2>9, <3>1, <4>1, <4>3 DEF Counted
    <3>2. CASE h # k
      BY <1>1, <2>3, <2>10, <3>2 DEF Books, Counted
    <3> QED
      BY <3>1, <3>2
  <2> QED
    BY <1>9, <2>11 DEF Books
<1> QED
  BY <1>5, <1>6

\* A Consume that fails enters nothing, and a Refund that fails leaves the debt
\* where it stood, or empties the counter.
LEMMA FailureKeepsBooks ==
    ASSUME ServiceTypeOK, Admitted, Books, NEW r \in Requests, ChargeFails(r) \/ RefundFails(r)
    PROVE  Books'
<1>0. PICK k : k = keyID[r]
  OBVIOUS
<1>1. /\ AskTypes /\ UNCHANGED <<ask, on, keyID>> /\ stage'[r] = "done"
      /\ \A q \in Requests \ {r} : stage'[q] = stage[q] /\ answer'[q] = answer[q]
  BY MovesOnly, AnswersOnly DEF ChargeFails, RefundFails, ServiceTypeOK
<1>2. \A q \in Requests : GivesBack(q)' <=> GivesBack(q)
  BY <1>1 DEF GivesBack, QuotaFor, Parsed, Stores
<1>3. charged \in [KeyIds -> Nat]
  BY DEF ServiceTypeOK, UploadTypes
<1>4. CASE ChargeFails(r)
  <2>1. /\ stage[r] = "charge" /\ answer'[r] = 429 /\ unrefunded' = unrefunded
    BY <1>1, <1>4, AnswersOnly DEF ChargeFails
  <2>2. answer[r] # 201 /\ r \notin unrefunded /\ k \in KeyIds
    BY <1>0, <2>1 DEF Admitted, AdmittedOK, Accepted, InFlight, Books, Ended
  <2>3. ~Holding(r) /\ ~Holding(r)'
    BY <1>1, <2>1, <2>2 DEF Holding
  <2>4. Ended'
    BY <1>1, <2>1 DEF Books, Ended
  <2>5. \A q \in Requests : Owes(q)' <=> Owes(q)
    BY <1>1, <1>2, <2>1, <2>3 DEF Owes, Holding
  <2>6. UNCHANGED <<charged, lost>> \/ Empties(k)
    BY <1>0, <1>4 DEF ChargeFails
  <2> QED
    BY <1>1, <1>3, <2>2, <2>4, <2>5, <2>6, BooksKept, BooksEmptied
<1>5. CASE RefundFails(r)
  <2>1. stage[r] = "refund" /\ answer' = answer
    BY <1>1, <1>5, MovesOnly DEF RefundFails
  <2>2. answer[r] # 201 /\ r \notin unrefunded /\ k \in KeyIds /\ ask[r].kind = "upload"
    BY <1>0, <2>1 DEF Admitted, AdmittedOK, Accepted, Books, Ended
  <2>3. CASE unrefunded' = unrefunded \cup {r} /\ UNCHANGED <<charged, lost>>
    <3>1. Ended'
      BY <1>1, <2>3 DEF Books, Ended
    <3>2. \A q \in Requests : Owes(q)' <=> Owes(q)
      BY <1>1, <1>2, <2>1, <2>2, <2>3 DEF Owes, Holding
    <3> QED
      BY <1>1, <2>3, <3>1, <3>2, BooksKept
  <2>4. CASE Empties(k) /\ UNCHANGED unrefunded
    <3>1. Ended'
      BY <1>1, <2>4 DEF Books, Ended
    <3>2. \A q \in Requests : Owes(q)' <=> Owes(q) /\ q # r
      BY <1>1, <1>2, <2>1, <2>2, <2>4 DEF Owes, Holding
    <3> QED
      BY <1>0, <1>1, <1>3, <2>2, <2>4, <3>1, <3>2, BooksEmptied
  <2> QED
    BY <1>0, <1>5, <2>3, <2>4 DEF RefundFails
<1> QED
  BY <1>4, <1>5

\* A request that owes nothing, and owes nothing after its step.
LEMMA NoDebt ==
    ASSUME ServiceTypeOK, Admitted, Books, UNCHANGED <<charged, lost, unrefunded>>,
           NEW r \in Requests,
           stage[r] \notin {"body", "sidecar", "rename", "refund", "done"},
           stage'[r] \notin {"body", "sidecar", "rename", "refund"},
           answer'[r] = answer[r] \/ answer'[r] # 201,
           \A q \in Requests \ {r} :
              /\ stage'[q] = stage[q] /\ answer'[q] = answer[q] /\ ask'[q] = ask[q]
              /\ on'[q] = on[q] /\ keyID'[q] = keyID[q]
    PROVE  Books'
<1>1. answer[r] # 201
  BY DEF Admitted, AdmittedOK
<1>2. r \notin unrefunded
  BY DEF Books, Ended
<1>3. ~Holding(r) /\ ~Holding(r)'
  BY <1>1, <1>2 DEF Holding
<1> QED
  BY <1>3, BooksByOne

(* A key is charged, at every step, for the bytes of the uploads that are      *)
(* under way, stored or could not be refunded, or for less once a failure has  *)
(* emptied its counter.  Only Charge, Refund and their failures write in the   *)
(* books; every other step must leave who owes what.                          *)
THEOREM BooksInvariant == ServiceSpec => []Books
<1>1. ServiceInit => Books
  <2> SUFFICES ASSUME ServiceInit PROVE Books
    OBVIOUS
  <2>1. Ended /\ \A q \in Requests : ~Holding(q)
    BY DEF ServiceInit, Holding, Ended
  <2>2. \A k : OwedBy(k) = {}
    BY <2>1 DEF OwedBy
  <2>3. \A k \in KeyIds : charged[k] = 0
    BY DEF ServiceInit
  <2> QED
    BY <2>1, <2>2, <2>3, FS_EmptySet DEF Books, Counted
<1>2. Books /\ ServiceTypeOK /\ Admitted /\ [ServiceNext]_serviceVars => Books'
  <2> SUFFICES ASSUME Books, ServiceTypeOK, Admitted, [ServiceNext]_serviceVars
               PROVE  Books'
    OBVIOUS
  <2> USE DEF worldVars, askVars, uploadVars, reportVars, mishapVars
  <2>0. AskTypes
    BY DEF ServiceTypeOK
  <2>1. ASSUME NEW r \in Requests, Asking(r) PROVE Books'
    <3>1. /\ stage[r] = "idle" /\ stage'[r] = "admit" /\ UNCHANGED <<on, answer, keyID, charged, lost, unrefunded>>
          /\ \A q \in Requests \ {r} : stage'[q] = stage[q] /\ ask'[q] = ask[q]
      BY <2>0, <2>1, MovesOnly DEF Asking, AskTypes
    <3> QED
      BY <3>1, NoDebt
  <2>2. ASSUME NEW r \in Requests, NotInstalled(r) PROVE Books'
    <3>1. /\ stage[r] = "admit" /\ stage'[r] = "done" /\ UNCHANGED <<ask, on, keyID, charged, lost, unrefunded>>
          /\ answer'[r] = 503
          /\ \A q \in Requests \ {r} : stage'[q] = stage[q] /\ answer'[q] = answer[q]
      BY <2>0, <2>2, AnswersOnly DEF NotInstalled
    <3> QED
      BY <3>1, NoDebt
  <2>3. ASSUME NEW r \in Requests, AdmitUpload(r) PROVE Books'
    <3>1. /\ UNCHANGED <<ask, charged, lost, unrefunded>> /\ stage[r] = "admit"
          /\ \A q \in Requests \ {r} : on'[q] = on[q] /\ keyID'[q] = keyID[q]
      BY <2>0, <2>3 DEF AdmitUpload, AskTypes
    <3>2. /\ stage'[r] \in {"room", "done"}
          /\ answer'[r] = answer[r] \/ answer'[r] # 201
          /\ \A q \in Requests \ {r} : stage'[q] = stage[q] /\ answer'[q] = answer[q]
      <4>1. CASE Refusal(Parsed[serving], ask[r]) = 0
        BY <2>0, <2>3, <4>1, MovesOnly DEF AdmitUpload
      <4>2. CASE Refusal(Parsed[serving], ask[r]) # 0
        <5>1. serving \in Stores /\ ask[r] \in Asks
          BY <2>3, ServiceAssumption DEF AdmitUpload, ServiceTypeOK, WorldTypes, AskTypes, Stores
        <5>2. Refusal(Parsed[serving], ask[r]) # 201
          BY <5>1, RefusalTypes
        <5> QED
          BY <2>0, <2>3, <4>2, <5>2, AnswersOnly DEF AdmitUpload
      <4> QED
        BY <4>1, <4>2
    <3> QED
      BY <3>1, <3>2, NoDebt
  <2>4. ASSUME NEW r \in Requests, Room(r) PROVE Books'
    <3>1. /\ UNCHANGED <<ask, on, keyID, charged, lost, unrefunded>> /\ stage[r] = "room"
          /\ stage'[r] \in {"charge", "done"}
          /\ answer'[r] = answer[r] \/ answer'[r] = 507
          /\ \A q \in Requests \ {r} : stage'[q] = stage[q] /\ answer'[q] = answer[q]
      <4>1. \/ Moves(r, "room", "charge") /\ answer' = answer
            \/ Answers(r, "room", 507)
        BY <2>4 DEF Room
      <4> QED
        BY <2>0, <2>4, <4>1, MovesOnly, AnswersOnly DEF Room
    <3> QED
      BY <3>1, NoDebt
  <2>5. ASSUME NEW r \in Requests, Charge(r) PROVE Books'
    BY <2>5, ChargeKeepsBooks
  <2>6. ASSUME NEW r \in Requests, Refund(r) PROVE Books'
    <3>1. answer[r] # 201
      BY <2>0, <2>6, MovesOnly DEF Refund, Admitted, AdmittedOK
    <3> QED
      BY <2>6, <3>1, RefundKeepsBooks
  <2>7. ASSUME NEW r \in Requests, BodyEnds(r) \/ WriteSidecar(r) PROVE Books'
    <3>1. /\ UNCHANGED <<ask, on, keyID, charged, answer, lost, unrefunded>>
          /\ stage[r] \in {"body", "sidecar"} /\ stage'[r] \in {"sidecar", "rename"}
          /\ \A q \in Requests \ {r} : stage'[q] = stage[q]
      BY <2>0, <2>7, MovesOnly DEF BodyEnds, WriteSidecar
    <3> QED
      BY <3>1, BooksByOne DEF Holding
  <2>8. ASSUME NEW r \in Requests, Publish(r) PROVE Books'
    <3>1. /\ UNCHANGED <<ask, on, keyID, charged, lost, unrefunded>>
          /\ stage[r] = "rename" /\ answer'[r] = 201
          /\ \A q \in Requests \ {r} : stage'[q] = stage[q] /\ answer'[q] = answer[q]
      BY <2>0, <2>8, AnswersOnly DEF Publish
    <3> QED
      BY <3>1, BooksByOne DEF Holding
  <2>9. ASSUME NEW r \in Requests,
              EmptyBody(r) \/ BodyFallsShort(r) \/ BodyHasNoRoom(r) \/ StorageFails(r)
       PROVE  Books'
    <3>1. PICK here \in {"body", "sidecar", "rename"}, code \in {400, 507} :
             IngestFails(r, here, code)
      BY <2>9 DEF EmptyBody, BodyFallsShort, BodyHasNoRoom, StorageFails
    <3>2. /\ UNCHANGED <<ask, on, keyID, charged, lost, unrefunded>>
          /\ stage[r] = here /\ stage'[r] = "refund" /\ answer'[r] = code
          /\ \A q \in Requests \ {r} : stage'[q] = stage[q] /\ answer'[q] = answer[q]
      BY <2>0, <3>1, MovesOnly DEF IngestFails, AskTypes
    <3>3. ask[r].kind = "upload" /\ answer[r] # 201
      BY <3>2 DEF Admitted, AdmittedOK, Accepted, InFlight
    <3> QED
      BY <3>2, <3>3, BooksByOne DEF Holding
  <2>10. ASSUME NEW r \in Requests, AdmitDelete(r) \/ MetaFails(r) \/ AdmitStats(r)
         PROVE  Books'
    <3>1. /\ UNCHANGED <<ask, charged, lost, unrefunded>> /\ stage[r] = "admit"
          /\ \A q \in Requests \ {r} : on'[q] = on[q] /\ keyID'[q] = keyID[q]
      <4>1. CASE AdmitDelete(r)
        BY <2>0, <4>1 DEF AdmitDelete, AskTypes
      <4>2. CASE AdmitStats(r)
        BY <2>0, <4>2 DEF AdmitStats, AskTypes
      <4>3. CASE MetaFails(r)
        BY <2>0, <4>3 DEF MetaFails, Answers, Moves, AskTypes
      <4> QED
        BY <2>10, <4>1, <4>2, <4>3
    <3>2. /\ stage'[r] \in {"blob", "lock", "done"}
          /\ answer'[r] = answer[r] \/ answer'[r] \in {401, 404}
          /\ \A q \in Requests \ {r} : stage'[q] = stage[q] /\ answer'[q] = answer[q]
      <4>1. CASE AdmitDelete(r)
        BY <2>0, <4>1, MovesOnly, AnswersOnly DEF AdmitDelete
      <4>2. CASE AdmitStats(r)
        BY <2>0, <4>2, MovesOnly, AnswersOnly DEF AdmitStats
      <4>3. CASE MetaFails(r)
        BY <2>0, <4>3, AnswersOnly DEF MetaFails
      <4> QED
        BY <2>10, <4>1, <4>2, <4>3
    <3> QED
      BY <3>1, <3>2, NoDebt
  <2>11. ASSUME NEW r \in Requests,
                \/ DeleteBlob(r) \/ DeleteBlobFails(r) \/ Listed(r) \/ ReadExpiry(r)
                \/ ReadExpiryFails(r) \/ DeleteMeta(r) \/ DeleteMetaFails(r) \/ Report(r)
         PROVE  Books'
    <3>1. /\ UNCHANGED <<ask, on, keyID, charged, lost, unrefunded>>
          /\ stage[r] \in {"blob", "list", "expiry", "meta", "stat"}
          /\ stage'[r] \in {"meta", "stat", "done"}
          /\ answer'[r] = answer[r] \/ answer'[r] \in {200, 204, 500}
          /\ \A q \in Requests \ {r} : stage'[q] = stage[q] /\ answer'[q] = answer[q]
      <4>1. CASE DeleteBlob(r) \/ Listed(r) \/ ReadExpiry(r)
        BY <2>0, <4>1, MovesOnly DEF DeleteBlob, Listed, ReadExpiry
      <4>2. CASE DeleteBlobFails(r) \/ ReadExpiryFails(r)
        BY <2>0, <4>2, MovesOnly DEF DeleteBlobFails, ReadExpiryFails
      <4>3. CASE DeleteMeta(r) \/ DeleteMetaFails(r)
        <5>1. PICK code \in Left : Answers(r, "meta", code)
          BY <4>3 DEF DeleteMeta, DeleteMetaFails, Left
        <5> QED
          BY <2>0, <4>3, <5>1, AnswersOnly DEF DeleteMeta, DeleteMetaFails, Left
      <4>4. CASE Report(r)
        BY <2>0, <4>4, AnswersOnly DEF Report
      <4> QED
        BY <2>11, <4>1, <4>2, <4>3, <4>4
    <3> QED
      BY <3>1, NoDebt
  <2>12. ASSUME NEW r \in Requests, Get(r) \/ StatBlob(r) PROVE Books'
    <3>1. /\ UNCHANGED <<ask, on, keyID, charged, lost, unrefunded>>
          /\ stage[r] \in {"lock", "stat"} /\ stage'[r] \in {"list", "stat", "expiry", "done"}
          /\ answer'[r] = answer[r] \/ answer'[r] = 200
          /\ \A q \in Requests \ {r} : stage'[q] = stage[q] /\ answer'[q] = answer[q]
      <4>1. CASE Get(r)
        BY <2>0, <4>1, MovesOnly, AnswersOnly DEF Get
      <4>2. CASE StatBlob(r)
        BY <2>0, <4>2, MovesOnly DEF StatBlob
      <4> QED
        BY <2>12, <4>1, <4>2
    <3> QED
      BY <3>1, NoDebt
  <2>13. ASSUME UNCHANGED <<stage, ask, on, answer, keyID, charged, lost, unrefunded>> PROVE Books'
    <3>1. Ended' /\ \A q \in Requests : Owes(q)' <=> Owes(q)
      BY <2>13 DEF Owes, Holding, GivesBack, QuotaFor, Parsed, Stores, Books, Ended
    <3> QED
      BY <2>13, <3>1, BooksKept
  <2>14. CASE \/ \E r \in Requests : \/ BodySlice(r) \/ ListShard(r)
                                     \/ ListShardFails(r) \/ StatBlobFails(r)
              \/ \E c \in Requests : Sweep(c)
              \/ Reload \/ Ticks \/ UNCHANGED serviceVars
    BY <2>13, <2>14
       DEF BodySlice, ListShard, ListShardFails, StatBlobFails, Sweep, Misreads, SweepsBlob,
           SweepsMeta, SweepLeavesBlob, Reload, Ticks, serviceVars
  <2>15. ASSUME NEW r \in Requests, ChargeFails(r) \/ RefundFails(r) PROVE Books'
    BY <2>15, FailureKeepsBooks
  <2> QED
    BY <2>1, <2>2, <2>3, <2>4, <2>5, <2>6, <2>7, <2>8, <2>9, <2>10, <2>11, <2>12, <2>14, <2>15
       DEF ServiceNext, ServerStep, Failure
<1> QED
  BY <1>1, <1>2, ServiceTypeCorrect, PTL DEF ServiceSpec

(* Whatever config comes into service meanwhile, a key is charged for no more  *)
(* than is stored for it, on its way or not refunded, and for exactly that     *)
(* unless an I/O error emptied its counter.                                   *)
THEOREM ChargedForWhatIsStored == ServiceSpec => []ChargedIsStored
<1>1. Books => ChargedIsStored
  BY DEF Books, Counted, ChargedIsStored
<1> QED
  BY <1>1, BooksInvariant, PTL
-----------------------------------------------------------------------------
(* The requests implement ChunkCache, the promise that the files of ChunkStore *)
(* keep one level below: a chunk that a 201 was given for is there until it    *)
(* expires, its owner's DELETE has been let in or a sweep cannot read its      *)
(* sidecar, and does not come back.                                          *)

\* A DELETE that was let in is answered by nothing else but 204 or 500.
Deletes(r) == stage[r] \in {"blob", "meta"} \/ answer[r] \in {204, 500}

Deleting == {ask[r].chunk : r \in {q \in Requests : Deletes(q)}}

SeenAs(c) ==
    IF answer[c] # 201 THEN "absent"
    ELSE IF file[c] = "stored" /\ ~IsExpired(c, clock) THEN "available" ELSE "gone"

Promise == INSTANCE ChunkCache WITH
              Ids <- Requests, clock <- Unix(clock), life <- [c \in Requests |-> SeenAs(c)],
              deadline <- expires, asked <- Deleting, doomed <- {},
              misread <- misread

\* No DELETE is answered before the end.
NoContentInv == \A r \in Requests : answer[r] \in {204, 500} => stage[r] = "done"

\* A step of request r that the cache's clients do not see.
Unnoticed(r) ==
    /\ stage[r] \notin {"blob", "meta", "done"} /\ stage'[r] \notin {"blob", "meta"}
    /\ answer'[r] = answer[r] \/ answer'[r] \notin {201, 204, 500}
    /\ UNCHANGED <<clock, expires, misread>>
    /\ \A q \in Requests \ {r} : /\ stage'[q] = stage[q] /\ answer'[q] = answer[q]
                                 /\ file'[q] = file[q] /\ ask'[q] = ask[q]

LEMMA WhatGoesUnnoticed ==
    ASSUME ServiceTypeOK, NEW r \in Requests,
           \/ Asking(r) \/ NotInstalled(r) \/ AdmitUpload(r) \/ Room(r) \/ Charge(r)
           \/ BodySlice(r) \/ BodyEnds(r) \/ EmptyBody(r) \/ BodyFallsShort(r)
           \/ StorageFails(r) \/ Refund(r) \/ AdmitStats(r) \/ Get(r) \/ ListShard(r)
           \/ Listed(r) \/ StatBlob(r) \/ ReadExpiry(r) \/ Report(r) \/ BodyHasNoRoom(r)
           \/ ChargeFails(r) \/ RefundFails(r) \/ MetaFails(r)
           \/ ListShardFails(r) \/ StatBlobFails(r) \/ ReadExpiryFails(r)
    PROVE  Unnoticed(r)
<1> USE DEF Unnoticed, worldVars, askVars, uploadVars, reportVars, mishapVars
<1>0. AskTypes /\ UploadTypes
  BY DEF ServiceTypeOK
<1>1. CASE Asking(r)
  <2>1. /\ stage[r] = "idle" /\ stage'[r] = "admit" /\ UNCHANGED <<answer, file, clock, expires, misread>>
        /\ \A q \in Requests \ {r} : stage'[q] = stage[q] /\ ask'[q] = ask[q]
    BY <1>0, <1>1, MovesOnly DEF Asking, AskTypes
  <2> QED
    BY <2>1
<1>2. CASE NotInstalled(r)
  BY <1>0, <1>2, AnswersOnly DEF NotInstalled
<1>3. CASE AdmitUpload(r)
  <2>1. stage[r] = "admit" /\ UNCHANGED <<ask, file, clock, expires, misread>>
    BY <1>3 DEF AdmitUpload
  <2>2. CASE Refusal(Parsed[serving], ask[r]) = 0
    BY <1>0, <1>3, <2>1, <2>2, MovesOnly DEF AdmitUpload
  <2>3. CASE Refusal(Parsed[serving], ask[r]) # 0
    <3>1. serving \in Stores /\ ask[r] \in Asks
      BY <1>3, ServiceAssumption DEF AdmitUpload, ServiceTypeOK, WorldTypes, AskTypes, Stores
    <3>2. Refusal(Parsed[serving], ask[r]) \notin {201, 204, 500}
      BY <3>1, RefusalTypes
    <3> QED
      BY <1>0, <1>3, <2>1, <2>3, <3>2, AnswersOnly DEF AdmitUpload
  <2> QED
    BY <2>2, <2>3
<1>4. CASE Room(r)
  <2>1. stage[r] = "room" /\ UNCHANGED <<ask, file, clock, expires, misread>>
    BY <1>4 DEF Room
  <2>2. (Moves(r, "room", "charge") /\ UNCHANGED answer) \/ Answers(r, "room", 507)
    BY <1>4 DEF Room
  <2> QED
    BY <1>0, <2>1, <2>2, MovesOnly, AnswersOnly
<1>5. CASE Charge(r)
  <2>1. /\ stage[r] = "charge" /\ UNCHANGED <<ask, clock, expires, misread>>
        /\ \A q \in Requests \ {r} : file'[q] = file[q]
    BY <1>0, <1>5 DEF Charge, UploadTypes
  <2>2. /\ stage'[r] \in {"body", "done"}
        /\ answer'[r] = answer[r] \/ answer'[r] = 429
        /\ \A q \in Requests \ {r} : stage'[q] = stage[q] /\ answer'[q] = answer[q]
    BY <1>0, <1>5, MovesOnly, AnswersOnly DEF Charge
  <2> QED
    BY <2>1, <2>2
<1>6. CASE BodySlice(r) \/ ListShard(r) \/ ListShardFails(r) \/ StatBlobFails(r)
  <2>1. /\ stage[r] \in {"body", "list", "stat"}
        /\ UNCHANGED <<stage, answer, file, ask, clock, expires, misread>>
    BY <1>6 DEF BodySlice, ListShard, ListShardFails, StatBlobFails
  <2> QED
    BY <2>1
<1>10. CASE BodyEnds(r) \/ Listed(r)
  BY <1>0, <1>10, MovesOnly DEF BodyEnds, Listed
<1>7. CASE EmptyBody(r) \/ BodyFallsShort(r) \/ BodyHasNoRoom(r) \/ StorageFails(r)
  <2>1. PICK here \in {"body", "sidecar", "rename"}, code \in {400, 507} :
           IngestFails(r, here, code)
    BY <1>7 DEF EmptyBody, BodyFallsShort, BodyHasNoRoom, StorageFails
  <2>2. /\ UNCHANGED <<ask, clock, expires, misread>>
        /\ \A q \in Requests \ {r} : answer'[q] = answer[q] /\ file'[q] = file[q]
        /\ answer'[r] = code
    BY <1>0, <2>1 DEF IngestFails, AskTypes, UploadTypes
  <2>3. /\ stage[r] = here /\ stage'[r] = "refund"
        /\ \A q \in Requests \ {r} : stage'[q] = stage[q]
    BY <1>0, <2>1, MovesOnly DEF IngestFails
  <2> QED
    BY <2>2, <2>3
<1>8. CASE Refund(r) \/ ReadExpiry(r) \/ RefundFails(r) \/ ReadExpiryFails(r)
  <2>1. /\ stage[r] \in {"refund", "expiry"}
        /\ Moves(r, "refund", "done") \/ Moves(r, "expiry", "stat")
        /\ UNCHANGED <<answer, file, ask, clock, expires, misread>>
    BY <1>8, Zenon DEF Refund, ReadExpiry, RefundFails, ReadExpiryFails, Moves
  <2> QED
    BY <1>0, <2>1, MovesOnly
<1>12. CASE ChargeFails(r) \/ MetaFails(r)
  <2>1. /\ stage[r] \in {"charge", "admit"}
        /\ Answers(r, "charge", 429) \/ Answers(r, "admit", 404)
        /\ UNCHANGED <<file, ask, clock, expires, misread>>
    BY <1>12, Zenon DEF ChargeFails, MetaFails, Answers, Moves
  <2> QED
    BY <1>0, <2>1, AnswersOnly
<1>11. CASE StatBlob(r)
  <2>1. stage[r] = "stat" /\ UNCHANGED <<answer, file, ask, clock, expires, misread>>
    BY <1>11 DEF StatBlob
  <2>2. stage' = stage \/ Moves(r, "stat", "expiry")
    BY <1>11 DEF StatBlob
  <2> QED
    BY <1>0, <2>1, <2>2, MovesOnly
<1>9. CASE AdmitStats(r) \/ Get(r) \/ Report(r)
  BY <1>0, <1>9, MovesOnly, AnswersOnly DEF AdmitStats, Get, Report
<1> QED
  BY <1>1, <1>2, <1>3, <1>4, <1>5, <1>6, <1>7, <1>8, <1>9, <1>10, <1>11,
     <1>12

LEMMA NoContentAtTheEnd == ServiceSpec => []NoContentInv
<1>1. ServiceInit => NoContentInv
  BY DEF ServiceInit, NoContentInv
<1>2. NoContentInv /\ ServiceTypeOK /\ [ServiceNext]_serviceVars => NoContentInv'
  <2> SUFFICES ASSUME NoContentInv, ServiceTypeOK, [ServiceNext]_serviceVars
               PROVE  NoContentInv'
    OBVIOUS
  <2> USE DEF NoContentInv, worldVars, askVars, uploadVars, reportVars, mishapVars
  <2>0. AskTypes
    BY DEF ServiceTypeOK
  <2>1. ASSUME NEW r \in Requests, Unnoticed(r) PROVE NoContentInv'
    BY <2>1 DEF Unnoticed
  <2>2. ASSUME NEW r \in Requests, AdmitDelete(r) PROVE NoContentInv'
    BY <2>0, <2>2, MovesOnly, AnswersOnly DEF AdmitDelete
  <2>3. ASSUME NEW r \in Requests, DeleteBlob(r) \/ DeleteBlobFails(r) \/ WriteSidecar(r)
        PROVE  NoContentInv'
    BY <2>0, <2>3, MovesOnly DEF DeleteBlob, DeleteBlobFails, WriteSidecar
  <2>4. ASSUME NEW r \in Requests, DeleteMeta(r) \/ DeleteMetaFails(r) \/ Publish(r)
        PROVE  NoContentInv'
    <3>1. \E code \in Statuses : Answers(r, "meta", code) \/ Answers(r, "rename", code)
      BY <2>4 DEF DeleteMeta, DeleteMetaFails, Publish, Left, Statuses
    <3> QED
      BY <2>0, <3>1, AnswersOnly
  <2>5. CASE (\E c \in Requests : Sweep(c)) \/ Reload \/ Ticks \/ UNCHANGED serviceVars
    BY <2>5 DEF Sweep, Misreads, SweepsBlob, SweepsMeta, SweepLeavesBlob, Reload, Ticks,
                serviceVars
  <2> QED
    BY <2>1, <2>2, <2>3, <2>4, <2>5, WhatGoesUnnoticed DEF ServiceNext, ServerStep, Failure
<1> QED
  BY <1>1, <1>2, ServiceTypeCorrect, PTL DEF ServiceSpec

\* What leaves the clients with the same chunks and the same DELETEs.
LEMMA NothingIsSeen ==
    ASSUME UNCHANGED <<Unix(clock), expires, misread>>,
           \A c \in Requests : SeenAs(c)' = SeenAs(c),
           \A r \in Requests : /\ Deletes(r)' <=> Deletes(r)
                               /\ Deletes(r) => ask'[r] = ask[r]
    PROVE  UNCHANGED Promise!vars
<1>1. [c \in Requests |-> SeenAs(c)]' = [c \in Requests |-> SeenAs(c)]
  OBVIOUS
<1>2. Deleting' = Deleting
  BY DEF Deleting
<1> QED
  BY <1>1, <1>2 DEF Promise!vars

LEMMA UnnoticedMaps ==
    ASSUME Admitted, NoContentInv, NEW r \in Requests, Unnoticed(r)
    PROVE  UNCHANGED Promise!vars
<1>1. answer[r] # 201 /\ answer[r] \notin {204, 500}
  BY DEF Admitted, AdmittedOK, NoContentInv, Unnoticed
<1>2. \A c \in Requests : SeenAs(c)' = SeenAs(c)
  BY <1>1 DEF Unnoticed, SeenAs, IsExpired, Unix
<1>3. \A q \in Requests : (Deletes(q)' <=> Deletes(q)) /\ (Deletes(q) => ask'[q] = ask[q])
  BY <1>1 DEF Unnoticed, Deletes
<1> QED
  BY <1>2, <1>3, NothingIsSeen DEF Unnoticed, Unix

(* Whole seconds: one tick brings the next second or is still in this one.    *)
LEMMA NextSecond ==
    ASSUME NEW t \in Nat PROVE Unix(t + 1) = Unix(t) \/ Unix(t + 1) = Unix(t) + 1
<1> DEFINE S == Second
           a == t \div S
           b == (t + 1) \div S
<1>1. S \in Nat /\ S > 0
  BY ServiceAssumption
<1>2. a \in Int /\ b \in Int
  BY <1>1, SMT
<1>3. t = (S * a) + (t % S) /\ t % S \in 0..(S - 1)
  BY <1>1, SMT
<1>4. t + 1 = (S * b) + ((t + 1) % S) /\ (t + 1) % S \in 0..(S - 1)
  BY <1>1, SMT
<1>5. S * a \in Int /\ S * b \in Int /\ S * (a + 1) \in Int /\ S * (b + 1) \in Int
  BY <1>1, <1>2, SMT
<1>6. \A x, y \in Int : x < y => S * x + S <= S * y
  <2> SUFFICES ASSUME NEW x \in Int, NEW y \in Int, x < y PROVE S * x + S <= S * y
    OBVIOUS
  <2>1. y - x >= 1
    OBVIOUS
  <2> HIDE DEF S
  <2>2. S * (y - x) >= S
    BY <1>1, <2>1, SMT
  <2> QED
    BY <1>1, <2>2, SMT
<1>7. S * (a + 1) = S * a + S
  BY <1>1, <1>2, SMT
<1> HIDE DEF S, a, b
<1>8. ~ (b < a)
  <2> SUFFICES ASSUME b < a PROVE FALSE
    OBVIOUS
  <2>1. S * b + S <= S * a
    BY <1>2, <1>6
  <2>2. PICK p, q : p = t % S /\ q = (t + 1) % S
    OBVIOUS
  <2>3. p \in 0..(S - 1) /\ q \in 0..(S - 1) /\ t = S * a + p /\ t + 1 = S * b + q
    BY <1>3, <1>4, <2>2
  <2> QED
    BY <1>1, <1>5, <2>1, <2>3
<1>9. ~ (a + 1 < b)
  <2> SUFFICES ASSUME a + 1 < b PROVE FALSE
    OBVIOUS
  <2>1. S * (a + 1) + S <= S * b
    BY <1>2, <1>6
  <2>2. PICK p, q : p = t % S /\ q = (t + 1) % S
    OBVIOUS
  <2>3. p \in 0..(S - 1) /\ q \in 0..(S - 1) /\ t = S * a + p /\ t + 1 = S * b + q
    BY <1>3, <1>4, <2>2
  <2> QED
    BY <1>1, <1>5, <1>7, <2>1, <2>3
<1>10. b = a \/ b = a + 1
  BY <1>2, <1>8, <1>9
<1> QED
  BY <1>10 DEF a, b, S, Unix

\* When a second begins, what it expires is no longer served.
LEMMA TicksMap ==
    ASSUME ServiceTypeOK, Ticks PROVE Promise!Next \/ UNCHANGED Promise!vars
<1>1. clock' = clock + 1 /\ clock \in Nat /\ UNCHANGED <<stage, ask, answer, file, expires, misread>>
  BY DEF Ticks, ServiceTypeOK, WorldTypes, askVars, uploadVars, mishapVars
<1>2. Unix(clock)' = Unix(clock + 1)
  BY <1>1 DEF Unix
<1>3. \A q \in Requests : (Deletes(q)' <=> Deletes(q)) /\ ask'[q] = ask[q]
  BY <1>1 DEF Deletes
<1>4. CASE Unix(clock)' = Unix(clock)
  <2>1. \A c \in Requests : SeenAs(c)' = SeenAs(c)
    BY <1>1, <1>4 DEF SeenAs, IsExpired, Unix
  <2> QED
    BY <1>1, <1>3, <1>4, <2>1, NothingIsSeen
<1>5. CASE Unix(clock)' = Unix(clock) + 1
  <2>1. \A c \in Requests : expires[c] \in Nat /\ Unix(clock) \in Nat
    BY <1>1, UnixTypes DEF ServiceTypeOK, UploadTypes
  <2>2. \A c \in Requests :
           SeenAs(c)' = IF SeenAs(c) = "available" /\ expires[c] <= Unix(clock)' THEN "gone"
                        ELSE SeenAs(c)
    <3>1. PICK u, v : u = Unix(clock) /\ v = Unix(clock)'
      OBVIOUS
    <3>2. \A c \in Requests : (IsExpired(c, clock) <=> expires[c] <= u)
                              /\ (IsExpired(c, clock)' <=> expires[c] <= v)
      BY <1>1, <3>1 DEF IsExpired, Unix
    <3>3. u \in Nat /\ v = u + 1
      BY <1>1, <1>5, <2>1, <3>1, UnixTypes
    <3> QED
      BY <1>1, <2>1, <3>1, <3>2, <3>3 DEF SeenAs
  <2>3. Deleting' = Deleting
    BY <1>3 DEF Deleting
  <2>4. Promise!Tick
    BY <1>1, <1>5, <2>2, <2>3 DEF Promise!Tick
  <2> QED
    BY <2>4 DEF Promise!Next
<1> QED
  BY <1>1, <1>2, <1>4, <1>5, NextSecond

\* A DELETE that found its chunk is let in.
LEMMA AdmitDeleteMaps ==
    ASSUME ServiceTypeOK, Admitted, ServiceInv, NoContentInv, NEW r \in Requests, AdmitDelete(r)
    PROVE  Promise!Next \/ UNCHANGED Promise!vars
<1> USE DEF uploadVars, worldVars, reportVars, mishapVars
<1>0. AskTypes
  BY DEF ServiceTypeOK
<1>1. /\ stage[r] = "admit" /\ UNCHANGED <<clock, ask, file, expires, misread>>
  BY DEF AdmitDelete
<1>2. answer[r] # 201 /\ answer[r] \notin {204, 500}
  BY <1>1 DEF Admitted, AdmittedOK, NoContentInv
<1>3. CASE stage'[r] = "done"
  <2>1. Unnoticed(r)
    BY <1>0, <1>1, <1>3, MovesOnly, AnswersOnly DEF AdmitDelete, Unnoticed
  <2> QED
    BY <2>1, UnnoticedMaps
<1>4. CASE stage'[r] # "done"
  <2>1. /\ stage'[r] = "blob" /\ answer' = answer
        /\ \A q \in Requests \ {r} : stage'[q] = stage[q]
        /\ file[ask[r].chunk] = "stored"
    BY <1>0, <1>4, MovesOnly, AnswersOnly DEF AdmitDelete, FoundByOwner, StoredIn
  <2>2. ask[r].chunk \in Requests
    BY <1>0 DEF AskTypes, Asks
  <2>3. PICK c \in Requests : c = ask[r].chunk
    BY <2>2
  <2>4. \A d \in Requests : SeenAs(d)' = SeenAs(d)
    BY <1>1, <2>1 DEF SeenAs, IsExpired, Unix
  <2>5. SeenAs(c) # "absent"
    BY <2>1, <2>3 DEF ServiceInv, Filed, FiledOK, SeenAs
  <2>6. Deleting' = Deleting \cup {c}
    <3>1. \A q \in Requests : Deletes(q)' <=> Deletes(q) \/ q = r
      BY <1>2, <2>1 DEF Deletes
    <3> QED
      BY <1>1, <2>3, <3>1 DEF Deleting
  <2>7. Promise!Ask(c)
    BY <1>1, <2>4, <2>5, <2>6 DEF Promise!Ask, Unix
  <2> QED
    BY <2>7 DEF Promise!Next
<1> QED
  BY <1>3, <1>4

\* An upload fixes its expiry, then it is seen.
LEMMA WriteSidecarMaps ==
    ASSUME ServiceTypeOK, Admitted, NoContentInv, NEW r \in Requests, WriteSidecar(r)
    PROVE  Promise!Next
<1> USE DEF worldVars, reportVars, mishapVars
<1>1. /\ stage[r] = "sidecar" /\ stage'[r] = "rename"
      /\ UNCHANGED <<clock, ask, answer, misread>>
      /\ \A q \in Requests \ {r} : stage'[q] = stage[q]
  BY MovesOnly DEF WriteSidecar, ServiceTypeOK
<1>2. answer[r] # 201 /\ answer[r] \notin {204, 500}
  BY <1>1 DEF Admitted, AdmittedOK, NoContentInv
<1>3. PICK t \in Nat : expires' = [expires EXCEPT ![r] = t]
  <2>1. clock + ttl[r] \in Nat
    BY DEF ServiceTypeOK, WorldTypes, UploadTypes
  <2> QED
    BY <2>1, UnixTypes DEF WriteSidecar
<1>4. \A q \in Requests \ {r} : file'[q] = file[q] /\ expires'[q] = expires[q]
  BY <1>3 DEF WriteSidecar, ServiceTypeOK, UploadTypes
<1>5. expires'[r] = t
  BY <1>3 DEF ServiceTypeOK, UploadTypes
<1>6. \A c \in Requests : SeenAs(c)' = SeenAs(c)
  BY <1>1, <1>2, <1>4 DEF SeenAs, IsExpired, Unix
<1>7. Deleting' = Deleting
  <2>1. \A q \in Requests : Deletes(q)' <=> Deletes(q)
    BY <1>1, <1>2 DEF Deletes
  <2> QED
    BY <1>1, <2>1 DEF Deleting
<1>8. SeenAs(r) = "absent"
  BY <1>2 DEF SeenAs
<1>9. Promise!SetDeadline(r)
  BY <1>1, <1>3, <1>5, <1>6, <1>7, <1>8 DEF Promise!SetDeadline, Unix
<1> QED
  BY <1>9 DEF Promise!Next

LEMMA PublishMaps ==
    ASSUME ServiceTypeOK, Admitted, NoContentInv, NEW r \in Requests, Publish(r)
    PROVE  Promise!Next
<1> USE DEF worldVars, reportVars, mishapVars
<1>1. /\ stage[r] = "rename" /\ stage'[r] = "done" /\ answer'[r] = 201
      /\ UNCHANGED <<clock, ask, expires, misread>>
      /\ \A q \in Requests \ {r} : stage'[q] = stage[q] /\ answer'[q] = answer[q]
  BY AnswersOnly DEF Publish, ServiceTypeOK
<1>2. answer[r] # 201 /\ answer[r] \notin {204, 500}
  BY <1>1 DEF Admitted, AdmittedOK, NoContentInv
<1>3. file'[r] = "stored" /\ \A q \in Requests \ {r} : file'[q] = file[q]
  BY DEF Publish, ServiceTypeOK, UploadTypes
<1>4. \A c \in Requests \ {r} : SeenAs(c)' = SeenAs(c)
  BY <1>1, <1>3 DEF SeenAs, IsExpired, Unix
<1>5. SeenAs(r) = "absent"
  BY <1>2 DEF SeenAs
<1>6. \/ SeenAs(r)' = "available"
      \/ SeenAs(r)' = "gone" /\ Promise!MayGo(r)
  BY <1>1, <1>3 DEF SeenAs, IsExpired, Unix, Promise!MayGo, Promise!Expired
<1>7. Deleting' = Deleting
  <2>1. \A q \in Requests : Deletes(q)' <=> Deletes(q)
    BY <1>1, <1>2 DEF Deletes
  <2> QED
    BY <1>1, <2>1 DEF Deleting
<1>8. Promise!Publish(r)
  <2>1. UNCHANGED <<Unix(clock), expires, misread, Deleting>>
    BY <1>1, <1>7 DEF Unix
  <2>2. \A v : SeenAs(r)' = v =>
           [c \in Requests |-> SeenAs(c)]' = [[c \in Requests |-> SeenAs(c)] EXCEPT ![r] = v]
    BY <1>4
  <2> HIDE DEF SeenAs
  <2> QED
    BY <1>5, <1>6, <2>1, <2>2 DEF Promise!Publish
<1> QED
  BY <1>8 DEF Promise!Next

\* Files of c go: it goes if it may, or it had gone.
LEMMA RemovalsMap ==
    ASSUME NEW c \in Requests, SeenAs(c) = "available" => Promise!MayGo(c),
           UNCHANGED <<clock, expires, misread, Deleting>>,
           \A d \in Requests : SeenAs(d)' = IF d = c /\ SeenAs(c)' # SeenAs(c) THEN "gone"
                                            ELSE SeenAs(d),
           SeenAs(c)' # SeenAs(c) => SeenAs(c) = "available"
    PROVE  Promise!Next \/ UNCHANGED Promise!vars
<1>1. UNCHANGED Unix(clock)
  BY DEF Unix
<1>2. CASE SeenAs(c)' = SeenAs(c)
  BY <1>1, <1>2 DEF Promise!vars
<1>3. CASE SeenAs(c)' # SeenAs(c)
  <2>1. Promise!Go(c)
    BY <1>1, <1>3 DEF Promise!Go
  <2> QED
    BY <2>1 DEF Promise!Next
<1> QED
  BY <1>2, <1>3

LEMMA DeletionMaps ==
    ASSUME ServiceTypeOK, ServiceInv, Admitted, NoContentInv, NEW r \in Requests,
           DeleteBlob(r) \/ DeleteBlobFails(r) \/ DeleteMeta(r) \/ DeleteMetaFails(r)
    PROVE  Promise!Next \/ UNCHANGED Promise!vars
<1> USE DEF worldVars, reportVars, mishapVars
<1>0. AskTypes
  BY DEF ServiceTypeOK
<1>1. /\ stage[r] \in {"blob", "meta"} /\ Deletes(r)'
      /\ UNCHANGED <<clock, ask, expires, misread>>
      /\ answer'[r] = answer[r] \/ answer'[r] \in {204, 500}
      /\ \A q \in Requests \ {r} : stage'[q] = stage[q] /\ answer'[q] = answer[q]
  <2>1. UNCHANGED <<clock, ask, expires, misread>>
    BY Zenon DEF DeleteBlob, DeleteBlobFails, DeleteMeta, DeleteMetaFails, uploadVars
  <2>2. \/ Moves(r, "blob", "meta") /\ UNCHANGED answer
        \/ \E code \in {204, 500} : Answers(r, "meta", code)
    BY DEF DeleteBlob, DeleteBlobFails, DeleteMeta, DeleteMetaFails, Left
  <2> QED
    BY <1>0, <2>1, <2>2, MovesOnly, AnswersOnly DEF Deletes
<1>2. Deletes(r) /\ answer[r] # 201 /\ answer'[r] # 201
  BY <1>1 DEF Deletes, Admitted, AdmittedOK
<1>3. ask[r].chunk \in Requests
  BY <1>0 DEF AskTypes, Asks
<1>4. PICK c \in Requests : c = ask[r].chunk
  BY <1>3
<1>5. /\ \A d \in Requests \ {c} : file'[d] = file[d]
      /\ file'[c] = file[c] \/ file'[c] \in {"husk", "orphan", "gone"}
  <2>1. \/ UNCHANGED file
        \/ \E f \in {"husk", "orphan", "gone"} : file' = [file EXCEPT ![c] = f]
    BY <1>4 DEF DeleteBlob, DeleteBlobFails, DeleteMeta, DeleteMetaFails, BlobGoes, uploadVars,
                ServiceTypeOK, UploadTypes
  <2> QED
    BY <2>1 DEF ServiceTypeOK, UploadTypes
<1>6. Deleting' = Deleting
  <2>1. \A q \in Requests : Deletes(q)' <=> Deletes(q)
    BY <1>1, <1>2 DEF Deletes
  <2> QED
    BY <1>1, <2>1 DEF Deleting
<1>7. Promise!MayGo(c)
  BY <1>2, <1>4 DEF Promise!MayGo, Deleting
<1>8. \A d \in Requests : answer'[d] = 201 <=> answer[d] = 201
  BY <1>1, <1>2
<1>9. /\ \A d \in Requests \ {c} : SeenAs(d)' = SeenAs(d)
      /\ SeenAs(c)' = SeenAs(c) \/ (SeenAs(c) = "available" /\ SeenAs(c)' = "gone")
  BY <1>1, <1>5, <1>8 DEF SeenAs, IsExpired, Unix
<1> QED
  BY <1>1, <1>6, <1>7, <1>9, RemovalsMap

\* What a sweep takes away has expired, or it could not read when it does.
LEMMA SweepsMap ==
    ASSUME ServiceTypeOK, NEW c \in Requests, Sweep(c)
    PROVE  Promise!Next \/ UNCHANGED Promise!vars
<1> USE DEF worldVars, askVars, uploadVars, mishapVars
<1>1. /\ UNCHANGED <<clock, ask, stage, answer, expires>>
      /\ \A d \in Requests \ {c} : file'[d] = file[d]
  BY DEF Sweep, Misreads, SweepsBlob, SweepsMeta, SweepLeavesBlob, BlobGoes, ServiceTypeOK,
         UploadTypes
<1>2. \A d \in Requests \ {c} : SeenAs(d)' = SeenAs(d)
  BY <1>1 DEF SeenAs, IsExpired, Unix
<1>3. Deleting' = Deleting
  BY <1>1 DEF Deleting, Deletes
<1>4. CASE Misreads(c)
  <2>1. UNCHANGED file /\ misread' = misread \cup {c}
    BY <1>4 DEF Misreads
  <2>2. \A d \in Requests : SeenAs(d)' = SeenAs(d)
    BY <1>1, <2>1 DEF SeenAs, IsExpired, Unix
  <2>3. Promise!Misread(c)
    BY <1>1, <1>3, <2>1, <2>2 DEF Promise!Misread, Unix
  <2> QED
    BY <2>3 DEF Promise!Next
<1>5. CASE SweepsBlob(c) \/ SweepsMeta(c) \/ SweepLeavesBlob(c)
  <2>1. UNCHANGED misread /\ Condemned(c)
        /\ file'[c] \in {"husk", "orphan", "gone"}
    BY <1>5 DEF SweepsBlob, SweepsMeta, SweepLeavesBlob, BlobGoes, HasBlob, ServiceTypeOK,
                UploadTypes
  <2>2. Promise!MayGo(c)
    BY <2>1 DEF Condemned, IsExpired, Promise!MayGo, Promise!Expired
  <2>3. SeenAs(c)' = SeenAs(c) \/ (SeenAs(c) = "available" /\ SeenAs(c)' = "gone")
    BY <1>1, <2>1 DEF SeenAs, IsExpired, Unix
  <2> QED
    BY <1>1, <1>2, <1>3, <2>1, <2>2, <2>3, RemovalsMap
<1> QED
  BY <1>4, <1>5 DEF Sweep

(* What a client is told by the answers of the server is what ChunkCache       *)
(* promises: after a 201 the chunk can be had until it expires, a DELETE by    *)
(* its owner was let in or a sweep could not read its sidecar, whatever        *)
(* configs come into service, and once gone it stays gone.                    *)
THEOREM ServiceKeepsPromise == ServiceSpec => Promise!Spec
<1>1. ServiceInit => Promise!Init
  <2> SUFFICES ASSUME ServiceInit PROVE Promise!Init
    OBVIOUS
  <2>1. Unix(clock) = 0
    <3>1. clock = 0
      BY DEF ServiceInit
    <3>2. \A s \in Nat \ {0} : 0 \div s = 0
      BY SMT
    <3> QED
      BY <3>1, <3>2, ServiceAssumption DEF Unix
  <2>2. \A c \in Requests : SeenAs(c) = "absent" /\ ~Deletes(c)
    BY DEF ServiceInit, SeenAs, Deletes
  <2>3. Deleting = {}
    BY <2>2 DEF Deleting
  <2>4. expires = [c \in Requests |-> 0] /\ misread = {}
    BY DEF ServiceInit
  <2> QED
    BY <2>1, <2>2, <2>3, <2>4 DEF Promise!Init
<1>2. ServiceTypeOK /\ Admitted /\ ServiceInv /\ NoContentInv /\ [ServiceNext]_serviceVars
      => [Promise!Next]_(Promise!vars)
  <2> SUFFICES ASSUME ServiceTypeOK, Admitted, ServiceInv, NoContentInv,
                      [ServiceNext]_serviceVars
               PROVE  Promise!Next \/ UNCHANGED Promise!vars
    OBVIOUS
  <2>1. ASSUME NEW r \in Requests, Unnoticed(r) PROVE UNCHANGED Promise!vars
    BY <2>1, UnnoticedMaps
  <2>2. ASSUME NEW r \in Requests,
               \/ AdmitDelete(r) \/ WriteSidecar(r) \/ Publish(r) \/ DeleteBlob(r) \/ DeleteMeta(r)
               \/ DeleteBlobFails(r) \/ DeleteMetaFails(r)
        PROVE  Promise!Next \/ UNCHANGED Promise!vars
    BY <2>2, AdmitDeleteMaps, WriteSidecarMaps, PublishMaps, DeletionMaps
  <2>3. ASSUME NEW c \in Requests, Sweep(c)
        PROVE  Promise!Next \/ UNCHANGED Promise!vars
    BY <2>3, SweepsMap
  <2>4. CASE Reload \/ UNCHANGED serviceVars
    <3>1. UNCHANGED <<clock, stage, ask, answer, file, expires, misread>>
      BY <2>4 DEF Reload, serviceVars, worldVars, askVars, uploadVars, mishapVars
    <3>2. \A c \in Requests : SeenAs(c)' = SeenAs(c)
      BY <3>1 DEF SeenAs, IsExpired, Unix
    <3>3. \A q \in Requests : (Deletes(q)' <=> Deletes(q)) /\ ask'[q] = ask[q]
      BY <3>1 DEF Deletes
    <3> QED
      BY <3>1, <3>2, <3>3, NothingIsSeen DEF Unix
  <2>5. CASE Ticks
    BY <2>5, TicksMap
  <2> QED
    BY <2>1, <2>2, <2>3, <2>4, <2>5, WhatGoesUnnoticed DEF ServiceNext, ServerStep, Failure
<1> QED
  BY <1>1, <1>2, ServiceTypeCorrect, ServiceInvariant, NoContentAtTheEnd, PTL
     DEF ServiceSpec, Promise!Spec
=============================================================================
