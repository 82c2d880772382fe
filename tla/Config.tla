-------------------------------- MODULE Config --------------------------------
(***************************************************************************)
(* internal/config: what Parse makes of a config that viper has loaded, and *)
(* what the rest of the server asks of it.  A raw config is what the file    *)
(* and the environment say, with 0 for what they leave out.                  *)
(***************************************************************************)
EXTENDS Integers, FiniteSets

CONSTANTS
    LastKeyId,          \* bound: the last id that a key may have
    AnonymousKeyID,
    Secrets, NoSecret,
    FallbackChunkSize,  \* 10 MiB
    FallbackTTL,        \* 48 hours
    FallbackMaxTTL      \* a week

\* Key ids; a number is an id's place in their order.
KeyIds == 0..LastKeyId

ASSUME ConfigAssumption ==
    /\ LastKeyId \in Nat
    /\ AnonymousKeyID \in KeyIds
    /\ NoSecret \notin Secrets
    /\ FallbackChunkSize \in Nat \ {0}
    /\ FallbackTTL \in Nat \ {0}
    /\ FallbackMaxTTL \in Nat \ {0}

\* An api_keys entry as written; "enabled" may be left out.
RawAPIKey == [secret : Secrets \cup {NoSecret}, quota : Int, enabled : {"yes", "no", "absent"}]

APIKey == [secret : Secrets, quota : Nat, enabled : BOOLEAN]

\* What the length and the scheme of server.public_base_url come to.
BaseURLs == {"none", "http", "https", "long", "relative"}

ServerConfig == [mode : {"known", "unknown"}, basePath : {"rooted", "malformed"}, baseURL : BaseURLs]

StorageConfig == [maxChunkSize : Int, minFree : Int, defaultTTL : Int, maxTTL : Int]

UploadConfig == [open : BOOLEAN, openQuota : Int]

IsRawConfig(raw) ==
    /\ raw.server \in ServerConfig
    /\ raw.storage \in StorageConfig
    /\ raw.upload \in UploadConfig
    /\ raw.keys \in [DOMAIN raw.keys -> RawAPIKey]
    /\ DOMAIN raw.keys \subseteq KeyIds

AtLeastZero(n) == IF n < 0 THEN 0 ELSE n

OrFallback(n, fallback) == IF n <= 0 THEN fallback ELSE n

(* A key called "anonymous", and one with no secret, is never loaded; an      *)
(* absent "enabled" means enabled.  Their order is the ids' own.              *)
normaliseKeys(keys) ==
    [id \in {i \in DOMAIN keys : i # AnonymousKeyID /\ keys[i].secret # NoSecret} |->
        [secret |-> keys[id].secret, quota |-> AtLeastZero(keys[id].quota),
         enabled |-> keys[id].enabled # "no"]]

applyDefaults(raw) ==
    [server |-> raw.server,
     storage |-> [maxChunkSize |-> OrFallback(raw.storage.maxChunkSize, FallbackChunkSize),
                  minFree |-> AtLeastZero(raw.storage.minFree),
                  defaultTTL |-> OrFallback(raw.storage.defaultTTL, FallbackTTL),
                  maxTTL |-> OrFallback(raw.storage.maxTTL, FallbackMaxTTL)],
     upload |-> [open |-> raw.upload.open, openQuota |-> AtLeastZero(raw.upload.openQuota)],
     keys |-> normaliseKeys(raw.keys)]

validate(cfg) ==
    /\ cfg.server.mode = "known"
    /\ cfg.server.basePath = "rooted"
    /\ cfg.server.baseURL \notin {"long", "relative"}
    /\ cfg.storage.defaultTTL <= cfg.storage.maxTTL

\* Parse refuses what does not validate.
Parses(raw) == validate(applyDefaults(raw))

-----------------------------------------------------------------------------
\* A bug to catch: a request over the ceiling is granted.
ClampTTLFromBelow(cfg, requested) ==
    IF requested <= 0 THEN cfg.storage.defaultTTL ELSE requested

ClampTTL(cfg, requested) ==
    IF requested <= 0 THEN cfg.storage.defaultTTL
    ELSE IF requested > cfg.storage.maxTTL THEN cfg.storage.maxTTL ELSE requested

\* 0 is unlimited, and so is a key that is not there.
QuotaFor(cfg, id) ==
    IF id = AnonymousKeyID THEN cfg.upload.openQuota
    ELSE IF id \in DOMAIN cfg.keys THEN cfg.keys[id].quota ELSE 0
=============================================================================
