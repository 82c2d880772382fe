--------------------------------- MODULE Auth ---------------------------------
(***************************************************************************)
(* internal/security: who is calling.  Of a request's headers the module     *)
(* keeps the token each carries, and of its peer what the server tells apart.*)
(***************************************************************************)
EXTENDS Config

CONSTANTS
    Malformed,      \* an Authorization header that is not "Bearer token"
    Nobody          \* no key: a credential that is missing or wrong

ASSUME AuthAssumption ==
    /\ Malformed \notin Secrets
    /\ Malformed # NoSecret
    /\ Nobody \notin KeyIds

Credentials == [authorization : Secrets \cup {NoSecret, Malformed},
                apiKey : Secrets \cup {NoSecret}]

Caller == [peer : {"loopback", "remote"}, forwarded : BOOLEAN]

(* Authorization wins; one that is no bearer token counts as none, and then   *)
(* X-Api-Key is read.                                                        *)
PresentedSecret(c) ==
    IF c.authorization \in Secrets THEN c.authorization ELSE c.apiKey

HasCredential(c) == PresentedSecret(c) # NoSecret

Matched(cfg, secret) ==
    {id \in DOMAIN cfg.keys : cfg.keys[id].secret = secret /\ cfg.keys[id].enabled}

(* The loop over the keys does not break, so of several that match the last   *)
(* in their order is the caller.                                             *)
Identify(cfg, c) ==
    LET ids == Matched(cfg, PresentedSecret(c)) IN
    IF ids = {} THEN Nobody ELSE CHOOSE id \in ids : \A other \in ids : other <= id

OwnsChunk(owner, id) == owner = id

(* A loopback peer may be a proxy, which says so in a forwarding header.      *)
IsLocalCaller(caller) == caller.peer = "loopback" /\ ~caller.forwarded
=============================================================================
