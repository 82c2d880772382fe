------------------------------- MODULE MCServer -------------------------------
(***************************************************************************)
(* The parts that need no large instance, side by side in one state space:    *)
(* a behaviour is one part's, and the others rest in their initial states.    *)
(***************************************************************************)
EXTENDS Service, Loading, PublicAddr, Links, Forms, TLC

VARIABLE part

vars == <<part, serviceVars, loadingVars, setupVars, linkVars, formVars>>

Init ==
    /\ part \in {"service", "loading", "setup", "links", "forms"}
    /\ ServiceInit /\ LoadingInit /\ SetupInit /\ LinksInit /\ FormsInit

Next ==
    /\ UNCHANGED part
    /\ \/ /\ part = "service"
          /\ ServiceNext
          /\ UNCHANGED <<loadingVars, setupVars, linkVars, formVars>>
       \/ /\ part = "loading"
          /\ LoadingNext
          /\ UNCHANGED <<serviceVars, setupVars, linkVars, formVars>>
       \/ /\ part = "setup"
          /\ SetupNext
          /\ UNCHANGED <<serviceVars, loadingVars, linkVars, formVars>>
       \/ /\ part = "links"
          /\ LinksNext
          /\ UNCHANGED <<serviceVars, loadingVars, setupVars, formVars>>
       \/ /\ part = "forms"
          /\ FormsNext
          /\ UNCHANGED <<serviceVars, loadingVars, setupVars, linkVars>>

\* Fairness asks nothing of a part at rest.
Spec == Init /\ [][Next]_vars /\ ServiceFairness /\ SetupFairness

(* The types of the parts that keep a state.                                  *)
TypeOK == ServiceTypeOK /\ LoadingTypeOK /\ SetupTypeOK

-----------------------------------------------------------------------------
(* Service *)

CONSTANTS r1, r2, r3, s1, s2, s3

NoCredential == [authorization |-> NoSecret, apiKey |-> NoSecret]
Bearer(s) == [authorization |-> s, apiKey |-> NoSecret]
Ask(kind, c, from, length, seconds, chunk) ==
    [kind |-> kind, credentials |-> c, caller |-> from, length |-> length, seconds |-> seconds, chunk |-> chunk]
Remote == [peer |-> "remote", forwarded |-> FALSE]
Here == [peer |-> "loopback", forwarded |-> FALSE]
Upload(c, length, seconds) == Ask("upload", c, Remote, length, seconds, r1)
Delete(c) == Ask("delete", c, Remote, 0, 0, r1)
Stats(c, from) == Ask("stats", c, from, 0, 0, r1)

TheAsks == [r \in Requests |->
    CASE r = r1 -> {Upload(Bearer(s1), 2, 1), Stats(Bearer(s2), Remote)}
      [] r = r2 -> {Upload(NoCredential, 1, 21), Upload(Bearer(s1), 3, 1), Upload(Bearer(s1), -1, 1),
                    Upload([authorization |-> Malformed, apiKey |-> s2], 0, 1),
                    Stats(NoCredential, Here)}
      [] r = r3 -> {Delete(Bearer(s1)), Delete(Bearer(s2))}]

Key(secret, quota, enabled) == [secret |-> secret, quota |-> quota, enabled |-> enabled]
TheServer == [mode |-> "known", basePath |-> "rooted", baseURL |-> "none"]

TheConfigs == <<
   [server |-> TheServer, dir |-> "old",
    storage |-> [maxChunkSize |-> 2, minFree |-> 1, defaultTTL |-> 2, maxTTL |-> 3],
    upload |-> [open |-> TRUE, openQuota |-> 0],
    keys |-> (1 :> Key(s1, 2, "absent") @@ 2 :> Key(s2, -1, "yes"))],
   [server |-> TheServer, dir |-> "new",
    storage |-> [maxChunkSize |-> 0, minFree |-> 0, defaultTTL |-> 1, maxTTL |-> 0],
    upload |-> [open |-> FALSE, openQuota |-> 0],
    keys |-> (0 :> Key(s1, 0, "yes") @@ 1 :> Key(s1, 0, "yes") @@ 2 :> Key(s1, 2, "no"))],
   [server |-> TheServer, dir |-> "old",
    storage |-> [maxChunkSize |-> 2, minFree |-> -1, defaultTTL |-> 3, maxTTL |-> 3],
    upload |-> [open |-> TRUE, openQuota |-> 1],
    keys |-> (1 :> Key(s2, 1, "yes") @@ 2 :> Key(NoSecret, 0, "yes"))]
 >>

-----------------------------------------------------------------------------
(* Loading and PublicAddr *)

Env(config, setting) == [config |-> config, setting |-> setting]
TheShells == {Env(Absent, Absent), Env("other", Absent), Env(Absent, "s1")}
TheDotEnvs == {Env("other", Absent), Env(Absent, "s2"), Env(Absent, Absent)}

Echoes == [t \in Targets |-> {"pub"} \cup IF t = "ipify" THEN {"v6"} ELSE {"lan"}]
TheHosts == {<<>>, <<"lo", "ll">>, <<"lan", "pub">>, <<"v6", "lan">>, <<"lan", "pub2", "pub">>}
TheListens == [bound : {NoAddr, "any", "lo", "lan", "pub", "v6"}, named : {NoAddr}, port : {0, 80}]
    \cup [bound : {NoAddr}, named : {"lan", "lo"}, port : {80}]

-----------------------------------------------------------------------------
(* Links and Forms *)

Pieces == {<<47>>, <<32, 47>>, <<194, 160, 47>>, <<195>>, <<37>>, <<37, 50, 53>>, <<55, 67>>,
           <<124, 97>>, <<124, 107, 61>>, <<124, 47>>}

N(n) == [kind |-> "number", value |-> n]
Bad == [kind |-> "bad", value |-> 0]
NaN == [kind |-> "nan", value |-> 0]
TheNaN == {0, -1}
Url(kind, path) == [kind |-> kind, path |-> path]
TheDefaults ==
    [keyId |-> <<97>>, openUpload |-> FALSE, openUploadQuotaGb |-> N(10), quotaGb |-> N(0),
     minFreeGb |-> N(1), defaultTtlHours |-> N(48), maxTtlHours |-> N(168), publicBaseUrl |-> Url("blank", <<>>)]
MaxTTLName == <<109, 97, 120, 95, 116, 116, 108>>
TheNames == {MaxTTLName}
Ids == {anonymous, <<65, 110, 111, 110, 121, 109, 111, 117, 115>>, <<>>, <<97, 46>>, <<194, 160, 97, 32>>,
        <<97, 48, 95, 45>>, MaxTTLName, null, <<49, 50>>, <<48, 48, 55>>, <<49, 101, 45, 51>>, <<48, 120, 97>>,
        <<49, 95, 48>>, <<45, 48>>, <<50, 48, 50, 52, 45, 49, 45, 51, 49>>, <<49, 50, 45, 97>>}
Gigabytes == {N(-1), N(0), N(1000000), N(1000001), Bad, NaN}
Hours == {N(0), N(1), N(8760), N(8761), Bad}
Urls == {Url("blank", <<>>), Url("other", <<>>)}
    \cup {Url(k, <<49>> \o FlattenSeq(path)) :
              k \in {"lower", "upper"},
              path \in BoundedSeq({<<32>>, <<194, 160>>, <<36>>, <<47>>, <<49>>, <<255>>}, 3)}
TheTyped == [f \in FieldNames |->
    CASE f = "keyId" -> Ids
      [] f = "openUpload" -> {TRUE, FALSE}
      [] f \in {"openUploadQuotaGb", "quotaGb", "minFreeGb"} -> Gigabytes
      [] f \in {"defaultTtlHours", "maxTtlHours"} -> Hours
      [] f = "publicBaseUrl" -> Urls]
=============================================================================
