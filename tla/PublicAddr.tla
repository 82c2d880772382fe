------------------------------ MODULE PublicAddr ------------------------------
(***************************************************************************)
(* pkg/publicaddr and its caller, `init` (cmd/init.go): which address of this *)
(* host goes into the link when nobody typed one.  Probe asks several echo    *)
(* services at once and takes the first good answer; Choose weighs it against *)
(* the interfaces and the listen address.  Of an address the module keeps     *)
(* its class.                                                               *)
(***************************************************************************)
EXTENDS Naturals, Sequences, FiniteSets, SequencesExt

CONSTANTS
    Targets,        \* the echo services
    Public4, Public6, Private, LinkLocal, Loopback, Unspecified,  \* addresses
    NoAddr,         \* netip's zero Addr
    Says,           \* Says[t]: what service t may answer with
    HostAddrs,      \* the lists of addresses that the interfaces may have
    Listens         \* what server.addr may be

Addresses == Public4 \cup Public6 \cup Private \cup LinkLocal \cup Loopback \cup Unspecified

(* server.addr: bound is what splitListen makes of its host, for which one that *)
(* is empty or a name, other than localhost, has no address; named is the      *)
(* address that net.Listen resolves such a name to.                          *)
Listen == {at \in [bound : Addresses \cup {NoAddr}, named : (Addresses \ Unspecified) \cup {NoAddr},
                   port : Nat] : at.named = NoAddr \/ at.bound = NoAddr}

Kinds == {"None", "Verified", "BehindNAT", "Unverified", "LANOnly"}

NoChoice == [kind |-> "None", host |-> NoAddr, port |-> 0, lan |-> NoAddr, proxied |-> FALSE]

ASSUME PublicAddrAssumption ==
    /\ NoAddr \notin Addresses
    /\ IsFiniteSet(Targets) /\ Targets # {}
    /\ \A t \in Targets : Says[t] \subseteq Addresses
    /\ HostAddrs \subseteq Seq(Addresses)
    /\ Listens \subseteq Listen

VARIABLES
    caller,         \* how far `init` is
    fetcher,        \* fetcher[t]: how far the goroutine is that asks t
    said,           \* said[t]: what it makes of the answer; NoAddr is an error
    answers,        \* the channel
    heard,          \* the services whose answers were received
    ended,          \* the context's deadline has passed, or Probe has returned
    probed, by,     \* what Probe returned
    host,           \* the addresses of this host's interfaces
    listen,         \* where the server listens
    choice          \* what Choose returned

probeVars == <<fetcher, said, answers, heard, ended, probed, by>>
setupVars == <<caller, probeVars, host, listen, choice>>

-----------------------------------------------------------------------------
Public == Public4 \cup Public6

(* Local leaves out IPv6, loopback and link-local addresses: a list with gaps, *)
(* since no more is asked of it than what comes first.                        *)
Local(addrs) == Restrict(addrs, {i \in DOMAIN addrs : addrs[i] \in Public4 \cup Private})

\* The first address of a kind.
First(addrs, kind) ==
    LET places == {i \in DOMAIN addrs : addrs[i] \in kind} IN
    IF places = {} THEN NoAddr ELSE addrs[Min(places)]

\* A listener that is bound to one address answers on no other.  That a name is
\* bound to one goes unseen.
BoundToOne(at) == at.bound \notin Loopback \cup Unspecified \cup {NoAddr}

\* A bug to catch: every interface is a candidate.
AnyCandidate(locals, at) == locals

Candidates(locals, at) == IF BoundToOne(at) THEN <<at.bound>> ELSE locals

Choose(answer, locals, at) ==
    LET addrs == Candidates(locals, at)
        public == First(addrs, Public)
        lan == First(addrs, Addresses \ Public)
        found == answer \in Range(addrs)
        proxied == at.bound \in Loopback
        Chosen(kind, addr, inside) ==
            [kind |-> kind, host |-> addr, lan |-> inside, proxied |-> proxied,
             port |-> IF proxied THEN 0 ELSE at.port] IN
    CASE answer # NoAddr /\ found -> Chosen("Verified", answer, NoAddr)
      [] answer # NoAddr /\ ~found -> Chosen("BehindNAT", answer, lan)
      [] answer = NoAddr /\ public # NoAddr -> Chosen("Unverified", public, NoAddr)
      [] answer = NoAddr /\ public = NoAddr /\ lan # NoAddr -> Chosen("LANOnly", lan, NoAddr)
      [] OTHER -> NoChoice

-----------------------------------------------------------------------------
SetupInit ==
    /\ caller = "idle"
    /\ fetcher = [t \in Targets |-> "idle"]
    /\ said = [t \in Targets |-> NoAddr]
    /\ answers = <<>>
    /\ heard = {}
    /\ ended = FALSE
    /\ probed = NoAddr
    /\ by = NoAddr
    /\ host = <<>>
    /\ listen = [bound |-> NoAddr, named |-> NoAddr, port |-> 0]
    /\ choice = NoChoice

\* `init` without --public-base-url, on some host: Probe starts its goroutines.
DetectAddress ==
    /\ caller = "idle"
    /\ caller' = "probing"
    /\ fetcher' = [t \in Targets |-> "asking"]
    /\ host' \in HostAddrs
    /\ listen' \in Listens
    /\ UNCHANGED <<said, answers, heard, ended, probed, by, choice>>

(* fetch: anything that is not a public IPv4 address is an error, as is a      *)
(* connection or a status that failed.                                       *)
Fetches(t) ==
    /\ fetcher[t] = "asking"
    /\ fetcher' = [fetcher EXCEPT ![t] = "sending"]
    /\ \E a \in Says[t] : said' = [said EXCEPT ![t] = IF a \in Public4 THEN a ELSE NoAddr]
    /\ UNCHANGED <<caller, answers, heard, ended, probed, by, host, listen, choice>>

FetchFails(t) ==
    /\ fetcher[t] = "asking"
    /\ fetcher' = [fetcher EXCEPT ![t] = "sending"]
    /\ UNCHANGED <<caller, said, answers, heard, ended, probed, by, host, listen, choice>>

\* A bug to catch: the channel has no room for answers nobody waits for.
ChannelUnbuffered == caller = "probing" /\ answers = <<>>

ChannelRoom == Len(answers) < Cardinality(Targets)

Sends(t) ==
    /\ fetcher[t] = "sending"
    /\ ChannelRoom
    /\ fetcher' = [fetcher EXCEPT ![t] = "ended"]
    /\ answers' = Append(answers, t)
    /\ UNCHANGED <<caller, said, heard, ended, probed, by, host, listen, choice>>

\* A good answer, or the last of them all.
Settles(t) == said[t] # NoAddr \/ heard \cup {t} = Targets

(* The first good answer is returned, and the deferred cancel ends the rest.  *)
Receives ==
    /\ caller = "probing"
    /\ answers # <<>>
    /\ LET t == Head(answers) IN
       /\ heard' = heard \cup {t}
       /\ probed' = said[t]
       /\ by' = t
       /\ IF Settles(t) THEN caller' = "choosing" /\ ended' = TRUE
                     ELSE UNCHANGED <<caller, ended>>
    /\ answers' = Tail(answers)
    /\ UNCHANGED <<fetcher, said, host, listen, choice>>

\* The timeout of the context.
Expires ==
    /\ caller = "probing"
    /\ ~ended
    /\ ended' = TRUE
    /\ UNCHANGED <<caller, fetcher, said, answers, heard, probed, by, host, listen, choice>>

Chooses ==
    /\ caller = "choosing"
    /\ caller' = "done"
    /\ choice' = Choose(probed, Local(host), listen)
    /\ UNCHANGED <<probeVars, host, listen>>

SetupNext ==
    \/ DetectAddress \/ Receives \/ Expires \/ Chooses
    \/ \E t \in Targets : Fetches(t) \/ FetchFails(t) \/ Sends(t)

SetupSpec == SetupInit /\ [][SetupNext]_setupVars

\* A fetch is over when the context is; until then a service may take its time.
FetchEnds(t) == ended /\ FetchFails(t)

(* Whenever there is a goroutine that can go on, or a deadline to pass, one    *)
(* does: no more is needed, since there is an end to what they can do.        *)
SetupStep ==
    \/ Receives \/ Expires \/ Chooses
    \/ \E t \in Targets : FetchEnds(t) \/ Sends(t)

SetupFairness == WF_setupVars(SetupStep)

FairSetup == SetupSpec /\ SetupFairness

-----------------------------------------------------------------------------
(* Properties. *)

SetupTypeOK ==
    /\ caller \in {"idle", "probing", "choosing", "done"}
    /\ fetcher \in [Targets -> {"idle", "asking", "sending", "ended"}]
    /\ said \in [Targets -> Public4 \cup {NoAddr}]
    /\ answers \in Seq(Targets)
    /\ heard \in SUBSET Targets
    /\ ended \in BOOLEAN
    /\ probed \in Public4 \cup {NoAddr}
    /\ by \in Targets \cup {NoAddr}
    /\ host \in Seq(Addresses)
    /\ listen \in Listen
    /\ choice.kind \in Kinds

\* What net.Listen binds: the address, or the one that a name resolves to.
Bound(at) == IF at.named = NoAddr THEN at.bound ELSE at.named

\* What the listener answers on, or a proxy for one on loopback: its one address,
\* or every one of the host's.
AnswersOn(addr) ==
    IF listen.named # NoAddr \/ BoundToOne(listen) THEN addr = Bound(listen)
    ELSE addr \in Range(host)

(* Probe: "every one has to fail for failure to be the answer", and the       *)
(* service it names gave the address.  A private address, or none, is offered *)
(* only if no service answered and there is no better one.  Of a server.addr  *)
(* whose host is an address, localhost or empty, one that `init` calls this   *)
(* machine's own is one that its server listens on, on the port in the link,  *)
(* unless a proxy has to relay to it, and one it says to be behind a router   *)
(* is not.  A host that is another name is not resolved, and `init` offers an *)
(* interface that the server need not answer on.                             *)
AddressAnswers ==
    caller = "done" =>
        /\ probed # NoAddr => by \in heard /\ said[by] = probed
        /\ choice.kind \in {"None", "Unverified", "LANOnly"} =>
              heard = Targets /\ \A t \in Targets : said[t] = NoAddr
        /\ choice.kind \in {"Verified", "Unverified", "LANOnly"} =>
              /\ choice.kind = "LANOnly" <=> choice.host \notin Public
              /\ choice.proxied \/ choice.port = listen.port
              /\ choice.proxied \/ AnswersOn(choice.host)
                 \/ (listen.named # NoAddr /\ choice.host \in Range(host))
        /\ listen.named = NoAddr =>
              /\ choice.kind = "BehindNAT" => ~AnswersOn(choice.host)
              /\ choice.kind = "LANOnly" => \A a \in Public4 : ~AnswersOn(a)
              /\ choice.kind = "None" => \A a \in Public4 \cup Private : ~AnswersOn(a)

(* Nothing hangs: the probe ends although services may never answer, and the  *)
(* goroutines whose answers come too late for it end as well.                 *)
NoFetchIsStuck ==
    <>[](caller = "idle" \/ (caller = "done" /\ \A t \in Targets : fetcher[t] = "ended"))
=============================================================================
