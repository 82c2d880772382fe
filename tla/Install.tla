------------------------------ MODULE Install ------------------------------
(***************************************************************************)
(* The setup page and what it sets going: http_public/install.go,            *)
(* internal/install (the config file and its marker, var/install.json),      *)
(* cmd/init.go (the same install from a shell), and cmd/serve.go, whose      *)
(* Reload brings a new config into service and restarts the sweep loop.      *)
(*                                                                          *)
(* A secret is generated by at most one request, so it is named after it.    *)
(* Every secret goes under the form's default key id, the operator's own,    *)
(* Hand, too: that is the case in which a marker can reveal it.             *)
(*                                                                          *)
(* Left out: the contents of the config beside the key, the form's fields    *)
(* (a form is good or bad), gc.interval = 0, and the commit's temp file,     *)
(* whose name is its request's own.                                         *)
(***************************************************************************)
EXTENDS Integers, FiniteSets

CONSTANTS
    Reqs,           \* requests to /install, and runs of the init command
    KindsOf,        \* what each of them may be: "GET", "HEAD", "POST", "init"
    Hand,           \* the secret in a config written by hand
    NoKey,          \* no secret: there is no config file
    Boot,           \* the sweep loop that RunE starts before it serves
    Main,           \* RunE itself, as a holder of the sweeper's mutex
    Nobody,
    ConfigFlag,     \* whether --config or its environment variable is set
    MaxFaults,      \* bound: how many system calls fail
    MaxBoots,       \* bound: how often the server is started again
    MaxEdits        \* bound: how often the operator changes the config file

ASSUME InstallAssumption ==
    /\ KindsOf \in [Reqs -> SUBSET {"GET", "HEAD", "POST", "init"}]
    /\ ConfigFlag \in BOOLEAN
    /\ MaxFaults \in Nat /\ MaxBoots \in Nat /\ MaxEdits \in Nat
    /\ Hand \notin Reqs /\ NoKey \notin Reqs \cup {Hand}
    /\ Boot \notin Reqs /\ Main \notin Reqs /\ Nobody \notin Reqs \cup {Main, Boot}

Keys == Reqs \cup {Hand}
Dirs == {"config", "var"}
Loops == Reqs \cup {Boot}

VARIABLES
    conf,           \* the secret in the config file, or NoKey
    marker,         \* what a reader makes of the marker file
    probes,         \* the directories in which a probe file lies
    phase,          \* the server process
    installed,      \* current.installed
    live,           \* the secret in current.cfg
    loaded,         \* the secret in the process-wide viper
    holder,         \* who holds the sweeper's mutex
    registered,     \* the loop that sweeper.cancel and done belong to
    loop,           \* loop[x]: the goroutine that x started
    pc, kind,
    key,            \* key[r]: the secret r has in hand
    refused,        \* refused[r]: preflight found a directory unwritable
    recorded,       \* recorded[r]: what Claim returned
    mine,           \* mine[x]: the secret in the config x parsed
    faults, boots, edits,
    (* history, read by the properties only *)
    shown,          \* shown[r]: the secret r's page or output carried
    closed,         \* secrets on a page that said the claim is recorded
    late,           \* late[r]: closed when r began
    lost,           \* secrets whose one page was killed or answered a HEAD
    clash,          \* whether an install ran beside a request past the marker
    handOpen,       \* whether Hand was written beside an unclaimed marker, or
                    \* beside a request past it
    leftovers,      \* requests that could not undo their config file
    unloaded,       \* requests whose reload failed, until the next start
    timedOut,       \* whether a shutdown gave up on its handlers
    abandoned       \* whether the process went down on a running sweep

diskVars == <<conf, marker, probes>>
serverVars == <<phase, installed, live, loaded>>
sweepVars == <<holder, registered, loop>>
localVars == <<kind, key, refused, recorded, mine>>
boundVars == <<faults, boots, edits>>
pageVars == <<shown, closed, late>>
endVars == <<timedOut, abandoned>>
histVars == <<pageVars, lost, clash, handOpen, leftovers, unloaded, endVars>>
vars == <<diskVars, serverVars, sweepVars, pc, localVars, boundVars, histVars>>

-----------------------------------------------------------------------------
(* A marker that does not parse is "empty", a prefix of one, or "garbage", a *)
(* shorter text written over a longer one.                                  *)
MarkerState == {"none", "empty", "garbage", "unclaimed", "claimed"}

Install == {"recheck", "probe config", "probed config", "probe var", "probed var",
            "generate", "commit", "verify", "mark", "mark write", "undo"}
Activate == {"load", "parse", "lock", "await", "store"}
Show == {"secret", "claim", "claim open", "claim write", "render"}
Ended == {"done", "failed", "killed"}
ReqState == {"idle", "stat", "marker"} \cup Install \cup Activate \cup Show \cup Ended

\* r is past the check that there is no config, and its install is not over.
Installing(r) == pc[r] \in Install \ {"recheck"}

\* r writes a config, or knows that the key was unclaimed.
Committed(r) == Installing(r) \/ pc[r] \in Activate \cup Show

Web(r) == kind[r] # "init"

Quiet == \A r \in Reqs : pc[r] \in {"idle"} \cup Ended

Fault ==
    /\ faults < MaxFaults
    /\ faults' = faults + 1
    /\ UNCHANGED <<boots, edits>>

At(r, here, next) ==
    /\ pc[r] = here
    /\ pc' = [pc EXCEPT ![r] = next]

\* What ReadInConfig leaves in viper: a missing file changes nothing.
Read(before) == IF conf = NoKey THEN before ELSE conf

Init ==
    /\ conf \in {NoKey, Hand}
    /\ marker = "none"
    /\ probes = {}
    /\ phase = "down"
    /\ installed = FALSE
    /\ live = NoKey
    /\ loaded = NoKey
    /\ holder = Nobody
    /\ registered = Nobody
    /\ loop = [x \in Loops |-> "none"]
    /\ pc = [r \in Reqs |-> "idle"]
    /\ kind = [r \in Reqs |-> "none"]
    /\ key = [r \in Reqs |-> NoKey]
    /\ refused = [r \in Reqs |-> FALSE]
    /\ recorded = [r \in Reqs |-> FALSE]
    /\ mine = [x \in Loops |-> NoKey]
    /\ faults = 0 /\ boots = 0 /\ edits = 0
    /\ shown = [r \in Reqs |-> NoKey]
    /\ closed = {}
    /\ late = [r \in Reqs |-> {}]
    /\ lost = {}
    /\ clash = FALSE
    /\ handOpen = FALSE
    /\ leftovers = {}
    /\ unloaded = {}
    /\ timedOut = FALSE
    /\ abandoned = FALSE

-----------------------------------------------------------------------------
(* handleInstall, up to where its cases part. *)

Begin(r) ==
    /\ \E k \in KindsOf[r] :
          /\ kind' = [kind EXCEPT ![r] = k]
          /\ IF k = "init" THEN At(r, "idle", "recheck")
                           ELSE phase = "up" /\ At(r, "idle", "stat")
    /\ late' = [late EXCEPT ![r] = closed]
    /\ UNCHANGED <<diskVars, serverVars, sweepVars, key, refused, recorded, mine, boundVars,
                   shown, closed, lost, clash, handOpen, leftovers, unloaded, endVars>>

(* IsInstalled: whatever error os.Stat returns, there is no config.          *)
FindsConfig == conf # NoKey /\ UNCHANGED boundVars

FindsNone == IF conf = NoKey THEN UNCHANGED boundVars ELSE Fault

(* Without a config comes a POST: a bad form ends where a GET's does, with    *)
(* the form.                                                                *)
StatConfig(r) ==
    /\ \/ FindsConfig /\ At(r, "stat", "marker")
       \/ FindsNone /\ kind[r] = "POST" /\ At(r, "stat", "recheck")
       \/ FindsNone /\ At(r, "stat", "done")
    /\ UNCHANGED <<diskVars, serverVars, sweepVars, localVars, histVars>>

\* A bug to catch: a config with no marker counts as one not shown yet.
ReadMarkerLeniently(r) ==
    /\ At(r, "marker", IF marker # "claimed" THEN "secret" ELSE "done")
    /\ UNCHANGED <<diskVars, serverVars, sweepVars, localVars, boundVars, histVars>>

(* State: the key is disclosed if the marker reads and is unclaimed.  It may  *)
(* be an old one, of a config that is gone and being installed anew.         *)
ReadMarker(r) ==
    /\ IF marker = "unclaimed"
       THEN /\ At(r, "marker", "secret")
            /\ clash' = (clash \/ \E q \in Reqs \ {r} : Installing(q))
       ELSE /\ At(r, "marker", "done")
            /\ UNCHANGED clash
    /\ UNCHANGED <<diskVars, serverVars, sweepVars, localVars, boundVars, pageVars, lost,
                   handOpen, leftovers, unloaded, endVars>>

\* disclose: ParseFile of the config there is now.
ReadSecret(r) ==
    /\ At(r, "secret", IF conf = NoKey THEN "done" ELSE "claim")
    /\ key' = [key EXCEPT ![r] = conf]
    /\ UNCHANGED <<diskVars, serverVars, sweepVars, kind, refused, recorded, mine,
                   boundVars, histVars>>

-----------------------------------------------------------------------------
(* Installer.Install. *)

\* A second look, which may miss the config as the first may.
Recheck(r) ==
    /\ \/ /\ FindsNone
          /\ At(r, "recheck", "probe config")
          /\ clash' = (clash \/ \E q \in Reqs \ {r} : Committed(q))
       \/ /\ FindsConfig
          /\ At(r, "recheck", "failed")
          /\ UNCHANGED clash
    /\ UNCHANGED <<diskVars, serverVars, sweepVars, localVars, pageVars, lost,
                   handOpen, leftovers, unloaded, endVars>>

(* writable creates a file of a fixed name with O_EXCL, which fails on a     *)
(* directory that cannot be written and on another install's probe alike,   *)
(* and removes what it created.                                             *)
Probe(r, d, here, held, next) ==
    /\ \/ /\ At(r, here, held)
          /\ d \notin probes
          /\ probes' = probes \cup {d}
          /\ UNCHANGED <<refused, boundVars>>
       \/ /\ At(r, here, next)
          /\ d \in probes
          /\ refused' = [refused EXCEPT ![r] = TRUE]
          /\ UNCHANGED <<probes, boundVars>>
       \/ /\ At(r, here, next)
          /\ Fault
          /\ refused' = [refused EXCEPT ![r] = TRUE]
          /\ UNCHANGED probes
    /\ UNCHANGED <<conf, marker, serverVars, sweepVars, kind, key, recorded, mine, histVars>>

Unprobe(r, d, held, next) ==
    /\ At(r, held, next)
    /\ probes' = probes \ {d}
    /\ UNCHANGED <<conf, marker, serverVars, sweepVars, localVars, boundVars, histVars>>

\* preflight tries both directories, and refuses for either.
Preflight(r) ==
    \/ Probe(r, "config", "probe config", "probed config", "probe var")
    \/ Unprobe(r, "config", "probed config", "probe var")
    \/ Probe(r, "var", "probe var", "probed var", "failed")
    \/ Unprobe(r, "var", "probed var", IF refused[r] THEN "failed" ELSE "generate")

\* The template, the secret and the rendering: any of them may fail.
Generate(r) ==
    /\ \/ /\ At(r, "generate", "commit")
          /\ key' = [key EXCEPT ![r] = r]
          /\ UNCHANGED boundVars
       \/ /\ At(r, "generate", "failed")
          /\ Fault
          /\ UNCHANGED key
    /\ UNCHANGED <<diskVars, serverVars, sweepVars, kind, refused, recorded, mine, histVars>>

\* A rename puts the config there, over whatever is there by now.
Commit(r) ==
    /\ \/ /\ At(r, "commit", "verify")
          /\ conf' = r
          /\ UNCHANGED boundVars
       \/ /\ At(r, "commit", "failed")
          /\ Fault
          /\ UNCHANGED conf
    /\ UNCHANGED <<marker, probes, serverVars, sweepVars, localVars, histVars>>

\* A bug to catch: what does not load back is reported and left there.
VerifyOnly(r) ==
    /\ \/ conf = r /\ At(r, "verify", "mark") /\ UNCHANGED boundVars
       \/ conf # r /\ At(r, "verify", "failed") /\ UNCHANGED boundVars
       \/ conf = r /\ At(r, "verify", "failed") /\ Fault
    /\ UNCHANGED <<diskVars, serverVars, sweepVars, localVars, histVars>>

\* The config is loaded back, and must be the one that was written.
Verify(r) ==
    /\ \/ conf = r /\ At(r, "verify", "mark") /\ UNCHANGED boundVars
       \/ conf # r /\ At(r, "verify", "undo") /\ UNCHANGED boundVars
       \/ conf = r /\ At(r, "verify", "undo") /\ Fault
    /\ UNCHANGED <<diskVars, serverVars, sweepVars, localVars, histVars>>

\* A bug to catch: without its marker the config stays.
MarkOrLeave(r) ==
    /\ \/ /\ At(r, "mark", "mark write")
          /\ marker' = "empty"
          /\ UNCHANGED boundVars
       \/ /\ At(r, "mark", "failed")
          /\ Fault
          /\ UNCHANGED marker
    /\ UNCHANGED <<conf, probes, serverVars, sweepVars, localVars, histVars>>

\* ensureDir, and WriteFile creates or truncates the marker.
Mark(r) ==
    /\ \/ /\ At(r, "mark", "mark write")
          /\ marker' = "empty"
          /\ UNCHANGED boundVars
       \/ /\ At(r, "mark", "undo")
          /\ Fault
          /\ UNCHANGED marker
    /\ UNCHANGED <<conf, probes, serverVars, sweepVars, localVars, histVars>>

(* WriteFile fills it.  Over a claimed marker, which is longer, the tail of   *)
(* the old text stays.                                                      *)
MarkWrite(r) ==
    /\ \/ /\ At(r, "mark write", IF Web(r) THEN "load" ELSE "claim")
          /\ marker' = IF marker \in {"claimed", "garbage"} THEN "garbage" ELSE "unclaimed"
          /\ UNCHANGED boundVars
       \/ /\ At(r, "mark write", "undo")
          /\ Fault
          /\ UNCHANGED marker
    /\ UNCHANGED <<conf, probes, serverVars, sweepVars, localVars, histVars>>

\* os.Remove, whose error is ignored: nothing asks whose config it is.
Undo(r) ==
    /\ At(r, "undo", "failed")
    /\ \/ /\ conf' = NoKey
          /\ UNCHANGED <<leftovers, boundVars>>
       \/ /\ leftovers' = leftovers \cup {r}
          /\ Fault
          /\ UNCHANGED conf
    /\ UNCHANGED <<marker, probes, serverVars, sweepVars, localVars, pageVars, lost, clash,
                   handOpen, unloaded, endVars>>

-----------------------------------------------------------------------------
(* activate, and the Reload it calls. *)

\* LoadConfig reads the file into the process-wide viper, or fails.
Load(r) ==
    /\ \/ /\ At(r, "load", "parse")
          /\ loaded' = Read(loaded)
          /\ UNCHANGED <<unloaded, boundVars>>
       \/ /\ At(r, "load", "claim")
          /\ unloaded' = unloaded \cup {r}
          /\ Fault
          /\ UNCHANGED loaded
    /\ UNCHANGED <<diskVars, phase, installed, live, sweepVars, localVars, pageVars, lost,
                   clash, handOpen, leftovers, endVars>>

\* Parse takes what viper holds by now, and it must validate.
Parse(r) ==
    /\ \/ /\ At(r, "parse", "lock")
          /\ mine' = [mine EXCEPT ![r] = loaded]
          /\ UNCHANGED <<unloaded, boundVars>>
       \/ /\ At(r, "parse", "claim")
          /\ unloaded' = unloaded \cup {r}
          /\ Fault
          /\ UNCHANGED mine
    /\ UNCHANGED <<diskVars, serverVars, sweepVars, kind, key, refused, recorded, pageVars,
                   lost, clash, handOpen, leftovers, endVars>>

\* stopLocked tells the loop to end.
Cancel ==
    loop' = [x \in Loops |-> IF x = registered /\ loop[x] = "running" THEN "ending"
                                                                      ELSE loop[x]]

\* A bug to catch: the old loop is told to end, and not waited for.
StoppedAtOnce == TRUE

\* stopLocked waits until it has.
Stopped == registered \in Loops => loop[registered] = "none"

\* sweeper.restart takes the mutex.
RestartLock(r) ==
    /\ At(r, "lock", "await")
    /\ holder = Nobody
    /\ holder' = r
    /\ Cancel
    /\ UNCHANGED <<diskVars, serverVars, registered, localVars, boundVars, histVars>>

\* A bug to catch: the mutex is not given back.
RestartKeepsLock(r) ==
    /\ At(r, "await", "store")
    /\ Stopped
    /\ loop' = [loop EXCEPT ![r] = IF phase = "up" THEN "running" ELSE "ending"]
    /\ registered' = r
    /\ UNCHANGED <<holder, diskVars, serverVars, localVars, boundVars, histVars>>

(* ... and starts a loop of its own, whose context has ended already if the  *)
(* process is on its way down.                                              *)
Restart(r) ==
    /\ At(r, "await", "store")
    /\ Stopped
    /\ loop' = [loop EXCEPT ![r] = IF phase = "up" THEN "running" ELSE "ending"]
    /\ registered' = r
    /\ holder' = Nobody
    /\ UNCHANGED <<diskVars, serverVars, localVars, boundVars, histVars>>

\* A bug to catch: the new config is reported live and never put in service.
StoreNothing(r) ==
    /\ At(r, "store", "claim")
    /\ UNCHANGED <<diskVars, serverVars, sweepVars, localVars, boundVars, histVars>>

\* current.Store.
Store(r) ==
    /\ At(r, "store", "claim")
    /\ installed' = TRUE
    /\ live' = mine[r]
    /\ UNCHANGED <<diskVars, phase, loaded, sweepVars, localVars, boundVars, histVars>>

-----------------------------------------------------------------------------
(* show, which claims first and renders second. *)

\* Claim reads the marker, and gives up on one that does not read.
Claim(r) ==
    /\ At(r, "claim", IF marker \in {"unclaimed", "claimed"} THEN "claim open" ELSE "render")
    /\ UNCHANGED <<diskVars, serverVars, sweepVars, localVars, boundVars, histVars>>

\* WriteFile truncates the marker ...
ClaimOpen(r) ==
    /\ \/ /\ At(r, "claim open", "claim write")
          /\ marker' = "empty"
          /\ UNCHANGED boundVars
       \/ /\ At(r, "claim open", "render")
          /\ Fault
          /\ UNCHANGED marker
    /\ UNCHANGED <<conf, probes, serverVars, sweepVars, localVars, histVars>>

\* A bug to catch: the state is written back without its ClaimedAt.
ClaimWriteUnclaimed(r) ==
    /\ At(r, "claim write", "render")
    /\ marker' = "unclaimed"
    /\ recorded' = [recorded EXCEPT ![r] = TRUE]
    /\ UNCHANGED <<conf, probes, serverVars, sweepVars, kind, key, refused, mine, boundVars,
                   histVars>>

\* ... and fills it: no marker is longer than a claimed one.
ClaimWrite(r) ==
    /\ At(r, "claim write", "render")
    /\ \/ /\ marker' = "claimed"
          /\ recorded' = [recorded EXCEPT ![r] = TRUE]
          /\ UNCHANGED boundVars
       \/ /\ Fault
          /\ UNCHANGED <<marker, recorded>>
    /\ UNCHANGED <<conf, probes, serverVars, sweepVars, kind, key, refused, mine, histVars>>

(* The page carries the secret, and says whether the claim is recorded.  A   *)
(* HEAD gets no page, and a template may fail.                              *)
Render(r) ==
    /\ At(r, "render", "done")
    /\ \/ /\ kind[r] # "HEAD"
          /\ shown' = [shown EXCEPT ![r] = key[r]]
          /\ closed' = IF recorded[r] THEN closed \cup {key[r]} ELSE closed
          /\ UNCHANGED <<lost, boundVars>>
       \/ /\ kind[r] = "HEAD"
          /\ lost' = lost \cup {key[r]}
          /\ UNCHANGED <<shown, closed, boundVars>>
       \/ /\ Web(r) /\ kind[r] # "HEAD"
          /\ Fault
          /\ lost' = lost \cup {key[r]}
          /\ UNCHANGED <<shown, closed>>
    /\ UNCHANGED <<diskVars, serverVars, sweepVars, localVars, late, clash, handOpen,
                   leftovers, unloaded, endVars>>

-----------------------------------------------------------------------------
(* The process. *)

\* config.Installed: whether viper has the name of a file.
Installed(file) == ConfigFlag \/ file # NoKey

\* RunE, from LoadConfig to the listener.
Start ==
    /\ phase = "down"
    /\ boots < MaxBoots
    /\ boots' = boots + 1
    /\ phase' = "up"
    /\ loaded' = conf
    /\ live' = conf
    /\ installed' = Installed(conf)
    /\ mine' = [mine EXCEPT ![Boot] = conf]
    /\ IF Installed(conf) THEN /\ loop' = [loop EXCEPT ![Boot] = "running"]
                               /\ registered' = Boot
                          ELSE UNCHANGED <<loop, registered>>
    /\ unloaded' = {}
    /\ UNCHANGED <<diskVars, holder, pc, kind, key, refused, recorded, faults, edits,
                   pageVars, lost, clash, handOpen, leftovers, endVars>>

\* Run returns once its context has ended and its sweep is over.
LoopEnds(x) ==
    /\ loop[x] = "ending"
    /\ loop' = [loop EXCEPT ![x] = "none"]
    /\ UNCHANGED <<diskVars, serverVars, holder, registered, pc, localVars, boundVars,
                   histVars>>

\* The first signal cancels the context that every loop's derives from.
Signal ==
    /\ phase = "up"
    /\ phase' = "draining"
    /\ loop' = [x \in Loops |-> IF loop[x] = "running" THEN "ending" ELSE loop[x]]
    /\ UNCHANGED <<diskVars, installed, live, loaded, holder, registered, pc, localVars,
                   boundVars, histVars>>

\* A bug to catch: the shutdown does not wait for its handlers.
ServedAlways == TRUE

Served == \A r \in Reqs : Web(r) => pc[r] \in {"idle"} \cup Ended

\* srv.Shutdown returns when no handler runs, or at server.shutdown_timeout.
Drain ==
    /\ phase = "draining"
    /\ phase' = "stopping"
    /\ \/ Served /\ UNCHANGED <<timedOut, boundVars>>
       \/ ~Served /\ Fault /\ timedOut' = TRUE
    /\ UNCHANGED <<diskVars, installed, live, loaded, sweepVars, pc, localVars, pageVars,
                   lost, clash, handOpen, leftovers, unloaded, abandoned>>

\* RunE's deferred sweeper.stop takes the mutex.
StopLock ==
    /\ phase = "stopping"
    /\ holder = Nobody
    /\ phase' = "leaving"
    /\ holder' = Main
    /\ Cancel
    /\ UNCHANGED <<diskVars, installed, live, loaded, registered, pc, localVars, boundVars,
                   histVars>>

(* The process ends, and its handlers and loops with it; init is a process   *)
(* of its own.  A request killed after it committed its config and before    *)
(* it marked it, or after it began to claim and before it showed the key,    *)
(* loses the key's one page.                                                *)
Gone(killed) ==
    /\ phase' = "down"
    /\ installed' = FALSE
    /\ live' = NoKey
    /\ loaded' = NoKey
    /\ holder' = Nobody
    /\ registered' = Nobody
    /\ loop' = [x \in Loops |-> "none"]
    /\ pc' = [r \in Reqs |-> IF r \in killed THEN "killed" ELSE pc[r]]
    /\ lost' = lost \cup {key[r] : r \in {q \in killed :
                   pc[q] \in {"verify", "mark", "mark write", "undo", "claim write", "render"}}}
    /\ UNCHANGED <<diskVars, localVars, pageVars, clash, handOpen, leftovers, unloaded,
                   timedOut>>

Running(r) == pc[r] \notin {"idle"} \cup Ended

\* sweeper.stop returns, and gives the mutex back.
StopReturns ==
    /\ phase = "leaving"
    /\ Stopped
    /\ phase' = "exiting"
    /\ holder' = Nobody
    /\ registered' = Nobody
    /\ UNCHANGED <<diskVars, installed, live, loaded, loop, pc, localVars, boundVars,
                   histVars>>

\* RunE returns, and main: a handler given up on may have gone on until now.
Exit ==
    /\ phase = "exiting"
    /\ abandoned' = (abandoned \/ \E x \in Loops : loop[x] # "none")
    /\ Gone({r \in Reqs : Web(r) /\ Running(r)})
    /\ UNCHANGED boundVars

\* The second signal, a crash, or with init's process the machine's.
Crash ==
    /\ phase # "down"
    /\ Fault
    /\ \E killed \in {{r \in Reqs : Running(r)}, {r \in Reqs : Web(r) /\ Running(r)}} :
          Gone(killed)
    /\ UNCHANGED abandoned

-----------------------------------------------------------------------------
(* The operator's editor. *)

Edit ==
    /\ edits < MaxEdits
    /\ edits' = edits + 1
    /\ UNCHANGED <<marker, probes, serverVars, sweepVars, pc, localVars, faults, boots,
                   pageVars, lost, clash, leftovers, unloaded, endVars>>

HandWrite ==
    /\ Edit
    /\ conf' = Hand
    /\ handOpen' = (handOpen \/ marker = "unclaimed" \/ \E r \in Reqs : Committed(r))

\* "To start over with a fresh key: delete this file."
HandDelete ==
    /\ Edit
    /\ conf # NoKey
    /\ conf' = NoKey
    /\ UNCHANGED handOpen

-----------------------------------------------------------------------------
InstallStep(r) ==
    \/ Recheck(r) \/ Preflight(r) \/ Generate(r) \/ Commit(r)
    \/ Verify(r) \/ Mark(r) \/ MarkWrite(r) \/ Undo(r)

ActivateStep(r) == Load(r) \/ Parse(r) \/ RestartLock(r) \/ Restart(r) \/ Store(r)

ShowStep(r) == ReadSecret(r) \/ Claim(r) \/ ClaimOpen(r) \/ ClaimWrite(r) \/ Render(r)

ReqStep(r) ==
    StatConfig(r) \/ ReadMarker(r) \/ InstallStep(r) \/ ActivateStep(r) \/ ShowStep(r)

ShutdownStep == Drain \/ StopLock \/ StopReturns \/ Exit

Next ==
    \/ \E r \in Reqs : Begin(r) \/ ReqStep(r)
    \/ \E x \in Loops : LoopEnds(x)
    \/ Start \/ Signal \/ ShutdownStep \/ Crash
    \/ HandWrite \/ HandDelete

Spec == Init /\ [][Next]_vars

(* Goroutines are scheduled, and a sweep told to end comes to its end: Run    *)
(* looks at its context between two sweeps, and one sweep is bounded by      *)
(* gc.max_deletes.  Nobody need open the page or send a signal.             *)
Fairness ==
    /\ \A r \in Reqs : WF_vars(ReqStep(r))
    /\ \A x \in Loops : WF_vars(LoopEnds(x))
    /\ WF_vars(ShutdownStep)

FairSpec == Spec /\ Fairness

-----------------------------------------------------------------------------
(* Properties. *)

(* Every variable has its type, and the sweeper's mutex is held by exactly   *)
(* the caller of restart, or of stop, that is waiting for a loop.           *)
TypeOK ==
    /\ conf \in Keys \cup {NoKey}
    /\ marker \in MarkerState
    /\ probes \in SUBSET Dirs
    /\ phase \in {"down", "up", "draining", "stopping", "leaving", "exiting"}
    /\ installed \in BOOLEAN
    /\ live \in Keys \cup {NoKey}
    /\ loaded \in Keys \cup {NoKey}
    /\ holder \in Reqs \cup {Main, Nobody}
    /\ \A r \in Reqs : holder = r <=> pc[r] = "await"
    /\ holder = Main <=> phase = "leaving"
    /\ registered \in Loops \cup {Nobody}
    /\ loop \in [Loops -> {"none", "running", "ending"}]
    /\ pc \in [Reqs -> ReqState]
    /\ kind \in [Reqs -> {"none", "GET", "HEAD", "POST", "init"}]
    /\ key \in [Reqs -> Keys \cup {NoKey}]
    /\ refused \in [Reqs -> BOOLEAN]
    /\ recorded \in [Reqs -> BOOLEAN]
    /\ mine \in [Loops -> Keys \cup {NoKey}]
    /\ faults \in Nat /\ boots \in Nat /\ edits \in Nat
    /\ shown \in [Reqs -> Keys \cup {NoKey}]
    /\ closed \in SUBSET Keys
    /\ late \in [Reqs -> SUBSET Keys]
    /\ lost \in SUBSET Keys
    /\ leftovers \in SUBSET Reqs /\ unloaded \in SUBSET Reqs
    /\ clash \in BOOLEAN /\ handOpen \in BOOLEAN
    /\ timedOut \in BOOLEAN /\ abandoned \in BOOLEAN

(* sweeper.restart and sweeper.stop between them never leave two sweep loops *)
(* of the process alive, however many installs and shutdowns overlap.       *)
OneLoop ==
    \A x, y \in Loops : loop[x] # "none" /\ loop[y] # "none" => x = y

(* "A sweep in flight finishes its current unlink rather than being          *)
(* abandoned mid-way": an orderly exit leaves no loop running, unless the    *)
(* shutdown had given up on a handler that was still to start one.          *)
SweepsFinish == abandoned => timedOut

(* Once a page has shown a key and said that this is recorded, no request    *)
(* that comes later is shown it, through crashes, restarts, failed writes    *)
(* and edits, unless an install ran beside another or beside a disclosure.   *)
NotShownAgain ==
    ~clash => \A r \in Reqs : shown[r] \notin late[r] \ {Hand}

(* The installer does not "leave a key nobody can see": when all is quiet,   *)
(* the key in a generated config has been shown, or the marker is unclaimed  *)
(* and the next visitor will be shown it.  Set aside are a clash, a page      *)
(* that was killed or answered a HEAD (lost), and a refused config that      *)
(* could not be removed (leftovers).                                        *)
NoHiddenKey ==
    Quiet /\ ~clash /\ conf \in Reqs \ (lost \cup leftovers) =>
        marker = "unclaimed" \/ \E r \in Reqs : shown[r] = conf

(* "The install was refused; nothing was written": a request that was told   *)
(* so does not have its config in place, then or later, whoever else was     *)
(* installing, if the file it removes can be removed.                       *)
RefusedLeavesNothing ==
    \A r \in Reqs \ leftovers : pc[r] = "failed" => conf # r

(* "A config written by hand can never be read back over HTTP", unless it    *)
(* was put there beside an unclaimed marker or in the middle of an install. *)
HandIsNeverShown ==
    ~handOpen => \A r \in Reqs : shown[r] # Hand

(* When all is quiet in a server that is up, the config that a POST wrote is  *)
(* in service, and the sweep loop runs over whatever config is.  Three        *)
(* things are set aside: an install beside a request past the marker         *)
(* (clash), a POST whose Reload failed, which activate logs and no page       *)
(* tells, until the next start (unloaded), and a config whose install failed *)
(* and could not remove it (leftovers).                                     *)
InService ==
    Quiet /\ ~clash /\ phase = "up" =>
        /\ conf \in Reqs \ (unloaded \cup leftovers) /\ kind[conf] = "POST"
              => installed /\ live = conf
        /\ installed => /\ registered \in Loops
                        /\ loop[registered] = "running"
                        /\ mine[registered] = live

(* Every request is answered and every shutdown ends, though handlers wait   *)
(* for a sweep, and the shutdown for handlers and for a sweep.              *)
EverythingEnds ==
    /\ \A r \in Reqs : (pc[r] # "idle") ~> (pc[r] \in Ended)
    /\ (phase = "draining") ~> (phase = "down")

(* "A HEAD must never claim the key". *)
HeadNeverClaims ==
    [][\A r \in Reqs : kind[r] = "HEAD" /\ pc'[r] # pc[r] =>
            (marker' = "claimed" => marker = "claimed")]_vars

(* "Shows the generated API key exactly once": no two pages show it. *)
ShownOnce ==
    \A r, q \in Reqs : shown[r] \in Reqs /\ shown[r] = shown[q] => r = q
=============================================================================
