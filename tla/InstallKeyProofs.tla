--------------------------- MODULE InstallKeyProofs ---------------------------
(***************************************************************************)
(* Who is shown which key, and which config is in service: for any number of *)
(* requests, faults, restarts and edits.  Each part says what one more fact  *)
(* of the inductive invariant needs, and what every step does to it.         *)
(***************************************************************************)
EXTENDS InstallProofs

-----------------------------------------------------------------------------
(* The inductive invariant. *)

\* The states of an install that has written its config.
Written == {"verify", "mark", "mark write", "undo"}

(* While a config written by hand is in place and the operator did not put   *)
(* it beside an open install, no request is on its way to a key, but for one *)
(* that did not find the config and is about to write over it.               *)
HandIsApart ==
    ~handOpen =>
        /\ conf = Hand => /\ marker # "unclaimed"
                          /\ \A r \in Reqs : pc[r] \notin Written \cup Activate \cup Show
        /\ \A r \in Reqs : key[r] # Hand /\ shown[r] # Hand

\* A request that has yet to read or generate a key has none.
Keyless == Uncommitted \cup {"marker", "secret"}

Owning == {"commit", "verify", "mark", "mark write", "undo"} \cup Activate

OwnKey(r) ==
    /\ pc[r] \in Keyless \ {"commit"} => key[r] = NoKey
    /\ pc[r] \in Owning => key[r] = r
    /\ recorded[r] => pc[r] \in {"render"} \cup Ended
    /\ shown[r] # NoKey => pc[r] \in Ended

OwnKeys == \A r \in Reqs : OwnKey(r)

LateIsClosed == \A r \in Reqs : late[r] \subseteq closed

\* An install runs beside nobody who is past the marker.
OneInstall ==
    ~clash => \A r, q \in Reqs :
        r # q => /\ Installing(r) => ~Committed(q)
                 /\ pc[r] \in Activate => pc[q] \notin Activate

\* The states in which r's key is the one in the config, if that is generated.
Holding == Activate \cup {"claim", "claim open", "claim write", "render"}

WhoseConf ==
    ~clash => \A r \in Reqs :
        /\ pc[r] \in Written => conf \in {NoKey, Hand, r}
        /\ pc[r] \in Holding /\ conf \in Reqs => key[r] = conf

\* Until k's install is over, nobody else has its key and no page has closed it.
Young == Uncommitted \cup Install

OthersKeys ==
    ~clash => \A k \in Reqs :
        pc[k] \in Young => /\ \A q \in Reqs \ {k} : key[q] # k
                           /\ k \notin closed

\* The marker does not offer a key that a page has closed, or is about to close.
MarkerIsClosed ==
    ~clash /\ conf \in Reqs =>
        /\ conf \in closed => marker # "unclaimed"
        /\ \A q \in Reqs : pc[q] = "render" /\ recorded[q] /\ key[q] = conf
                              => marker # "unclaimed"

NotAgain ==
    ~clash => \A r \in Reqs :
        /\ pc[r] = "secret" /\ conf \in Reqs => conf \notin late[r]
        /\ key[r] \in Reqs => key[r] \notin late[r]
        /\ shown[r] \in Reqs => shown[r] \notin late[r]

\* An install that is about to fill the marker has just emptied it.
FreshMarker ==
    ~clash => \A r \in Reqs : pc[r] = "mark write" => marker = "empty"

\* The key in a generated config is on offer, on a page, or on its way to one.
Reachable ==
    ~clash /\ conf \in Reqs \ (lost \cup leftovers) =>
        \/ Installing(conf)
        \/ marker = "unclaimed"
        \/ \E q \in Reqs : shown[q] = conf
        \/ \E q \in Reqs : key[q] = conf /\ pc[q] \in {"claim write", "render"}

\* r's loop is registered after r has waited for the one before.
Early == Young \cup {"load", "parse", "lock", "await"}

LoopComesLast == \A r \in Reqs : registered = r => pc[r] \notin Early

LoopRuns ==
    ~clash /\ phase = "up" =>
        /\ \A r \in Reqs : pc[r] = "store" => registered = r /\ loop[r] = "running"
        /\ installed /\ (\A r \in Reqs : pc[r] \notin {"await", "store"}) =>
              /\ registered \in Loops
              /\ loop[registered] = "running"
              /\ mine[registered] = live

\* A config that the page wrote is in service, or its request is putting it there.
Activated ==
    ~clash /\ phase = "up" /\ conf \in Reqs \ (unloaded \cup leftovers)
    /\ kind[conf] = "POST" =>
        \/ Installing(conf)
        \/ pc[conf] = "load"
        \/ pc[conf] = "parse" /\ loaded = conf
        \/ pc[conf] \in {"lock", "await", "store"} /\ mine[conf] = conf
        \/ pc[conf] \notin Activate /\ installed /\ live = conf

KeyInv ==
    /\ HandIsApart
    /\ OwnKeys /\ LateIsClosed
    /\ OneInstall /\ WhoseConf
    /\ OthersKeys /\ MarkerIsClosed /\ NotAgain
    /\ FreshMarker /\ Reachable
    /\ LoopComesLast /\ LoopRuns /\ Activated

-----------------------------------------------------------------------------
(* What a step of a request, and what any other step, does to what the        *)
(* requests have in hand.                                                    *)

Passes(r) ==
    /\ \A q \in Reqs \ {r} :
          pc'[q] = pc[q] /\ key'[q] = key[q] /\ shown'[q] = shown[q] /\ recorded'[q] = recorded[q]
    /\ clash => clash'
    /\ Installing(r)' => \/ Installing(r)
                         \/ /\ pc[r] = "recheck"
                            /\ clash' \/ \A q \in Reqs \ {r} : ~Committed(q)
    /\ Committed(r)' => \/ Committed(r)
                        \/ clash'
                        \/ \A q \in Reqs \ {r} : ~Installing(q)
    /\ pc'[r] \in Written => pc[r] \in Written \/ conf' = r
    /\ pc'[r] \in Activate => pc[r] \in Activate \cup {"mark write"}
    /\ pc'[r] \in Young => pc[r] \in Young
    /\ conf' # conf => \/ conf' = NoKey
                       \/ conf' = r /\ pc[r] = "commit" /\ pc'[r] = "verify"
    /\ key'[r] # key[r] => \/ pc[r] = "generate" /\ key'[r] = r
                           \/ pc[r] = "secret" /\ key'[r] = conf /\ conf' = conf
    /\ pc'[r] \in Holding => \/ pc[r] \in Holding \cup {"mark write"} /\ conf' = conf
                             \/ pc[r] = "secret" /\ key'[r] = conf /\ conf' = conf
    /\ shown'[r] # shown[r] => pc[r] = "render" /\ shown'[r] = key[r]

\* Every step of a request is such a step.
LEMMA RequestPasses ==
    ASSUME PcType, LocalType, HistType, NEW r \in Reqs,
           Begin(r) \/ ReqStep(r)
    PROVE  Passes(r)
<1>1. CASE Begin(r)
  BY <1>1, InstallAssumption
     DEF Passes, PcType, Installing, Committed, Young, Uncommitted, Written, Holding, Install,
         Activate, Show, Ended, Begin, At, diskVars, localVars, histVars, pageVars
<1>2. CASE StatConfig(r)
  BY <1>2, InstallAssumption
     DEF Passes, PcType, Installing, Committed, Young, Uncommitted, Written, Holding, Install,
         Activate, Show, Ended, StatConfig, At, diskVars, localVars, histVars, pageVars
<1>3. CASE ReadMarker(r)
  BY <1>3, InstallAssumption
     DEF Passes, PcType, Installing, Committed, Young, Uncommitted, Written, Holding, Install,
         Activate, Show, Ended, HistType, ReadMarker, At, diskVars, localVars, histVars,
         pageVars
<1>4. CASE ReadSecret(r)
  BY <1>4, InstallAssumption
     DEF Passes, PcType, Installing, Committed, Young, Uncommitted, Written, Holding, Install,
         Activate, Show, Ended, LocalType, ReadSecret, At, diskVars, localVars,
         histVars, pageVars
<1>5. CASE Recheck(r)
  BY <1>5, InstallAssumption
     DEF Passes, PcType, Installing, Committed, Young, Uncommitted, Written, Holding, Install,
         Activate, Show, Ended, HistType, Recheck, At, diskVars, localVars, histVars,
         pageVars
<1>6. CASE Preflight(r)
  <2>1. /\ pc[r] \in {"probe config", "probed config", "probe var", "probed var"}
        /\ \E next \in {"probed config", "probe var", "probed var", "generate", "failed"} :
              pc' = [pc EXCEPT ![r] = next]
    BY <1>6 DEF Preflight, Probe, Unprobe, At
  <2>2. UNCHANGED <<conf, marker, serverVars, sweepVars, kind, key, recorded, mine, histVars>>
    BY <1>6 DEF Preflight, Probe, Unprobe, localVars
  <2> QED
    BY <2>1, <2>2
       DEF Passes, PcType, Installing, Committed, Young, Uncommitted, Written, Holding, Install,
           Activate, Show, Ended, serverVars, sweepVars, histVars, pageVars
<1>7. CASE Generate(r)
  <2>1. /\ pc[r] = "generate"
        /\ \/ pc' = [pc EXCEPT ![r] = "commit"] /\ key' = [key EXCEPT ![r] = r]
           \/ pc' = [pc EXCEPT ![r] = "failed"] /\ key' = key
    BY <1>7 DEF Generate, At
  <2>2. UNCHANGED <<conf, marker, serverVars, sweepVars, kind, recorded, mine, histVars>>
    BY <1>7 DEF Generate, diskVars
  <2>3. key \in [Reqs -> Keys \cup {NoKey}]
    BY DEF LocalType
  <2> QED
    BY <2>1, <2>2, <2>3
       DEF Passes, PcType, Installing, Committed, Young, Uncommitted, Written, Holding, Install,
           Activate, Show, Ended, serverVars, sweepVars, histVars, pageVars
<1>8. CASE Commit(r)
  BY <1>8, InstallAssumption
     DEF Passes, PcType, Installing, Committed, Young, Uncommitted, Written, Holding, Install,
         Activate, Show, Ended, Commit, At, diskVars, localVars, histVars, pageVars
<1>9. CASE Verify(r)
  BY <1>9, InstallAssumption
     DEF Passes, PcType, Installing, Committed, Young, Uncommitted, Written, Holding, Install,
         Activate, Show, Ended, Verify, At, diskVars, localVars, histVars, pageVars
<1>10. CASE Mark(r)
  BY <1>10, InstallAssumption
     DEF Passes, PcType, Installing, Committed, Young, Uncommitted, Written, Holding, Install,
         Activate, Show, Ended, Mark, At, diskVars, localVars, histVars, pageVars
<1>11. CASE MarkWrite(r)
  BY <1>11, InstallAssumption
     DEF Passes, PcType, Installing, Committed, Young, Uncommitted, Written, Holding, Install,
         Activate, Show, Ended, MarkWrite, At, diskVars, localVars, histVars, pageVars
<1>12. CASE Undo(r)
  BY <1>12, InstallAssumption
     DEF Passes, PcType, Installing, Committed, Young, Uncommitted, Written, Holding, Install,
         Activate, Show, Ended, Undo, At, diskVars, localVars, histVars, pageVars
<1>13. CASE Load(r)
  BY <1>13, InstallAssumption
     DEF Passes, PcType, Installing, Committed, Young, Uncommitted, Written, Holding, Install,
         Activate, Show, Ended, Load, Read, At, diskVars, localVars, histVars, pageVars
<1>14. CASE Parse(r)
  BY <1>14, InstallAssumption
     DEF Passes, PcType, Installing, Committed, Young, Uncommitted, Written, Holding, Install,
         Activate, Show, Ended, Parse, At, diskVars, localVars, histVars, pageVars
<1>15. CASE RestartLock(r)
  BY <1>15, InstallAssumption
     DEF Passes, PcType, Installing, Committed, Young, Uncommitted, Written, Holding, Install,
         Activate, Show, Ended, RestartLock, Cancel, At, diskVars, localVars, histVars,
         pageVars
<1>16. CASE Restart(r)
  BY <1>16, InstallAssumption
     DEF Passes, PcType, Installing, Committed, Young, Uncommitted, Written, Holding, Install,
         Activate, Show, Ended, Restart, Stopped, At, diskVars, localVars, histVars,
         pageVars
<1>17. CASE Store(r)
  BY <1>17, InstallAssumption
     DEF Passes, PcType, Installing, Committed, Young, Uncommitted, Written, Holding, Install,
         Activate, Show, Ended, Store, At, diskVars, localVars, histVars, pageVars
<1>18. CASE Claim(r)
  BY <1>18, InstallAssumption
     DEF Passes, PcType, Installing, Committed, Young, Uncommitted, Written, Holding, Install,
         Activate, Show, Ended, Claim, At, diskVars, localVars, histVars, pageVars
<1>19. CASE ClaimOpen(r)
  BY <1>19, InstallAssumption
     DEF Passes, PcType, Installing, Committed, Young, Uncommitted, Written, Holding, Install,
         Activate, Show, Ended, ClaimOpen, At, diskVars, localVars, histVars, pageVars
<1>20. CASE ClaimWrite(r)
  BY <1>20, InstallAssumption
     DEF Passes, PcType, Installing, Committed, Young, Uncommitted, Written, Holding, Install,
         Activate, Show, Ended, LocalType, ClaimWrite, At, diskVars, localVars,
         histVars, pageVars
<1>21. CASE Render(r)
  BY <1>21, InstallAssumption
     DEF Passes, PcType, Installing, Committed, Young, Uncommitted, Written, Holding, Install,
         Activate, Show, Ended, HistType, Render, At, diskVars, localVars, histVars,
         pageVars
<1> QED
  BY <1>1, <1>2, <1>3, <1>4, <1>5, <1>6, <1>7, <1>8, <1>9, <1>10, <1>11, <1>12, <1>13,
     <1>14, <1>15, <1>16, <1>17, <1>18, <1>19, <1>20, <1>21
     DEF ReqStep, InstallStep, ActivateStep, ShowStep

(* What such a step does to the marker, and what its page says.                *)
Tells(r) ==
    /\ pc'[r] = "mark write" => marker' = "empty"
    /\ marker' # marker => Installing(r) \/ pc[r] \in {"claim open", "claim write"}
    /\ marker' = "unclaimed" => marker = "unclaimed" \/ pc[r] = "mark write"
    /\ pc'[r] = "secret" => pc[r] = "marker" /\ marker = "unclaimed" /\ conf' = conf
    /\ recorded'[r] => \/ recorded[r] /\ pc'[r] \in Ended
                       \/ pc[r] = "claim write" /\ pc'[r] = "render" /\ marker' # "unclaimed"
    /\ pc'[r] = "idle" => UNCHANGED <<conf, marker>>
    /\ closed \subseteq closed'
    /\ closed' \subseteq closed \cup {key[r]}
    /\ closed' # closed => pc[r] = "render" /\ recorded[r]
    /\ \A q \in Reqs \ {r} : late'[q] = late[q]
    /\ late'[r] # late[r] => pc[r] = "idle" /\ late'[r] = closed /\ key'[r] = key[r]

\* Every step of a request is such a step, too.
LEMMA RequestTells ==
    ASSUME PcType, LocalType, HistType, OwnKeys, NEW r \in Reqs,
           Begin(r) \/ ReqStep(r)
    PROVE  Tells(r)
<1>1. CASE Begin(r)
  BY <1>1, InstallAssumption
     DEF Tells, PcType, Installing, Install, Ended, HistType, OwnKeys, OwnKey, Begin,
         At, diskVars, localVars, histVars, pageVars
<1>2. CASE StatConfig(r)
  BY <1>2, InstallAssumption
     DEF Tells, PcType, Installing, Install, Ended, OwnKeys, OwnKey, StatConfig, At,
         diskVars, localVars, histVars, pageVars
<1>3. CASE ReadMarker(r)
  BY <1>3, InstallAssumption
     DEF Tells, PcType, Installing, Install, Ended, OwnKeys, OwnKey, ReadMarker, At,
         diskVars, localVars, histVars, pageVars
<1>4. CASE ReadSecret(r)
  BY <1>4, InstallAssumption
     DEF Tells, PcType, Installing, Install, Ended, OwnKeys, OwnKey, ReadSecret, At,
         diskVars, localVars, histVars, pageVars
<1>5. CASE Recheck(r)
  BY <1>5, InstallAssumption
     DEF Tells, PcType, Installing, Install, Ended, OwnKeys, OwnKey, Recheck, At,
         diskVars, localVars, histVars, pageVars
<1>6. CASE Preflight(r)
  <2>1. /\ pc[r] \in {"probe config", "probed config", "probe var", "probed var"}
        /\ \E next \in {"probed config", "probe var", "probed var", "generate", "failed"} :
              pc' = [pc EXCEPT ![r] = next]
    BY <1>6 DEF Preflight, Probe, Unprobe, At
  <2>2. UNCHANGED <<conf, marker, serverVars, sweepVars, kind, key, recorded, mine, histVars>>
    BY <1>6 DEF Preflight, Probe, Unprobe, localVars
  <2> QED
    BY <2>1, <2>2
       DEF Tells, PcType, OwnKeys, OwnKey, Installing, Install, Ended, serverVars,
           sweepVars, histVars, pageVars
<1>7. CASE Generate(r)
  <2>1. /\ pc[r] = "generate"
        /\ \/ pc' = [pc EXCEPT ![r] = "commit"] /\ key' = [key EXCEPT ![r] = r]
           \/ pc' = [pc EXCEPT ![r] = "failed"] /\ key' = key
    BY <1>7 DEF Generate, At
  <2>2. UNCHANGED <<conf, marker, serverVars, sweepVars, kind, recorded, mine, histVars>>
    BY <1>7 DEF Generate, diskVars
  <2>3. key \in [Reqs -> Keys \cup {NoKey}]
    BY DEF LocalType
  <2> QED
    BY <2>1, <2>2, <2>3
       DEF Tells, PcType, OwnKeys, OwnKey, Installing, Install, Ended, serverVars,
           sweepVars, histVars, pageVars
<1>8. CASE Commit(r)
  BY <1>8, InstallAssumption
     DEF Tells, PcType, Installing, Install, Ended, OwnKeys, OwnKey, Commit, At,
         diskVars, localVars, histVars, pageVars
<1>9. CASE Verify(r)
  BY <1>9, InstallAssumption
     DEF Tells, PcType, Installing, Install, Ended, OwnKeys, OwnKey, Verify, At,
         diskVars, localVars, histVars, pageVars
<1>10. CASE Mark(r)
  BY <1>10, InstallAssumption
     DEF Tells, PcType, Installing, Install, Ended, OwnKeys, OwnKey, Mark, At, diskVars,
         localVars, histVars, pageVars
<1>11. CASE MarkWrite(r)
  BY <1>11, InstallAssumption
     DEF Tells, PcType, Installing, Install, Ended, OwnKeys, OwnKey, MarkWrite, At,
         diskVars, localVars, histVars, pageVars
<1>12. CASE Undo(r)
  BY <1>12, InstallAssumption
     DEF Tells, PcType, Installing, Install, Ended, OwnKeys, OwnKey, Undo, At, diskVars,
         localVars, histVars, pageVars
<1>13. CASE Load(r)
  BY <1>13, InstallAssumption
     DEF Tells, PcType, Installing, Install, Ended, OwnKeys, OwnKey, Load, Read, At,
         diskVars, localVars, histVars, pageVars
<1>14. CASE Parse(r)
  BY <1>14, InstallAssumption
     DEF Tells, PcType, Installing, Install, Ended, OwnKeys, OwnKey, Parse, At,
         diskVars, localVars, histVars, pageVars
<1>15. CASE RestartLock(r)
  BY <1>15, InstallAssumption
     DEF Tells, PcType, Installing, Install, Ended, OwnKeys, OwnKey, RestartLock,
         Cancel, At, diskVars, localVars, histVars, pageVars
<1>16. CASE Restart(r)
  BY <1>16, InstallAssumption
     DEF Tells, PcType, Installing, Install, Ended, OwnKeys, OwnKey, Restart, Stopped,
         At, diskVars, localVars, histVars, pageVars
<1>17. CASE Store(r)
  BY <1>17, InstallAssumption
     DEF Tells, PcType, Installing, Install, Ended, OwnKeys, OwnKey, Store, At,
         diskVars, localVars, histVars, pageVars
<1>18. CASE Claim(r)
  BY <1>18, InstallAssumption
     DEF Tells, PcType, Installing, Install, Ended, OwnKeys, OwnKey, Claim, At,
         diskVars, localVars, histVars, pageVars
<1>19. CASE ClaimOpen(r)
  BY <1>19, InstallAssumption
     DEF Tells, PcType, Installing, Install, Ended, OwnKeys, OwnKey, ClaimOpen, At,
         diskVars, localVars, histVars, pageVars
<1>20. CASE ClaimWrite(r)
  <2>1. /\ pc[r] = "claim write" /\ pc' = [pc EXCEPT ![r] = "render"]
        /\ \/ marker' = "claimed" /\ recorded' = [recorded EXCEPT ![r] = TRUE]
           \/ marker' = marker /\ recorded' = recorded
        /\ UNCHANGED <<conf, key, histVars>>
    BY <1>20 DEF ClaimWrite, At
  <2>2. recorded \in [Reqs -> BOOLEAN]
    BY DEF LocalType
  <2> QED
    BY <2>1, <2>2
       DEF Tells, PcType, OwnKeys, OwnKey, Installing, Install, Ended, histVars,
           pageVars
<1>21. CASE Render(r)
  BY <1>21, InstallAssumption
     DEF Tells, PcType, Installing, Install, Ended, OwnKeys, OwnKey, Render, At,
         diskVars, localVars, histVars, pageVars
<1> QED
  BY <1>1, <1>2, <1>3, <1>4, <1>5, <1>6, <1>7, <1>8, <1>9, <1>10, <1>11, <1>12, <1>13,
     <1>14, <1>15, <1>16, <1>17, <1>18, <1>19, <1>20, <1>21
     DEF ReqStep, InstallStep, ActivateStep, ShowStep

(* What such a step leaves of a config and of its key's way to a page.         *)
Leaves(r) ==
    /\ lost \subseteq lost' /\ leftovers \subseteq leftovers'
    /\ Installing(r) =>
          \/ Installing(r)'
          \/ conf # r \/ conf' = NoKey \/ r \in leftovers'
          \/ pc[r] = "mark write" /\ (marker = "empty" => marker' = "unclaimed")
    /\ marker = "unclaimed" => \/ marker' = "unclaimed"
                               \/ Installing(r)' /\ pc[r] = "mark"
                               \/ /\ pc[r] \in {"claim open", "claim write"}
                                  /\ pc'[r] \in {"claim write", "render"}
    /\ pc[r] \in {"claim write", "render"} =>
          pc'[r] = "render" \/ shown'[r] = key[r] \/ key[r] \in lost'
    /\ shown[r] # NoKey => shown'[r] = shown[r]

\* And such a step.
LEMMA RequestLeaves ==
    ASSUME PcType, LocalType, HistType, NotYetWritten, OwnKeys, NEW r \in Reqs,
           Begin(r) \/ ReqStep(r)
    PROVE  Leaves(r)
<1>1. CASE Begin(r)
  BY <1>1, InstallAssumption
     DEF Leaves, PcType, NotYetWritten, Uncommitted, OwnKeys, OwnKey, Installing,
         Install, Ended, Begin, At, diskVars, localVars, histVars, pageVars
<1>2. CASE StatConfig(r)
  BY <1>2, InstallAssumption
     DEF Leaves, PcType, NotYetWritten, Uncommitted, OwnKeys, OwnKey, Installing,
         Install, Ended, StatConfig, At, diskVars, localVars, histVars, pageVars
<1>3. CASE ReadMarker(r)
  BY <1>3, InstallAssumption
     DEF Leaves, PcType, NotYetWritten, Uncommitted, OwnKeys, OwnKey, Installing,
         Install, Ended, ReadMarker, At, diskVars, localVars, histVars, pageVars
<1>4. CASE ReadSecret(r)
  BY <1>4, InstallAssumption
     DEF Leaves, PcType, NotYetWritten, Uncommitted, OwnKeys, OwnKey, Installing,
         Install, Ended, ReadSecret, At, diskVars, localVars, histVars, pageVars
<1>5. CASE Recheck(r)
  BY <1>5, InstallAssumption
     DEF Leaves, PcType, NotYetWritten, Uncommitted, OwnKeys, OwnKey, Installing,
         Install, Ended, Recheck, At, diskVars, localVars, histVars, pageVars
<1>6. CASE Preflight(r)
  <2>1. /\ pc[r] \in {"probe config", "probed config", "probe var", "probed var"}
        /\ \E next \in {"probed config", "probe var", "probed var", "generate", "failed"} :
              pc' = [pc EXCEPT ![r] = next]
    BY <1>6 DEF Preflight, Probe, Unprobe, At
  <2>2. UNCHANGED <<conf, marker, serverVars, sweepVars, kind, key, recorded, mine, histVars>>
    BY <1>6 DEF Preflight, Probe, Unprobe, localVars
  <2> QED
    BY <2>1, <2>2
       DEF Leaves, PcType, NotYetWritten, Uncommitted, OwnKeys, OwnKey, Installing,
           Install, Ended, serverVars, sweepVars, histVars, pageVars
<1>7. CASE Generate(r)
  <2>1. /\ pc[r] = "generate"
        /\ \/ pc' = [pc EXCEPT ![r] = "commit"] /\ key' = [key EXCEPT ![r] = r]
           \/ pc' = [pc EXCEPT ![r] = "failed"] /\ key' = key
    BY <1>7 DEF Generate, At
  <2>2. UNCHANGED <<conf, marker, serverVars, sweepVars, kind, recorded, mine, histVars>>
    BY <1>7 DEF Generate, diskVars
  <2>3. key \in [Reqs -> Keys \cup {NoKey}]
    BY DEF LocalType
  <2> QED
    BY <2>1, <2>2, <2>3
       DEF Leaves, PcType, NotYetWritten, Uncommitted, OwnKeys, OwnKey, Installing,
           Install, Ended, serverVars, sweepVars, histVars, pageVars
<1>8. CASE Commit(r)
  BY <1>8, InstallAssumption
     DEF Leaves, PcType, NotYetWritten, Uncommitted, OwnKeys, OwnKey, Installing,
         Install, Ended, Commit, At, diskVars, localVars, histVars, pageVars
<1>9. CASE Verify(r)
  BY <1>9, InstallAssumption
     DEF Leaves, PcType, NotYetWritten, Uncommitted, OwnKeys, OwnKey, Installing,
         Install, Ended, Verify, At, diskVars, localVars, histVars, pageVars
<1>10. CASE Mark(r)
  BY <1>10, InstallAssumption
     DEF Leaves, PcType, NotYetWritten, Uncommitted, OwnKeys, OwnKey, Installing,
         Install, Ended, Mark, At, diskVars, localVars, histVars, pageVars
<1>11. CASE MarkWrite(r)
  BY <1>11, InstallAssumption
     DEF Leaves, PcType, NotYetWritten, Uncommitted, OwnKeys, OwnKey, Installing,
         Install, Ended, MarkWrite, At, diskVars, localVars, histVars, pageVars
<1>12. CASE Undo(r)
  BY <1>12, InstallAssumption
     DEF Leaves, PcType, NotYetWritten, Uncommitted, OwnKeys, OwnKey, Installing,
         Install, Ended, Undo, At, diskVars, localVars, histVars, pageVars
<1>13. CASE Load(r)
  BY <1>13, InstallAssumption
     DEF Leaves, PcType, NotYetWritten, Uncommitted, OwnKeys, OwnKey, Installing,
         Install, Ended, Load, Read, At, diskVars, localVars, histVars, pageVars
<1>14. CASE Parse(r)
  BY <1>14, InstallAssumption
     DEF Leaves, PcType, NotYetWritten, Uncommitted, OwnKeys, OwnKey, Installing,
         Install, Ended, Parse, At, diskVars, localVars, histVars, pageVars
<1>15. CASE RestartLock(r)
  BY <1>15, InstallAssumption
     DEF Leaves, PcType, NotYetWritten, Uncommitted, OwnKeys, OwnKey, Installing,
         Install, Ended, RestartLock, Cancel, At, diskVars, localVars, histVars,
         pageVars
<1>16. CASE Restart(r)
  BY <1>16, InstallAssumption
     DEF Leaves, PcType, NotYetWritten, Uncommitted, OwnKeys, OwnKey, Installing,
         Install, Ended, Restart, Stopped, At, diskVars, localVars, histVars, pageVars
<1>17. CASE Store(r)
  BY <1>17, InstallAssumption
     DEF Leaves, PcType, NotYetWritten, Uncommitted, OwnKeys, OwnKey, Installing,
         Install, Ended, Store, At, diskVars, localVars, histVars, pageVars
<1>18. CASE Claim(r)
  BY <1>18, InstallAssumption
     DEF Leaves, PcType, NotYetWritten, Uncommitted, OwnKeys, OwnKey, Installing,
         Install, Ended, Claim, At, diskVars, localVars, histVars, pageVars
<1>19. CASE ClaimOpen(r)
  BY <1>19, InstallAssumption
     DEF Leaves, PcType, NotYetWritten, Uncommitted, OwnKeys, OwnKey, Installing,
         Install, Ended, ClaimOpen, At, diskVars, localVars, histVars, pageVars
<1>20. CASE ClaimWrite(r)
  <2>1. /\ pc[r] = "claim write" /\ pc' = [pc EXCEPT ![r] = "render"]
        /\ \/ marker' = "claimed" /\ recorded' = [recorded EXCEPT ![r] = TRUE]
           \/ marker' = marker /\ recorded' = recorded
        /\ UNCHANGED <<conf, key, histVars>>
    BY <1>20 DEF ClaimWrite, At
  <2>2. recorded \in [Reqs -> BOOLEAN]
    BY DEF LocalType
  <2> QED
    BY <2>1, <2>2
       DEF Leaves, PcType, NotYetWritten, Uncommitted, OwnKeys, OwnKey, Installing,
           Install, Ended, histVars, pageVars
<1>21. CASE Render(r)
  BY <1>21, InstallAssumption
     DEF Leaves, PcType, NotYetWritten, Uncommitted, OwnKeys, OwnKey, Installing,
         Install, Ended, HistType, Render, At, diskVars, localVars, histVars, pageVars
<1> QED
  BY <1>1, <1>2, <1>3, <1>4, <1>5, <1>6, <1>7, <1>8, <1>9, <1>10, <1>11, <1>12, <1>13,
     <1>14, <1>15, <1>16, <1>17, <1>18, <1>19, <1>20, <1>21
     DEF ReqStep, InstallStep, ActivateStep, ShowStep

\* A request that installs generates a key, which is named after it, and no other.
LEMMA RequestOwns ==
    ASSUME PcType, LocalType, HistType, OwnKeys, NEW r \in Reqs,
           Begin(r) \/ ReqStep(r)
    PROVE  OwnKey(r)'
<1>1. CASE Begin(r)
  BY <1>1, InstallAssumption
     DEF PcType, OwnKeys, OwnKey, Keyless, Uncommitted, Owning, Activate, Ended,
         Begin, At, diskVars, localVars, histVars, pageVars
<1>2. CASE StatConfig(r)
  BY <1>2, InstallAssumption
     DEF PcType, OwnKeys, OwnKey, Keyless, Uncommitted, Owning, Activate, Ended,
         StatConfig, At, diskVars, localVars, histVars, pageVars
<1>3. CASE ReadMarker(r)
  BY <1>3, InstallAssumption
     DEF PcType, OwnKeys, OwnKey, Keyless, Uncommitted, Owning, Activate, Ended,
         ReadMarker, At, diskVars, localVars, histVars, pageVars
<1>4. CASE ReadSecret(r)
  BY <1>4, InstallAssumption
     DEF PcType, OwnKeys, OwnKey, Keyless, Uncommitted, Owning, Activate, Ended,
         LocalType, ReadSecret, At, diskVars, localVars, histVars, pageVars
<1>5. CASE Recheck(r)
  BY <1>5, InstallAssumption
     DEF PcType, OwnKeys, OwnKey, Keyless, Uncommitted, Owning, Activate, Ended,
         Recheck, At, diskVars, localVars, histVars, pageVars
<1>6. CASE Preflight(r)
  <2>1. /\ pc[r] \in {"probe config", "probed config", "probe var", "probed var"}
        /\ \E next \in {"probed config", "probe var", "probed var", "generate", "failed"} :
              pc' = [pc EXCEPT ![r] = next]
    BY <1>6 DEF Preflight, Probe, Unprobe, At
  <2>2. UNCHANGED <<conf, marker, serverVars, sweepVars, kind, key, recorded, mine, histVars>>
    BY <1>6 DEF Preflight, Probe, Unprobe, localVars
  <2> QED
    BY <2>1, <2>2
       DEF PcType, OwnKeys, OwnKey, Keyless, Uncommitted, Owning, Activate,
           Ended, serverVars, sweepVars, histVars, pageVars
<1>7. CASE Generate(r)
  <2>1. /\ pc[r] = "generate"
        /\ \/ pc' = [pc EXCEPT ![r] = "commit"] /\ key' = [key EXCEPT ![r] = r]
           \/ pc' = [pc EXCEPT ![r] = "failed"] /\ key' = key
    BY <1>7 DEF Generate, At
  <2>2. UNCHANGED <<conf, marker, serverVars, sweepVars, kind, recorded, mine, histVars>>
    BY <1>7 DEF Generate, diskVars
  <2>3. key \in [Reqs -> Keys \cup {NoKey}]
    BY DEF LocalType
  <2> QED
    BY <2>1, <2>2, <2>3
       DEF PcType, OwnKeys, OwnKey, Keyless, Uncommitted, Owning, Activate,
           Ended, serverVars, sweepVars, histVars, pageVars
<1>8. CASE Commit(r)
  BY <1>8, InstallAssumption
     DEF PcType, OwnKeys, OwnKey, Keyless, Uncommitted, Owning, Activate, Ended,
         Commit, At, diskVars, localVars, histVars, pageVars
<1>9. CASE Verify(r)
  BY <1>9, InstallAssumption
     DEF PcType, OwnKeys, OwnKey, Keyless, Uncommitted, Owning, Activate, Ended,
         Verify, At, diskVars, localVars, histVars, pageVars
<1>10. CASE Mark(r)
  BY <1>10, InstallAssumption
     DEF PcType, OwnKeys, OwnKey, Keyless, Uncommitted, Owning, Activate, Ended,
         Mark, At, diskVars, localVars, histVars, pageVars
<1>11. CASE MarkWrite(r)
  BY <1>11, InstallAssumption
     DEF PcType, OwnKeys, OwnKey, Keyless, Uncommitted, Owning, Activate, Ended,
         MarkWrite, At, diskVars, localVars, histVars, pageVars
<1>12. CASE Undo(r)
  BY <1>12, InstallAssumption
     DEF PcType, OwnKeys, OwnKey, Keyless, Uncommitted, Owning, Activate, Ended,
         Undo, At, diskVars, localVars, histVars, pageVars
<1>13. CASE Load(r)
  BY <1>13, InstallAssumption
     DEF PcType, OwnKeys, OwnKey, Keyless, Uncommitted, Owning, Activate, Ended,
         Load, Read, At, diskVars, localVars, histVars, pageVars
<1>14. CASE Parse(r)
  BY <1>14, InstallAssumption
     DEF PcType, OwnKeys, OwnKey, Keyless, Uncommitted, Owning, Activate, Ended,
         Parse, At, diskVars, localVars, histVars, pageVars
<1>15. CASE RestartLock(r)
  BY <1>15, InstallAssumption
     DEF PcType, OwnKeys, OwnKey, Keyless, Uncommitted, Owning, Activate, Ended,
         RestartLock, Cancel, At, diskVars, localVars, histVars, pageVars
<1>16. CASE Restart(r)
  BY <1>16, InstallAssumption
     DEF PcType, OwnKeys, OwnKey, Keyless, Uncommitted, Owning, Activate, Ended,
         Restart, Stopped, At, diskVars, localVars, histVars, pageVars
<1>17. CASE Store(r)
  BY <1>17, InstallAssumption
     DEF PcType, OwnKeys, OwnKey, Keyless, Uncommitted, Owning, Activate, Ended,
         Store, At, diskVars, localVars, histVars, pageVars
<1>18. CASE Claim(r)
  BY <1>18, InstallAssumption
     DEF PcType, OwnKeys, OwnKey, Keyless, Uncommitted, Owning, Activate, Ended,
         Claim, At, diskVars, localVars, histVars, pageVars
<1>19. CASE ClaimOpen(r)
  BY <1>19, InstallAssumption
     DEF PcType, OwnKeys, OwnKey, Keyless, Uncommitted, Owning, Activate, Ended,
         ClaimOpen, At, diskVars, localVars, histVars, pageVars
<1>20. CASE ClaimWrite(r)
  <2>1. /\ pc[r] = "claim write" /\ pc' = [pc EXCEPT ![r] = "render"]
        /\ \/ marker' = "claimed" /\ recorded' = [recorded EXCEPT ![r] = TRUE]
           \/ marker' = marker /\ recorded' = recorded
        /\ UNCHANGED <<conf, key, histVars>>
    BY <1>20 DEF ClaimWrite, At
  <2>2. recorded \in [Reqs -> BOOLEAN]
    BY DEF LocalType
  <2> QED
    BY <2>1, <2>2
       DEF PcType, OwnKeys, OwnKey, Keyless, Uncommitted, Owning, Activate,
           Ended, histVars, pageVars
<1>21. CASE Render(r)
  BY <1>21, InstallAssumption
     DEF PcType, OwnKeys, OwnKey, Keyless, Uncommitted, Owning, Activate, Ended,
         HistType, Render, At, diskVars, localVars, histVars, pageVars
<1> QED
  BY <1>1, <1>2, <1>3, <1>4, <1>5, <1>6, <1>7, <1>8, <1>9, <1>10, <1>11, <1>12, <1>13,
     <1>14, <1>15, <1>16, <1>17, <1>18, <1>19, <1>20, <1>21
     DEF ReqStep, InstallStep, ActivateStep, ShowStep

(* What a step of the process, of a sweep loop or of the operator does.        *)
Elsewhere ==
    /\ UNCHANGED <<marker, key, recorded, kind, shown, closed, late, clash, leftovers>>
    /\ registered' \in {registered, Boot, Nobody}
    /\ lost \subseteq lost'
    /\ conf' \in {conf, Hand, NoKey}
    /\ \A q \in Reqs : \/ pc'[q] = pc[q]
                       \/ /\ pc'[q] = "killed" /\ pc[q] # "idle"
                          /\ pc[q] \in {"verify", "mark", "mark write", "undo", "claim write",
                                        "render"} => key[q] \in lost'

\* There are no other steps.
LEMMA EveryStep ==
    ASSUME PcType, [Next]_vars
    PROVE  (\E r \in Reqs : Begin(r) \/ ReqStep(r)) \/ Elsewhere
<1>1. ASSUME NEW killed \in SUBSET {r \in Reqs : Running(r)}, Gone(killed), UNCHANGED diskVars
      PROVE  Elsewhere
  <2>1. /\ UNCHANGED <<diskVars, localVars, pageVars, clash, leftovers>>
        /\ registered' = Nobody
        /\ pc' = [r \in Reqs |-> IF r \in killed THEN "killed" ELSE pc[r]]
        /\ lost' = lost \cup {key[r] : r \in {q \in killed : pc[q] \in
                      {"verify", "mark", "mark write", "undo", "claim write", "render"}}}
    BY <1>1 DEF Gone
  <2> QED
    BY <2>1 DEF Elsewhere, Running, diskVars, localVars, pageVars
<1>2. ASSUME (\E x \in Loops : LoopEnds(x)) \/ Signal \/ Drain \/ StopLock \/ StopReturns
      PROVE  Elsewhere
  BY <1>2 DEF Elsewhere, LoopEnds, Signal, Drain, StopLock, StopReturns, diskVars, localVars,
              histVars, pageVars, sweepVars
<1>3. ASSUME Start PROVE Elsewhere
  BY <1>3 DEF Elsewhere, Start, diskVars, histVars, pageVars
<1>4. ASSUME Exit \/ Crash PROVE Elsewhere
  BY <1>1, <1>4 DEF Exit, Crash, Gone
<1>5. ASSUME HandWrite \/ HandDelete PROVE Elsewhere
  BY <1>5 DEF Elsewhere, HandWrite, HandDelete, Edit, sweepVars, localVars, pageVars
<1>6. ASSUME UNCHANGED vars PROVE Elsewhere
  BY <1>6 DEF Elsewhere, vars, diskVars, sweepVars, localVars, histVars, pageVars
<1> QED
  BY <1>2, <1>3, <1>4, <1>5, <1>6 DEF Next, ShutdownStep

-----------------------------------------------------------------------------
(* The parts of the invariant, one by one. *)

\* What a request has in hand stays its own.
LEMMA OwnKeyStep ==
    ASSUME OwnKeys, PcType, LocalType, HistType, [Next]_vars
    PROVE  OwnKeys'
<1>1. ASSUME NEW r \in Reqs, Begin(r) \/ ReqStep(r) PROVE OwnKeys'
  <2>1. Passes(r) /\ OwnKey(r)'
    BY <1>1, RequestPasses, RequestOwns
  <2>2. ASSUME NEW q \in Reqs \ {r} PROVE OwnKey(q)'
    <3>1. pc'[q] = pc[q] /\ key'[q] = key[q] /\ shown'[q] = shown[q] /\ recorded'[q] = recorded[q]
      BY <2>1 DEF Passes
    <3> QED
      BY <3>1 DEF OwnKeys, OwnKey
  <2> QED
    BY <2>1, <2>2 DEF OwnKeys
<1>2. ASSUME Elsewhere PROVE OwnKeys'
  BY <1>2 DEF OwnKeys, OwnKey, Elsewhere, Keyless, Uncommitted, Owning, Activate, Ended
<1> QED
  BY <1>1, <1>2, EveryStep

\* What was closed when a request began stays closed.
LEMMA LateStep ==
    ASSUME LateIsClosed, OwnKeys, PcType, LocalType, HistType, [Next]_vars
    PROVE  LateIsClosed'
<1>1. ASSUME NEW r \in Reqs, Begin(r) \/ ReqStep(r) PROVE LateIsClosed'
  <2>1. Tells(r)
    BY <1>1, RequestTells
  <2> QED
    BY <2>1 DEF LateIsClosed, Tells
<1>2. ASSUME Elsewhere PROVE LateIsClosed'
  BY <1>2 DEF LateIsClosed, Elsewhere
<1> QED
  BY <1>1, <1>2, EveryStep

\* Whoever passes the marker beside an install makes a clash.
LEMMA OneInstallStep ==
    ASSUME OneInstall, PcType, LocalType, HistType, [Next]_vars
    PROVE  OneInstall'
<1>1. ASSUME NEW r \in Reqs, Begin(r) \/ ReqStep(r), ~clash',
             NEW a \in Reqs, NEW b \in Reqs, a # b
      PROVE  /\ Installing(a)' => ~Committed(b)'
             /\ pc'[a] \in Activate => pc'[b] \notin Activate
  <2>1. Passes(r)
    BY <1>1, RequestPasses
  <2>2. \A q \in Reqs \ {r} : (Committed(q)' <=> Committed(q)) /\ (Installing(q)' <=> Installing(q))
    BY <2>1 DEF Passes, Committed, Installing
  <2>3. \A q \in Reqs : Installing(q) \/ pc[q] \in Activate => Committed(q)
    BY DEF Committed
  <2>4. pc[r] = "mark write" => Installing(r)
    BY DEF Installing, Install
  <2>5. ~clash
    BY <1>1, <2>1 DEF Passes
  <2>6. CASE a = r
    BY <1>1, <2>1, <2>2, <2>3, <2>4, <2>5, <2>6 DEF OneInstall, Passes
  <2>7. CASE b = r
    BY <1>1, <2>1, <2>2, <2>3, <2>4, <2>5, <2>7 DEF OneInstall, Passes
  <2>8. CASE a # r /\ b # r
    BY <1>1, <2>1, <2>2, <2>5, <2>8 DEF OneInstall, Passes
  <2> QED
    BY <2>6, <2>7, <2>8
<1>2. ASSUME Elsewhere PROVE OneInstall'
  <2>1. \A q \in Reqs : /\ Committed(q)' => Committed(q)
                        /\ Installing(q)' => Installing(q)
                        /\ pc'[q] \in Activate => pc[q] \in Activate
    BY <1>2 DEF Elsewhere, Committed, Installing, Install, Activate, Show
  <2> QED
    BY <1>2, <2>1 DEF OneInstall, Elsewhere
<1> QED
  BY <1>1, <1>2, EveryStep DEF OneInstall

\* While anybody holds its key, a generated config gives way only to the operator.
LEMMA WhoseConfStep ==
    ASSUME WhoseConf, OneInstall, OwnKeys, PcType, LocalType, HistType, [Next]_vars
    PROVE  WhoseConf'
<1>0. \A q \in Reqs : pc[q] \in Holding \cup Written => Committed(q)
  BY DEF Holding, Written, Committed, Installing, Install, Show
<1>1. ASSUME NEW r \in Reqs, Begin(r) \/ ReqStep(r), ~clash', NEW q \in Reqs
      PROVE  /\ pc'[q] \in Written => conf' \in {NoKey, Hand, q}
             /\ pc'[q] \in Holding /\ conf' \in Reqs => key'[q] = conf'
  <2>1. Passes(r)
    BY <1>1, RequestPasses
  <2>2. ~clash
    BY <1>1, <2>1 DEF Passes
  <2>3. pc[r] = "commit" => Installing(r) /\ key[r] = r
    BY DEF Installing, Install, OwnKeys, OwnKey, Owning
  <2>4. CASE q # r
    <3>1. pc'[q] = pc[q] /\ key'[q] = key[q]
      BY <2>1, <2>4 DEF Passes
    <3>3. CASE conf' = conf
      BY <2>2, <3>1, <3>3 DEF WhoseConf
    <3>4. CASE conf' = NoKey
      BY <3>4, InstallAssumption
    <3>5. CASE conf' = r /\ pc[r] = "commit"
      BY <1>0, <2>2, <2>3, <2>4, <3>1, <3>5 DEF OneInstall
    <3> QED
      BY <2>1, <3>3, <3>4, <3>5 DEF Passes
  <2>5. CASE q = r
    <3>1. pc'[r] \in Written => conf' \in {NoKey, Hand, r}
      BY <2>1, <2>2 DEF Passes, WhoseConf
    <3>2. ASSUME pc'[r] \in Holding, conf' \in Reqs PROVE key'[r] = conf'
      <4>1. CASE pc[r] \in Holding /\ conf' = conf
        <5>1. key'[r] = key[r]
          BY <2>1, <4>1 DEF Passes, Holding, Activate
        <5> QED
          BY <2>2, <3>2, <4>1, <5>1 DEF WhoseConf
      <4>2. CASE pc[r] = "mark write" /\ conf' = conf
        <5>1. key'[r] = r /\ Installing(r)
          BY <2>1, <4>2 DEF Passes, OwnKeys, OwnKey, Owning, Installing, Install
        <5> QED
          BY <2>2, <3>2, <4>2, <5>1, InstallAssumption DEF WhoseConf, Written
      <4> QED
        BY <2>1, <3>2, <4>1, <4>2 DEF Passes
    <3> QED
      BY <2>5, <3>1, <3>2
  <2> QED
    BY <2>4, <2>5
<1>2. ASSUME Elsewhere PROVE WhoseConf'
  <2>1. \A q \in Reqs : /\ pc'[q] \in Written => pc[q] \in Written
                        /\ pc'[q] \in Holding => pc[q] \in Holding
    BY <1>2 DEF Elsewhere, Written, Holding, Activate
  <2>2. conf' = conf \/ conf' = NoKey \/ conf' = Hand
    BY <1>2 DEF Elsewhere
  <2> QED
    BY <1>2, <2>1, <2>2, InstallAssumption DEF WhoseConf, Elsewhere
<1> QED
  BY <1>1, <1>2, EveryStep DEF WhoseConf

\* A key written by hand meets no request that is past the marker.
LEMMA HandStep ==
    ASSUME HandIsApart, PcType, LocalType, HistType, [Next]_vars
    PROVE  HandIsApart'
<1>0. ASSUME UNCHANGED <<conf, marker, handOpen, pc, key, shown>>
      PROVE  HandIsApart'
  BY <1>0 DEF HandIsApart, Written, Activate, Show
<1>1. ASSUME (\E x \in Loops : LoopEnds(x)) \/ Start \/ Signal \/ Drain \/ StopLock \/
             StopReturns
      PROVE  UNCHANGED <<conf, marker, handOpen, pc, key, shown>>
  BY <1>1
     DEF LoopEnds, Start, Signal, Drain, StopLock, StopReturns, Installed, Cancel,
         Stopped, diskVars, serverVars, sweepVars, localVars, histVars, pageVars,
         endVars, boundVars
<1>2. ASSUME NEW r \in Reqs, Begin(r)
      PROVE  HandIsApart'
  <2>1. UNCHANGED <<conf, marker, handOpen, key, shown>>
    BY <1>2 DEF Begin, diskVars, serverVars, sweepVars, histVars, pageVars
  <2>2. pc[r] = "idle" /\ \E next \in {"recheck", "stat"} : pc' = [pc EXCEPT ![r] = next]
    BY <1>2 DEF Begin, At
  <2> QED
    BY <2>1, <2>2, InstallAssumption
       DEF HandIsApart, PcType, Committed, Installing, Install, Written, Activate, Show, Ended
<1>3. ASSUME NEW r \in Reqs, StatConfig(r)
      PROVE  HandIsApart'
  BY <1>3, InstallAssumption
     DEF HandIsApart, PcType, Committed, Installing, Install, Written, Activate, Show, Ended,
         StatConfig, At, diskVars, localVars, histVars, pageVars
<1>4. ASSUME NEW r \in Reqs, ReadMarker(r)
      PROVE  HandIsApart'
  BY <1>4, InstallAssumption
     DEF HandIsApart, PcType, Committed, Installing, Install, Written, Activate, Show, Ended,
         ReadMarker, At, diskVars, localVars, histVars, pageVars
<1>5. ASSUME NEW r \in Reqs, ReadSecret(r)
      PROVE  HandIsApart'
  BY <1>5, InstallAssumption
     DEF HandIsApart, PcType, Committed, Installing, Install, Written, Activate, Show, Ended,
         LocalType, ReadSecret, At, diskVars, localVars, histVars, pageVars
<1>6. ASSUME NEW r \in Reqs, Recheck(r)
      PROVE  HandIsApart'
  BY <1>6, InstallAssumption
     DEF HandIsApart, PcType, Committed, Installing, Install, Written, Activate, Show, Ended,
         Recheck, At, diskVars, localVars, histVars, pageVars
<1>7. ASSUME NEW r \in Reqs, Preflight(r)
      PROVE  HandIsApart'
  BY <1>7, InstallAssumption
     DEF HandIsApart, PcType, Committed, Installing, Install, Written, Activate, Show, Ended,
         Preflight, Probe, Unprobe, At, diskVars, localVars, histVars, pageVars
<1>8. ASSUME NEW r \in Reqs, Generate(r)
      PROVE  HandIsApart'
  <2>1. UNCHANGED <<conf, marker, handOpen, shown>>
    BY <1>8 DEF Generate, diskVars, histVars, pageVars
  <2>2. /\ \E next \in {"commit", "failed"} : pc' = [pc EXCEPT ![r] = next]
        /\ key' = [key EXCEPT ![r] = r] \/ key' = key
    BY <1>8 DEF Generate, At
  <2>3. pc \in [Reqs -> ReqState] /\ key \in [Reqs -> Keys \cup {NoKey}]
    BY DEF PcType, LocalType
  <2>4. \A q \in Reqs : key'[q] = Hand => key[q] = Hand
    BY <2>2, <2>3, InstallAssumption
  <2>5. \A q \in Reqs : pc'[q] = pc[q] \/ pc'[q] \in {"commit", "failed"}
    BY <2>2, <2>3
  <2> QED
    BY <2>1, <2>4, <2>5 DEF HandIsApart, Written, Activate, Show
<1>9. ASSUME NEW r \in Reqs, Commit(r)
      PROVE  HandIsApart'
  BY <1>9, InstallAssumption
     DEF HandIsApart, PcType, Committed, Installing, Install, Written, Activate, Show, Ended,
         Commit, At, diskVars, localVars, histVars, pageVars
<1>10. ASSUME NEW r \in Reqs, Verify(r)
      PROVE  HandIsApart'
  BY <1>10, InstallAssumption
     DEF HandIsApart, PcType, Committed, Installing, Install, Written, Activate, Show, Ended,
         Verify, At, diskVars, localVars, histVars, pageVars
<1>11. ASSUME NEW r \in Reqs, Mark(r)
      PROVE  HandIsApart'
  BY <1>11, InstallAssumption
     DEF HandIsApart, PcType, Committed, Installing, Install, Written, Activate, Show, Ended,
         Mark, At, diskVars, localVars, histVars, pageVars
<1>12. ASSUME NEW r \in Reqs, MarkWrite(r)
      PROVE  HandIsApart'
  BY <1>12, InstallAssumption
     DEF HandIsApart, PcType, Committed, Installing, Install, Written, Activate, Show, Ended,
         MarkWrite, At, diskVars, localVars, histVars, pageVars
<1>13. ASSUME NEW r \in Reqs, Undo(r)
      PROVE  HandIsApart'
  BY <1>13, InstallAssumption
     DEF HandIsApart, PcType, Committed, Installing, Install, Written, Activate, Show, Ended,
         Undo, At, diskVars, localVars, histVars, pageVars
<1>14. ASSUME NEW r \in Reqs, Load(r)
      PROVE  HandIsApart'
  BY <1>14, InstallAssumption
     DEF HandIsApart, PcType, Committed, Installing, Install, Written, Activate, Show, Ended,
         Load, Read, At, diskVars, localVars, histVars, pageVars
<1>15. ASSUME NEW r \in Reqs, Parse(r)
      PROVE  HandIsApart'
  BY <1>15, InstallAssumption
     DEF HandIsApart, PcType, Committed, Installing, Install, Written, Activate, Show, Ended,
         Parse, At, diskVars, localVars, histVars, pageVars
<1>16. ASSUME NEW r \in Reqs, RestartLock(r)
      PROVE  HandIsApart'
  BY <1>16, InstallAssumption
     DEF HandIsApart, PcType, Committed, Installing, Install, Written, Activate, Show, Ended,
         RestartLock, Cancel, At, diskVars, localVars, histVars, pageVars
<1>17. ASSUME NEW r \in Reqs, Restart(r)
      PROVE  HandIsApart'
  BY <1>17, InstallAssumption
     DEF HandIsApart, PcType, Committed, Installing, Install, Written, Activate, Show, Ended,
         Restart, Stopped, At, diskVars, localVars, histVars, pageVars
<1>18. ASSUME NEW r \in Reqs, Store(r)
      PROVE  HandIsApart'
  BY <1>18, InstallAssumption
     DEF HandIsApart, PcType, Committed, Installing, Install, Written, Activate, Show, Ended,
         Store, At, diskVars, localVars, histVars, pageVars
<1>19. ASSUME NEW r \in Reqs, Claim(r)
      PROVE  HandIsApart'
  BY <1>19, InstallAssumption
     DEF HandIsApart, PcType, Committed, Installing, Install, Written, Activate, Show, Ended,
         Claim, At, diskVars, localVars, histVars, pageVars
<1>20. ASSUME NEW r \in Reqs, ClaimOpen(r)
      PROVE  HandIsApart'
  BY <1>20, InstallAssumption
     DEF HandIsApart, PcType, Committed, Installing, Install, Written, Activate, Show, Ended,
         ClaimOpen, At, diskVars, localVars, histVars, pageVars
<1>21. ASSUME NEW r \in Reqs, ClaimWrite(r)
      PROVE  HandIsApart'
  BY <1>21, InstallAssumption
     DEF HandIsApart, PcType, Committed, Installing, Install, Written, Activate, Show, Ended,
         ClaimWrite, At, diskVars, localVars, histVars, pageVars
<1>22. ASSUME NEW r \in Reqs, Render(r)
      PROVE  HandIsApart'
  BY <1>22, InstallAssumption
     DEF HandIsApart, PcType, Committed, Installing, Install, Written, Activate, Show, Ended,
         HistType, Render, At, diskVars, localVars, histVars, pageVars
<1>23. ASSUME Exit
      PROVE  HandIsApart'
  <2>1. PICK killed \in SUBSET Reqs : Gone(killed)
    BY <1>23 DEF Exit
  <2> QED
    BY <2>1, InstallAssumption
       DEF HandIsApart, PcType, Committed, Installing, Install, Written, Activate, Show, Ended,
           Gone, diskVars, localVars, pageVars
<1>24. ASSUME Crash
      PROVE  HandIsApart'
  <2>1. PICK killed \in SUBSET Reqs : Gone(killed)
    BY <1>24 DEF Crash
  <2> QED
    BY <2>1, InstallAssumption
       DEF HandIsApart, PcType, Committed, Installing, Install, Written, Activate, Show, Ended,
           Gone, diskVars, localVars, pageVars
<1>25. ASSUME HandWrite
      PROVE  HandIsApart'
  BY <1>25, InstallAssumption
     DEF HandIsApart, PcType, Committed, Installing, Install, Written, Activate, Show, Ended,
         HandWrite, Edit, At, diskVars, localVars, histVars, pageVars
<1>26. ASSUME HandDelete
      PROVE  HandIsApart'
  BY <1>26, InstallAssumption
     DEF HandIsApart, PcType, Committed, Installing, Install, Written, Activate, Show, Ended,
         HandDelete, Edit, At, diskVars, localVars, histVars, pageVars
<1>27. CASE UNCHANGED vars
  BY <1>27, <1>0
     DEF vars, diskVars, serverVars, sweepVars, localVars, histVars, pageVars, endVars
<1> QED
  BY <1>0, <1>1, <1>2, <1>3, <1>4, <1>5, <1>6, <1>7, <1>8, <1>9, <1>10, <1>11, <1>12,
     <1>13, <1>14, <1>15, <1>16, <1>17, <1>18, <1>19, <1>20, <1>21, <1>22, <1>23, <1>24,
     <1>25, <1>26, <1>27
     DEF Next, ReqStep, InstallStep, ActivateStep, ShowStep, ShutdownStep

\* Nobody can read a key whose install is not over, so no page has closed it.
LEMMA OthersKeyStep ==
    ASSUME OthersKeys, OneInstall, OwnKeys, NotYetWritten, PcType, LocalType, HistType,
           [Next]_vars
    PROVE  OthersKeys'
<1>0. \A k \in Reqs : pc[k] \in Young => k # conf \/ Installing(k)
  BY DEF NotYetWritten, Young, Uncommitted, Install, Installing
<1>1. ASSUME NEW r \in Reqs, Begin(r) \/ ReqStep(r), ~clash', NEW k \in Reqs, pc'[k] \in Young
      PROVE  (\A q \in Reqs \ {k} : key'[q] # k) /\ k \notin closed'
  <2>1. Passes(r) /\ Tells(r)
    BY <1>1, RequestPasses, RequestTells
  <2>2. ~clash
    BY <1>1, <2>1 DEF Passes
  <2>3. pc[k] \in Young
    BY <1>1, <2>1 DEF Passes
  <2>4. ASSUME NEW q \in Reqs \ {k} PROVE key'[q] # k
    <3>1. CASE key'[q] = key[q]
      BY <2>2, <2>3, <3>1 DEF OthersKeys
    <3>2. CASE key'[q] # key[q]
      <4>1. q = r
        BY <2>1, <3>2 DEF Passes
      <4>2. CASE pc[r] = "secret" /\ key'[r] = conf
        <5>1. Committed(r)
          BY <4>2 DEF Committed, Show
        <5>2. k # conf
          BY <1>0, <2>2, <2>3, <2>4, <4>1, <5>1 DEF OneInstall
        <5> QED
          BY <4>1, <4>2, <5>2
      <4> QED
        BY <2>1, <2>4, <3>2, <4>1, <4>2 DEF Passes
    <3> QED
      BY <3>1, <3>2
  <2>5. k \notin closed'
    <3>1. CASE closed' = closed
      BY <2>2, <2>3, <3>1 DEF OthersKeys
    <3>2. CASE closed' # closed
      <4>1. pc[r] = "render" /\ closed' \subseteq closed \cup {key[r]}
        BY <2>1, <3>2 DEF Tells
      <4>2. k # r
        BY <2>3, <4>1 DEF Young, Uncommitted, Install
      <4> QED
        BY <2>2, <2>3, <4>1, <4>2 DEF OthersKeys
    <3> QED
      BY <3>1, <3>2
  <2> QED
    BY <2>4, <2>5
<1>2. ASSUME Elsewhere PROVE OthersKeys'
  <2>1. \A k \in Reqs : pc'[k] \in Young => pc[k] \in Young
    BY <1>2 DEF Elsewhere, Young, Uncommitted, Install
  <2> QED
    BY <1>2, <2>1 DEF OthersKeys, Elsewhere
<1> QED
  BY <1>1, <1>2, EveryStep DEF OthersKeys

(* Only an install makes a marker unclaimed, and it does so for its own key;   *)
(* a page closes a key only after its marker was claimed.                    *)
LEMMA MarkerStep ==
    ASSUME MarkerIsClosed, WhoseConf, OneInstall, OthersKeys, OwnKeys, PcType, LocalType,
           HistType, [Next]_vars
    PROVE  MarkerIsClosed'
<1>1. ASSUME NEW r \in Reqs, Begin(r) \/ ReqStep(r), ~clash', conf' \in Reqs
      PROVE  /\ conf' \in closed' => marker' # "unclaimed"
             /\ \A q \in Reqs : pc'[q] = "render" /\ recorded'[q] /\ key'[q] = conf'
                                   => marker' # "unclaimed"
  <2>1. Passes(r) /\ Tells(r)
    BY <1>1, RequestPasses, RequestTells
  <2>2. ~clash
    BY <1>1, <2>1 DEF Passes
  <2>3. CASE pc[r] \in Young
    (* Of the key of an install that is not over no page has spoken.            *)
    <3>0. pc[r] # "render" /\ pc[r] # "secret" /\ pc[r] # "claim write"
      BY <2>3 DEF Young, Uncommitted, Install
    <3>1. closed' = closed
      BY <2>1, <3>0 DEF Tells
    <3>2. \A q \in Reqs : pc'[q] = "render" /\ recorded'[q] =>
              q # r /\ pc[q] = "render" /\ recorded[q] /\ key'[q] = key[q]
      BY <2>1, <3>0 DEF Passes, Tells, Ended
    <3>3. CASE conf' = r
      <4>1. r \notin closed' /\ \A q \in Reqs \ {r} : key[q] # r
        BY <2>2, <2>3, <3>1 DEF OthersKeys
      <4> QED
        BY <3>2, <3>3, <4>1
    <3>4. CASE conf' # r
      <4>1. conf' = conf
        BY <1>1, <2>1, <3>4, InstallAssumption DEF Passes
      <4>2. CASE marker' = "unclaimed" => marker = "unclaimed"
        BY <1>1, <2>2, <3>1, <3>2, <4>1, <4>2 DEF MarkerIsClosed
      <4>3. CASE pc[r] = "mark write"
        BY <1>1, <2>2, <3>4, <4>1, <4>3, InstallAssumption DEF WhoseConf, Written
      <4> QED
        BY <2>1, <4>2, <4>3 DEF Tells
    <3> QED
      BY <3>3, <3>4
  <2>4. CASE pc[r] \notin Young
    <3>1. conf' = conf
      BY <1>1, <2>1, <2>4, InstallAssumption DEF Passes, Young, Uncommitted
    <3>2. marker' = "unclaimed" => marker = "unclaimed"
      BY <2>1, <2>4 DEF Tells, Young, Install
    <3>3. ASSUME conf' \in closed', marker' = "unclaimed" PROVE FALSE
      <4>1. CASE conf \in closed
        BY <1>1, <2>2, <3>1, <3>2, <3>3, <4>1 DEF MarkerIsClosed
      <4>2. CASE conf = key[r] /\ pc[r] = "render" /\ recorded[r]
        BY <1>1, <2>2, <3>1, <3>2, <3>3, <4>2 DEF MarkerIsClosed
      <4> QED
        BY <2>1, <3>1, <3>3, <4>1, <4>2 DEF Tells
    <3>4. ASSUME NEW q \in Reqs, pc'[q] = "render", recorded'[q], key'[q] = conf',
                 marker' = "unclaimed"
          PROVE  FALSE
      <4>1. q # r /\ pc[q] = "render" /\ recorded[q] /\ key[q] = conf
        BY <2>1, <3>1, <3>4 DEF Passes, Tells, Ended
      <4> QED
        BY <1>1, <2>2, <3>1, <3>2, <3>4, <4>1 DEF MarkerIsClosed
    <3> QED
      BY <3>3, <3>4
  <2> QED
    BY <2>3, <2>4
<1>2. ASSUME Elsewhere PROVE MarkerIsClosed'
  <2>1. conf' \in Reqs => conf' = conf
    BY <1>2, InstallAssumption DEF Elsewhere
  <2>2. \A q \in Reqs : pc'[q] = "render" => pc[q] = "render"
    BY <1>2 DEF Elsewhere
  <2> QED
    BY <1>2, <2>1, <2>2 DEF MarkerIsClosed, Elsewhere
<1> QED
  BY <1>1, <1>2, EveryStep DEF MarkerIsClosed

\* A request that passes the marker finds no key that was closed before it began.
LEMMA NotAgainStep ==
    ASSUME NotAgain, MarkerIsClosed, LateIsClosed, OneInstall, OthersKeys, OwnKeys, PcType,
           LocalType, HistType, [Next]_vars
    PROVE  NotAgain'
<1>1. ASSUME NEW r \in Reqs, Begin(r) \/ ReqStep(r), ~clash', NEW q \in Reqs
      PROVE  /\ pc'[q] = "secret" /\ conf' \in Reqs => conf' \notin late'[q]
             /\ key'[q] \in Reqs => key'[q] \notin late'[q]
             /\ shown'[q] \in Reqs => shown'[q] \notin late'[q]
  <2>1. Passes(r) /\ Tells(r)
    BY <1>1, RequestPasses, RequestTells
  <2>2. ~clash
    BY <1>1, <2>1 DEF Passes
  <2>3. CASE q # r
    <3>1. /\ pc'[q] = pc[q] /\ key'[q] = key[q] /\ shown'[q] = shown[q]
          /\ late'[q] = late[q]
      BY <2>1, <2>3 DEF Passes, Tells
    <3>2. ASSUME pc[q] = "secret", conf' \in Reqs PROVE conf' = conf
      <4>1. Committed(q)
        BY <3>2 DEF Committed, Show
      <4>2. pc[r] # "commit"
        BY <2>2, <2>3, <4>1 DEF OneInstall, Installing, Install
      <4> QED
        BY <2>1, <3>2, <4>2, InstallAssumption DEF Passes
    <3> QED
      BY <2>2, <3>1, <3>2 DEF NotAgain
  <2>4. CASE q = r
    <3>1. CASE late'[r] = late[r]
      <4>1. pc'[r] = "secret" /\ conf' \in Reqs => conf' \notin late[r]
        BY <2>1, <2>2 DEF Tells, MarkerIsClosed, LateIsClosed
      <4>2. key'[r] \in Reqs => key'[r] \notin late[r]
        <5>1. CASE key'[r] = key[r]
          BY <2>2, <5>1 DEF NotAgain
        <5>2. CASE pc[r] = "generate" /\ key'[r] = r
          <6>1. r \notin closed
            BY <2>2, <5>2 DEF OthersKeys, Young, Install
          <6> QED
            BY <5>2, <6>1 DEF LateIsClosed
        <5>3. CASE pc[r] = "secret" /\ key'[r] = conf
          BY <2>2, <5>3 DEF NotAgain
        <5> QED
          BY <2>1, <5>1, <5>2, <5>3 DEF Passes
      <4>3. shown'[r] \in Reqs => shown'[r] \notin late[r]
        BY <2>1, <2>2 DEF Passes, NotAgain
      <4> QED
        BY <2>4, <3>1, <4>1, <4>2, <4>3
    <3>2. CASE late'[r] # late[r]
      <4>1. pc[r] = "idle" /\ key'[r] = key[r] /\ shown'[r] = shown[r]
        BY <2>1, <3>2 DEF Tells, Passes
      <4>2. key[r] = NoKey /\ shown[r] = NoKey
        BY <4>1 DEF OwnKeys, OwnKey, Keyless, Uncommitted, Ended
      <4>3. pc'[r] # "secret"
        BY <2>1, <4>1 DEF Tells
      <4> QED
        BY <2>4, <4>1, <4>2, <4>3, InstallAssumption
    <3> QED
      BY <3>1, <3>2
  <2> QED
    BY <2>3, <2>4
<1>2. ASSUME Elsewhere PROVE NotAgain'
  <2>1. conf' \in Reqs => conf' = conf
    BY <1>2, InstallAssumption DEF Elsewhere
  <2>2. \A q \in Reqs : pc'[q] = "secret" => pc[q] = "secret"
    BY <1>2 DEF Elsewhere
  <2> QED
    BY <1>2, <2>1, <2>2 DEF NotAgain, Elsewhere
<1> QED
  BY <1>1, <1>2, EveryStep DEF NotAgain

\* Nobody writes the marker beside an install.
LEMMA FreshStep ==
    ASSUME FreshMarker, OneInstall, OwnKeys, PcType, LocalType, HistType, [Next]_vars
    PROVE  FreshMarker'
<1>1. ASSUME NEW r \in Reqs, Begin(r) \/ ReqStep(r), ~clash', NEW q \in Reqs,
             pc'[q] = "mark write"
      PROVE  marker' = "empty"
  <2>1. Passes(r) /\ Tells(r)
    BY <1>1, RequestPasses, RequestTells
  <2>2. ~clash
    BY <1>1, <2>1 DEF Passes
  <2>3. CASE q # r
    <3>1. pc[q] = "mark write"
      BY <1>1, <2>1, <2>3 DEF Passes
    <3>2. ~Committed(r)
      BY <2>2, <2>3, <3>1 DEF OneInstall, Installing, Install
    <3>3. marker' = marker
      BY <2>1, <3>2 DEF Tells, Committed, Show
    <3> QED
      BY <2>2, <3>1, <3>3 DEF FreshMarker
  <2> QED
    BY <1>1, <2>1, <2>3 DEF Tells
<1>2. ASSUME Elsewhere PROVE FreshMarker'
  <2>1. \A q \in Reqs : pc'[q] = "mark write" => pc[q] = "mark write"
    BY <1>2 DEF Elsewhere
  <2> QED
    BY <1>2, <2>1 DEF FreshMarker, Elsewhere
<1> QED
  BY <1>1, <1>2, EveryStep DEF FreshMarker

\* A key leaves the marker only for somebody's page, or is lost with a killed request.
LEMMA ReachStep ==
    ASSUME Reachable, FreshMarker, WhoseConf, OwnKeys, NotYetWritten, PcType, LocalType,
           HistType, [Next]_vars
    PROVE  Reachable'
<1>1. ASSUME NEW r \in Reqs, Begin(r) \/ ReqStep(r), ~clash',
             conf' \in Reqs \ (lost' \cup leftovers')
      PROVE  \/ Installing(conf)'
             \/ marker' = "unclaimed"
             \/ \E q \in Reqs : shown'[q] = conf'
             \/ \E q \in Reqs : key'[q] = conf' /\ pc'[q] \in {"claim write", "render"}
  <2>1. Passes(r) /\ Leaves(r)
    BY <1>1, RequestPasses, RequestLeaves
  <2>2. ~clash
    BY <1>1, <2>1 DEF Passes
  <2>3. CASE conf' # conf
    <3>1. conf' = r /\ pc'[r] = "verify"
      BY <1>1, <2>1, <2>3, InstallAssumption DEF Passes
    <3> QED
      BY <3>1 DEF Installing, Install
  <2>4. CASE conf' = conf
    <3>0. PICK k \in Reqs : k = conf
      BY <1>1, <2>4
    <3>1. k \notin lost /\ k \notin leftovers
      BY <1>1, <2>1, <2>4, <3>0 DEF Leaves
    <3>2. CASE Installing(k)
      <4>1. CASE k # r
        <5>1. Installing(k)'
          BY <2>1, <3>2, <4>1 DEF Passes, Installing
        <5> QED
          BY <2>4, <3>0, <5>1 DEF Installing
      <4>2. CASE k = r /\ Installing(r)'
        BY <2>4, <3>0, <4>2 DEF Installing
      <4>3. CASE k = r /\ pc[r] = "mark write"
        BY <1>1, <2>1, <2>2, <2>4, <3>0, <3>2, <4>3, InstallAssumption
           DEF Leaves, FreshMarker, Installing
      <4> QED
        BY <1>1, <2>1, <2>4, <3>0, <3>2, <4>1, <4>2, <4>3, InstallAssumption DEF Leaves
    <3>3. CASE marker = "unclaimed" /\ ~Installing(k)
      <4>1. CASE Installing(r)' /\ pc[r] = "mark"
        <5>1. conf \in {NoKey, Hand, r} /\ Installing(r)
          BY <2>2, <4>1 DEF WhoseConf, Written, Installing, Install
        <5> QED
          BY <3>0, <3>3, <5>1, InstallAssumption
      <4>2. CASE pc[r] \in {"claim open", "claim write"} /\ pc'[r] \in {"claim write", "render"}
        <5>1. key[r] = k
          BY <2>2, <3>0, <4>2 DEF WhoseConf, Holding
        <5>2. key'[r] = k
          BY <2>1, <4>2, <5>1 DEF Passes
        <5> QED
          BY <2>4, <3>0, <4>2, <5>2
      <4> QED
        BY <2>1, <3>3, <4>1, <4>2 DEF Leaves
    <3>4. CASE \E q \in Reqs : shown[q] = k
      <4>1. PICK q \in Reqs : shown[q] = k
        BY <3>4
      <4>2. shown'[q] = k
        <5>1. k # NoKey
          BY <3>0, InstallAssumption
        <5> QED
          BY <2>1, <4>1, <5>1 DEF Passes, Leaves
      <4> QED
        BY <2>4, <3>0, <4>2
    <3>5. CASE \E q \in Reqs : key[q] = k /\ pc[q] \in {"claim write", "render"}
      <4>1. PICK q \in Reqs : key[q] = k /\ pc[q] \in {"claim write", "render"}
        BY <3>5
      <4>2. CASE q # r
        BY <2>1, <2>4, <3>0, <4>1, <4>2 DEF Passes
      <4>3. CASE q = r
        <5>1. key'[r] = k
          BY <2>1, <4>1, <4>3 DEF Passes
        <5>2. pc'[r] = "render" \/ shown'[r] = k
          BY <1>1, <2>1, <2>4, <3>0, <4>1, <4>3 DEF Leaves
        <5> QED
          BY <2>4, <3>0, <5>1, <5>2
      <4> QED
        BY <4>2, <4>3
    <3> QED
      BY <2>2, <3>0, <3>1, <3>2, <3>3, <3>4, <3>5 DEF Reachable
  <2> QED
    BY <2>3, <2>4
<1>2. ASSUME Elsewhere PROVE Reachable'
  <2> SUFFICES ASSUME ~clash', conf' \in Reqs \ (lost' \cup leftovers')
               PROVE  \/ Installing(conf)'
                      \/ marker' = "unclaimed"
                      \/ \E q \in Reqs : shown'[q] = conf'
                      \/ \E q \in Reqs : key'[q] = conf' /\ pc'[q] \in {"claim write", "render"}
    BY DEF Reachable
  <2>1. PICK k \in Reqs : k = conf /\ conf' = conf
    BY <1>2, InstallAssumption DEF Elsewhere
  <2>2. ~clash /\ k \notin lost /\ k \notin leftovers
    BY <1>2, <2>1 DEF Elsewhere
  <2>3. CASE Installing(k)
    <3>1. key[k] = k \/ conf # k \/ pc[k] \in {"recheck"}
      BY <2>3 DEF NotYetWritten, Uncommitted, OwnKeys, OwnKey, Owning, Installing, Install
    <3>2. pc[k] \in {"verify", "mark", "mark write", "undo"} /\ key[k] = k
      BY <2>1, <2>3, <3>1 DEF NotYetWritten, Uncommitted, Installing, Install
    <3>3. Installing(k)'
      BY <1>2, <2>1, <2>3, <3>2 DEF Elsewhere, Installing
    <3> QED
      BY <2>1, <3>3 DEF Installing
  <2>4. CASE \E q \in Reqs : key[q] = k /\ pc[q] \in {"claim write", "render"}
    BY <1>2, <2>1, <2>4 DEF Elsewhere
  <2> QED
    BY <1>2, <2>1, <2>2, <2>3, <2>4 DEF Reachable, Elsewhere
<1> QED
  BY <1>1, <1>2, EveryStep DEF Reachable

-----------------------------------------------------------------------------
(* What is in service. *)

(* What a request's step does to the config and the loop in service.          *)
Serves(r) ==
    /\ phase' = phase
    /\ registered' # registered => pc[r] = "await"
    /\ pc[r] = "await" => /\ pc'[r] = "store" /\ registered' = r
                          /\ phase = "up" => loop'[r] = "running"
    /\ pc'[r] = "store" => pc[r] = "await"
    /\ pc'[r] \in Early => pc[r] \in Early
    /\ pc[r] = "store" => pc'[r] = "claim"
    /\ loop' # loop => pc[r] \in {"lock", "await"}
    /\ pc[r] = "lock" => pc'[r] = "await" /\ mine'[r] = mine[r]
    /\ pc'[r] = "await" => pc[r] = "lock"
    /\ \A x \in Loops \ {r} : mine'[x] = mine[x]
    /\ mine'[r] # mine[r] => pc[r] = "parse"
    /\ pc[r] = "store" => installed' /\ live' = mine[r] /\ mine'[r] = mine[r]
    /\ pc[r] # "store" => installed' = installed /\ live' = live

(* And on its way there.                                                     *)
Brings(r) ==
    /\ unloaded \subseteq unloaded'
    /\ \A q \in Reqs \ {r} : kind'[q] = kind[q]
    /\ kind'[r] # kind[r] => pc[r] = "idle"
    /\ loaded' # loaded => pc[r] = "load"
    /\ pc[r] = "mark write" /\ kind[r] = "POST" => pc'[r] \in {"load", "undo"}
    /\ pc[r] = "load" /\ conf # NoKey =>
          r \in unloaded' \/ (pc'[r] = "parse" /\ loaded' = conf)
    /\ pc[r] = "parse" => r \in unloaded' \/ (pc'[r] = "lock" /\ mine'[r] = loaded)

\* Every step of a request is such a step.
LEMMA RequestServes ==
    ASSUME PcType, ServerType, NEW r \in Reqs,
           Begin(r) \/ ReqStep(r)
    PROVE  Serves(r)
<1>1. CASE Begin(r)
  BY <1>1, InstallAssumption
     DEF Serves, PcType, Early, Young, Uncommitted, Install, Begin, At, diskVars, serverVars, sweepVars, localVars,
         histVars, pageVars
<1>2. CASE StatConfig(r)
  BY <1>2, InstallAssumption
     DEF Serves, PcType, Early, Young, Uncommitted, Install, StatConfig, At, diskVars, serverVars, sweepVars, localVars,
         histVars, pageVars
<1>3. CASE ReadMarker(r)
  BY <1>3, InstallAssumption
     DEF Serves, PcType, Early, Young, Uncommitted, Install, ReadMarker, At, diskVars, serverVars, sweepVars, localVars,
         histVars, pageVars
<1>4. CASE ReadSecret(r)
  BY <1>4, InstallAssumption
     DEF Serves, PcType, Early, Young, Uncommitted, Install, ReadSecret, At, diskVars, serverVars, sweepVars, localVars,
         histVars, pageVars
<1>5. CASE Recheck(r)
  BY <1>5, InstallAssumption
     DEF Serves, PcType, Early, Young, Uncommitted, Install, Recheck, At, diskVars, serverVars, sweepVars, localVars,
         histVars, pageVars
<1>6. CASE Preflight(r)
  <2>1. /\ pc[r] \in {"probe config", "probed config", "probe var", "probed var"}
        /\ \E next \in {"probed config", "probe var", "probed var", "generate", "failed"} :
              pc' = [pc EXCEPT ![r] = next]
    BY <1>6 DEF Preflight, Probe, Unprobe, At
  <2>2. UNCHANGED <<conf, marker, serverVars, sweepVars, kind, key, recorded, mine, histVars>>
    BY <1>6 DEF Preflight, Probe, Unprobe, localVars
  <2> QED
    BY <2>1, <2>2 DEF Serves, PcType, Early, Young, Uncommitted, Install, serverVars, sweepVars, histVars, pageVars
<1>7. CASE Generate(r)
  <2>1. /\ pc[r] = "generate"
        /\ \E next \in {"commit", "failed"} : pc' = [pc EXCEPT ![r] = next]
    BY <1>7 DEF Generate, At
  <2>2. UNCHANGED <<serverVars, sweepVars, mine>>
    BY <1>7 DEF Generate
  <2> QED
    BY <2>1, <2>2 DEF Serves, PcType, Early, Young, Uncommitted, Install, serverVars, sweepVars
<1>8. CASE Commit(r)
  BY <1>8, InstallAssumption
     DEF Serves, PcType, Early, Young, Uncommitted, Install, Commit, At, diskVars, serverVars, sweepVars, localVars,
         histVars, pageVars
<1>9. CASE Verify(r)
  BY <1>9, InstallAssumption
     DEF Serves, PcType, Early, Young, Uncommitted, Install, Verify, At, diskVars, serverVars, sweepVars, localVars,
         histVars, pageVars
<1>10. CASE Mark(r)
  BY <1>10, InstallAssumption
     DEF Serves, PcType, Early, Young, Uncommitted, Install, Mark, At, diskVars, serverVars, sweepVars, localVars, histVars,
         pageVars
<1>11. CASE MarkWrite(r)
  BY <1>11, InstallAssumption
     DEF Serves, PcType, Early, Young, Uncommitted, Install, MarkWrite, At, diskVars, serverVars, sweepVars, localVars,
         histVars, pageVars
<1>12. CASE Undo(r)
  BY <1>12, InstallAssumption
     DEF Serves, PcType, Early, Young, Uncommitted, Install, Undo, At, diskVars, serverVars, sweepVars, localVars, histVars,
         pageVars
<1>13. CASE Load(r)
  BY <1>13, InstallAssumption
     DEF Serves, PcType, Early, Young, Uncommitted, Install, Load, Read, At, diskVars, serverVars, sweepVars, localVars,
         histVars, pageVars
<1>14. CASE Parse(r)
  BY <1>14, InstallAssumption
     DEF Serves, PcType, Early, Young, Uncommitted, Install, ServerType, Loops, Parse, At, diskVars, serverVars, sweepVars,
         localVars, histVars, pageVars
<1>15. CASE RestartLock(r)
  BY <1>15, InstallAssumption
     DEF Serves, PcType, Early, Young, Uncommitted, Install, RestartLock, Cancel, At, diskVars, serverVars, sweepVars,
         localVars, histVars, pageVars
<1>16. CASE Restart(r)
  BY <1>16, InstallAssumption
     DEF Serves, PcType, Early, Young, Uncommitted, Install, ServerType, Loops, Restart, Stopped, At, diskVars, serverVars,
         sweepVars, localVars, histVars, pageVars
<1>17. CASE Store(r)
  BY <1>17, InstallAssumption
     DEF Serves, PcType, Early, Young, Uncommitted, Install, Store, At, diskVars, serverVars, sweepVars, localVars,
         histVars, pageVars
<1>18. CASE Claim(r)
  BY <1>18, InstallAssumption
     DEF Serves, PcType, Early, Young, Uncommitted, Install, Claim, At, diskVars, serverVars, sweepVars, localVars,
         histVars, pageVars
<1>19. CASE ClaimOpen(r)
  BY <1>19, InstallAssumption
     DEF Serves, PcType, Early, Young, Uncommitted, Install, ClaimOpen, At, diskVars, serverVars, sweepVars, localVars,
         histVars, pageVars
<1>20. CASE ClaimWrite(r)
  BY <1>20, InstallAssumption
     DEF Serves, PcType, Early, Young, Uncommitted, Install, ClaimWrite, At, diskVars, serverVars, sweepVars, localVars,
         histVars, pageVars
<1>21. CASE Render(r)
  BY <1>21, InstallAssumption
     DEF Serves, PcType, Early, Young, Uncommitted, Install, Render, At, diskVars, serverVars, sweepVars, localVars,
         histVars, pageVars
<1> QED
  BY <1>1, <1>2, <1>3, <1>4, <1>5, <1>6, <1>7, <1>8, <1>9, <1>10, <1>11, <1>12, <1>13,
     <1>14, <1>15, <1>16, <1>17, <1>18, <1>19, <1>20, <1>21
     DEF ReqStep, InstallStep, ActivateStep, ShowStep

\* And such a step.
LEMMA RequestBrings ==
    ASSUME PcType, LocalType, ServerType, NEW r \in Reqs,
           Begin(r) \/ ReqStep(r)
    PROVE  Brings(r)
<1>1. CASE Begin(r)
  BY <1>1, InstallAssumption
     DEF Brings, PcType, LocalType, Begin, At, diskVars, serverVars, sweepVars,
         localVars, histVars, pageVars
<1>2. CASE StatConfig(r)
  BY <1>2, InstallAssumption
     DEF Brings, PcType, StatConfig, At, diskVars, serverVars, sweepVars, localVars,
         histVars, pageVars
<1>3. CASE ReadMarker(r)
  BY <1>3, InstallAssumption
     DEF Brings, PcType, ReadMarker, At, diskVars, serverVars, sweepVars, localVars,
         histVars, pageVars
<1>4. CASE ReadSecret(r)
  BY <1>4, InstallAssumption
     DEF Brings, PcType, ReadSecret, At, diskVars, serverVars, sweepVars, localVars,
         histVars, pageVars
<1>5. CASE Recheck(r)
  BY <1>5, InstallAssumption
     DEF Brings, PcType, Recheck, At, diskVars, serverVars, sweepVars, localVars,
         histVars, pageVars
<1>6. CASE Preflight(r)
  <2>1. /\ pc[r] \in {"probe config", "probed config", "probe var", "probed var"}
        /\ \E next \in {"probed config", "probe var", "probed var", "generate", "failed"} :
              pc' = [pc EXCEPT ![r] = next]
    BY <1>6 DEF Preflight, Probe, Unprobe, At
  <2>2. UNCHANGED <<conf, marker, serverVars, sweepVars, kind, key, recorded, mine, histVars>>
    BY <1>6 DEF Preflight, Probe, Unprobe, localVars
  <2> QED
    BY <2>1, <2>2 DEF Brings, PcType, serverVars, sweepVars, histVars, pageVars
<1>7. CASE Generate(r)
  <2>1. /\ pc[r] = "generate"
        /\ \E next \in {"commit", "failed"} : pc' = [pc EXCEPT ![r] = next]
    BY <1>7 DEF Generate, At
  <2>2. UNCHANGED <<serverVars, kind, histVars>>
    BY <1>7 DEF Generate
  <2> QED
    BY <2>1, <2>2 DEF Brings, PcType, serverVars, histVars
<1>8. CASE Commit(r)
  BY <1>8, InstallAssumption
     DEF Brings, PcType, Commit, At, diskVars, serverVars, sweepVars, localVars,
         histVars, pageVars
<1>9. CASE Verify(r)
  BY <1>9, InstallAssumption
     DEF Brings, PcType, Verify, At, diskVars, serverVars, sweepVars, localVars,
         histVars, pageVars
<1>10. CASE Mark(r)
  BY <1>10, InstallAssumption
     DEF Brings, PcType, Mark, At, diskVars, serverVars, sweepVars, localVars, histVars,
         pageVars
<1>11. CASE MarkWrite(r)
  BY <1>11, InstallAssumption
     DEF Brings, PcType, Web, MarkWrite, At, diskVars, serverVars, sweepVars, localVars,
         histVars, pageVars
<1>12. CASE Undo(r)
  BY <1>12, InstallAssumption
     DEF Brings, PcType, Undo, At, diskVars, serverVars, sweepVars, localVars, histVars,
         pageVars
<1>13. CASE Load(r)
  BY <1>13, InstallAssumption
     DEF Brings, PcType, HistType, Load, Read, At, diskVars, serverVars, sweepVars,
         localVars, histVars, pageVars
<1>14. CASE Parse(r)
  BY <1>14, InstallAssumption
     DEF Brings, PcType, ServerType, Loops, Parse, At, diskVars, serverVars, sweepVars,
         localVars, histVars, pageVars
<1>15. CASE RestartLock(r)
  BY <1>15, InstallAssumption
     DEF Brings, PcType, RestartLock, Cancel, At, diskVars, serverVars, sweepVars,
         localVars, histVars, pageVars
<1>16. CASE Restart(r)
  BY <1>16, InstallAssumption
     DEF Brings, PcType, Restart, Stopped, At, diskVars, serverVars, sweepVars,
         localVars, histVars, pageVars
<1>17. CASE Store(r)
  BY <1>17, InstallAssumption
     DEF Brings, PcType, Store, At, diskVars, serverVars, sweepVars, localVars,
         histVars, pageVars
<1>18. CASE Claim(r)
  BY <1>18, InstallAssumption
     DEF Brings, PcType, Claim, At, diskVars, serverVars, sweepVars, localVars,
         histVars, pageVars
<1>19. CASE ClaimOpen(r)
  BY <1>19, InstallAssumption
     DEF Brings, PcType, ClaimOpen, At, diskVars, serverVars, sweepVars, localVars,
         histVars, pageVars
<1>20. CASE ClaimWrite(r)
  <2>1. /\ pc[r] = "claim write" /\ pc' = [pc EXCEPT ![r] = "render"]
        /\ UNCHANGED <<serverVars, kind, histVars>>
    BY <1>20 DEF ClaimWrite, At
  <2> QED
    BY <2>1 DEF Brings, PcType, serverVars, histVars
<1>21. CASE Render(r)
  BY <1>21, InstallAssumption
     DEF Brings, PcType, Render, At, diskVars, serverVars, sweepVars, localVars,
         histVars, pageVars
<1> QED
  BY <1>1, <1>2, <1>3, <1>4, <1>5, <1>6, <1>7, <1>8, <1>9, <1>10, <1>11, <1>12, <1>13,
     <1>14, <1>15, <1>16, <1>17, <1>18, <1>19, <1>20, <1>21
     DEF ReqStep, InstallStep, ActivateStep, ShowStep

(* What any other step does: the server comes up, goes down, or goes on.      *)
Goes ==
    /\ UNCHANGED <<phase, pc, registered, installed, mine, live, loaded, unloaded>>
    /\ \A x \in Loops : loop'[x] = loop[x] \/ loop[x] = "ending"

\* There are no other steps.
LEMMA EveryStepServes ==
    ASSUME ServerType, [Next]_vars
    PROVE  (\E r \in Reqs : Begin(r) \/ ReqStep(r)) \/ Start \/ phase' # "up" \/ Goes
<1>1. ASSUME Signal \/ Drain \/ StopLock \/ StopReturns PROVE phase' # "up"
  BY <1>1 DEF Signal, Drain, StopLock, StopReturns
<1>2. ASSUME Exit \/ Crash PROVE phase' # "up"
  BY <1>2 DEF Exit, Crash, Gone
<1>3. ASSUME NEW x \in Loops, LoopEnds(x) PROVE Goes
  BY <1>3 DEF Goes, LoopEnds, ServerType, serverVars, localVars, histVars
<1>4. ASSUME HandWrite \/ HandDelete PROVE Goes
  BY <1>4 DEF Goes, HandWrite, HandDelete, Edit, serverVars, sweepVars, localVars
<1>5. ASSUME UNCHANGED vars PROVE Goes
  BY <1>5 DEF Goes, vars, serverVars, sweepVars, localVars, histVars
<1> QED
  BY <1>1, <1>2, <1>3, <1>4, <1>5 DEF Next, ShutdownStep

\* A request whose loop is registered has waited for the loop before.
LEMMA LastStep ==
    ASSUME LoopComesLast, PcType, LocalType, HistType, ServerType, [Next]_vars
    PROVE  LoopComesLast'
<1>1. ASSUME NEW r \in Reqs, Begin(r) \/ ReqStep(r) PROVE LoopComesLast'
  <2>1. Passes(r) /\ Serves(r)
    BY <1>1, RequestPasses, RequestServes
  <2>2. CASE pc[r] = "await"
    BY <2>1, <2>2 DEF Serves, LoopComesLast, Early, Young, Uncommitted, Install
  <2>3. CASE pc[r] # "await"
    BY <2>1, <2>3 DEF Passes, Serves, LoopComesLast
  <2> QED
    BY <2>2, <2>3
<1>2. ASSUME Elsewhere PROVE LoopComesLast'
  BY <1>2, InstallAssumption
     DEF Elsewhere, LoopComesLast, Early, Young, Uncommitted, Install
<1> QED
  BY <1>1, <1>2, EveryStep

\* A server that is down runs no handler.
LEMMA DownServesNobody ==
    ASSUME DrainedIsServed, OnlyWebActivates, phase = "down"
    PROVE  \A r \in Reqs : pc[r] \notin Activate
  BY DEF DrainedIsServed, OnlyWebActivates, Served, Activate, Ended

\* Store puts in service the config that the registered loop was started with.
LEMMA LoopRunsStep ==
    ASSUME LoopRuns, LoopComesLast, OneInstall, OnlyWebActivates, DrainedIsServed, DownIsDown,
           PcType, LocalType, HistType, ServerType, [Next]_vars
    PROVE  LoopRuns'
<1>1. ASSUME NEW r \in Reqs, Begin(r) \/ ReqStep(r), ~clash', phase' = "up"
      PROVE  /\ \A q \in Reqs : pc'[q] = "store" => registered' = q /\ loop'[q] = "running"
             /\ installed' /\ (\A q \in Reqs : pc'[q] \notin {"await", "store"}) =>
                   /\ registered' \in Loops
                   /\ loop'[registered'] = "running"
                   /\ mine'[registered'] = live'
  <2>1. Passes(r) /\ Serves(r)
    BY <1>1, RequestPasses, RequestServes
  <2>2. ~clash /\ phase = "up"
    BY <1>1, <2>1 DEF Passes, Serves
  <2>3. ASSUME NEW q \in Reqs, pc'[q] = "store"
        PROVE  registered' = q /\ loop'[q] = "running"
    <3>1. CASE q = r
      BY <2>1, <2>2, <2>3, <3>1 DEF Serves
    <3>2. CASE q # r
      <4>1. pc[q] = "store"
        BY <2>1, <2>3, <3>2 DEF Passes
      <4>2. pc[r] \notin Activate
        BY <2>2, <3>2, <4>1 DEF OneInstall, Activate
      <4>3. registered' = registered /\ loop' = loop
        BY <2>1, <4>2 DEF Serves, Activate
      <4> QED
        BY <2>2, <4>1, <4>3 DEF LoopRuns
    <3> QED
      BY <3>1, <3>2
  <2>4. ASSUME installed', \A q \in Reqs : pc'[q] \notin {"await", "store"}
        PROVE  /\ registered' \in Loops
               /\ loop'[registered'] = "running"
               /\ mine'[registered'] = live'
    <3>1. \A q \in Reqs \ {r} : pc[q] \notin {"await", "store"}
      BY <2>1, <2>4 DEF Passes
    <3>2. pc[r] # "lock" /\ pc[r] # "await"
      BY <2>1, <2>4 DEF Serves
    <3>3. registered' = registered /\ loop' = loop
      BY <2>1, <3>2 DEF Serves
    <3>4. CASE pc[r] = "store"
      <4>1. registered = r /\ loop[r] = "running"
        BY <2>2, <3>4 DEF LoopRuns
      <4>2. live' = mine[r] /\ mine'[r] = mine[r]
        BY <2>1, <3>4 DEF Serves
      <4> QED
        BY <3>3, <4>1, <4>2 DEF Loops
    <3>5. CASE pc[r] # "store"
      <4>1. installed /\ live' = live
        BY <2>1, <2>4, <3>5 DEF Serves
      <4>2. /\ registered \in Loops
            /\ loop[registered] = "running"
            /\ mine[registered] = live
        BY <2>2, <3>1, <3>2, <3>5, <4>1 DEF LoopRuns
      <4>3. registered = r => mine'[r] = mine[r]
        BY <2>1 DEF Serves, LoopComesLast, Early
      <4> QED
        BY <2>1, <3>3, <4>1, <4>2, <4>3 DEF Serves
    <3> QED
      BY <3>4, <3>5
  <2> QED
    BY <2>3, <2>4
<1>2. ASSUME Start PROVE LoopRuns'
  <2>1. pc' = pc /\ \A q \in Reqs : pc[q] # "store"
    BY <1>2, DownServesNobody DEF Start, Activate
  <2>2. CASE Installed(conf)
    BY <1>2, <2>1, <2>2 DEF Start, LoopRuns, ServerType, Loops
  <2>3. CASE ~Installed(conf)
    BY <1>2, <2>1, <2>3 DEF Start, LoopRuns
  <2> QED
    BY <2>2, <2>3
<1>3. ASSUME phase' # "up" PROVE LoopRuns'
  BY <1>3 DEF LoopRuns
<1>4. ASSUME Goes, Elsewhere PROVE LoopRuns'
  <2>1. \A x \in Loops : loop[x] = "running" => loop'[x] = "running"
    BY <1>4 DEF Goes
  <2> QED
    BY <1>4, <2>1 DEF LoopRuns, Goes, Elsewhere, Loops
<1> QED
  BY <1>1, <1>2, <1>3, <1>4, EveryStep, EveryStepServes DEF LoopRuns

\* Nobody else is on the way into service while a generated config is in place.
LEMMA ActivatedStep ==
    ASSUME Activated, WhoseConf, OwnKeys, NotYetWritten, OnlyWebActivates, DrainedIsServed,
           PcType, LocalType, HistType, ServerType, [Next]_vars
    PROVE  Activated'
<1>1. ASSUME NEW r \in Reqs, Begin(r) \/ ReqStep(r), ~clash', phase' = "up",
             NEW k \in Reqs, k = conf', k \notin unloaded', k \notin leftovers', kind'[k] = "POST"
      PROVE  \/ Installing(k)'
             \/ pc'[k] = "load"
             \/ pc'[k] = "parse" /\ loaded' = k
             \/ pc'[k] \in {"lock", "await", "store"} /\ mine'[k] = k
             \/ pc'[k] \notin Activate /\ installed' /\ live' = k
  <2>1. Passes(r) /\ Leaves(r) /\ Serves(r) /\ Brings(r)
    BY <1>1, RequestPasses, RequestLeaves, RequestServes, RequestBrings
  <2>2. ~clash /\ phase = "up"
    BY <1>1, <2>1 DEF Passes, Serves
  <2>3. CASE conf' # conf
    BY <1>1, <2>1, <2>3, InstallAssumption DEF Passes, Installing, Install
  <2>4. CASE conf' = conf
    <3>1. k = conf /\ k # NoKey /\ k \notin unloaded /\ k \notin leftovers
      BY <1>1, <2>1, <2>4, InstallAssumption DEF Leaves, Brings
    <3>2. pc[k] # "idle"
      BY <3>1 DEF NotYetWritten, Uncommitted
    <3>3. kind[k] = "POST"
      BY <1>1, <2>1, <3>2 DEF Brings
    <3>4. \/ Installing(k)
          \/ pc[k] = "load"
          \/ pc[k] = "parse" /\ loaded = k
          \/ pc[k] \in {"lock", "await", "store"} /\ mine[k] = k
          \/ pc[k] \notin Activate /\ installed /\ live = k
      BY <1>1, <2>2, <3>1, <3>3 DEF Activated
    <3>5. CASE r # k
      <4>1. pc[r] \notin Activate
        BY <2>2, <3>1, <3>5 DEF WhoseConf, Holding, OwnKeys, OwnKey, Owning
      <4>2. installed' = installed /\ live' = live /\ loaded' = loaded /\ mine'[k] = mine[k]
        BY <2>1, <3>5, <4>1 DEF Serves, Brings, Activate, Loops
      <4>3. pc'[k] = pc[k] /\ (Installing(k) => Installing(k)')
        BY <2>1, <3>5 DEF Passes, Installing
      <4> QED
        BY <3>4, <4>2, <4>3
    <3>6. CASE r = k
      <4>1. CASE Installing(k)
        <5>1. Installing(k)' \/ pc[k] = "mark write"
          BY <1>1, <2>1, <2>4, <3>1, <3>6, <4>1 DEF Leaves
        <5>2. pc[k] = "mark write" => pc'[k] \in {"load", "undo"}
          BY <2>1, <3>3, <3>6 DEF Brings
        <5> QED
          BY <5>1, <5>2 DEF Installing, Install
      <4>2. CASE pc[k] = "load"
        BY <1>1, <2>1, <3>1, <3>6, <4>2 DEF Brings
      <4>3. CASE pc[k] = "parse" /\ loaded = k
        BY <1>1, <2>1, <3>6, <4>3 DEF Brings
      <4>4. CASE pc[k] \in {"lock", "await"} /\ mine[k] = k
        BY <2>1, <3>6, <4>4 DEF Serves
      <4>5. CASE pc[k] = "store" /\ mine[k] = k
        <5>1. pc'[k] \notin Activate
          BY <2>1, <3>6, <4>5 DEF Serves, Activate
        <5> QED
          BY <2>1, <3>6, <4>5, <5>1 DEF Serves
      <4>6. CASE pc[k] \notin Activate /\ installed /\ live = k /\ ~Installing(k)
        <5>1. pc'[k] \notin Activate
          BY <2>1, <3>6, <4>6 DEF Passes, Installing, Install
        <5> QED
          BY <2>1, <3>6, <4>6, <5>1 DEF Serves, Activate
      <4> QED
        BY <3>4, <4>1, <4>2, <4>3, <4>4, <4>5, <4>6
    <3> QED
      BY <3>5, <3>6
  <2> QED
    BY <2>3, <2>4
<1>2. ASSUME Elsewhere PROVE conf' \in Reqs => conf' = conf
  BY <1>2, InstallAssumption DEF Elsewhere
<1>3. ASSUME Start PROVE Activated'
  <2>1. UNCHANGED <<conf, pc>> /\ live' = conf /\ installed' = Installed(conf)
    BY <1>3 DEF Start, diskVars
  <2>2. \A r \in Reqs : pc[r] \notin Activate
    BY <1>3, DownServesNobody DEF Start
  <2>3. conf \in Reqs => Installed(conf)
    BY InstallAssumption DEF Installed
  <2> QED
    BY <2>1, <2>2, <2>3 DEF Activated
<1>4. ASSUME phase' # "up" PROVE Activated'
  BY <1>4 DEF Activated
<1>5. ASSUME Goes, Elsewhere PROVE Activated'
  <2> SUFFICES ASSUME ~clash', phase' = "up", conf' \in Reqs \ (unloaded' \cup leftovers'),
                      kind'[conf'] = "POST"
               PROVE  Activated'
    BY DEF Activated
  <2>1. conf' = conf
    BY <1>2, <1>5
  <2> QED
    BY <1>5, <2>1 DEF Activated, Goes, Elsewhere, Installing
<1> QED
  BY <1>1, <1>3, <1>4, <1>5, EveryStep, EveryStepServes DEF Activated

-----------------------------------------------------------------------------
\* The initial states satisfy the invariant.
LEMMA KeyInvInit == Init => KeyInv
<1> SUFFICES ASSUME Init PROVE KeyInv
  OBVIOUS
<1>1. HandIsApart
  BY InstallAssumption
     DEF Init, HandIsApart, Written, Activate, Show
<1>2. OwnKeys /\ LateIsClosed
  BY DEF Init, OwnKeys, OwnKey, LateIsClosed, Owning, Activate
<1>3. OneInstall /\ WhoseConf /\ FreshMarker
  BY DEF Init, OneInstall, WhoseConf, FreshMarker, Installing, Install, Holding, Activate
<1>4. OthersKeys /\ MarkerIsClosed /\ NotAgain
  BY InstallAssumption DEF Init, OthersKeys, MarkerIsClosed, NotAgain
<1>5. Reachable /\ LoopComesLast /\ LoopRuns /\ Activated
  BY InstallAssumption DEF Init, Reachable, LoopComesLast, LoopRuns, Activated
<1> QED
  BY <1>1, <1>2, <1>3, <1>4, <1>5 DEF KeyInv

\* Every step preserves it.
LEMMA KeyInvStep == Inv /\ KeyInv /\ [Next]_vars => KeyInv'
<1> SUFFICES ASSUME Inv, KeyInv, [Next]_vars PROVE KeyInv'
  OBVIOUS
<1>1. PcType /\ LocalType /\ HistType /\ ServerType
  BY TypeParts DEF Inv
<1>2. HandIsApart' /\ OwnKeys' /\ LateIsClosed'
  BY <1>1, HandStep, OwnKeyStep, LateStep DEF KeyInv
<1>3. OneInstall' /\ WhoseConf' /\ OthersKeys'
  BY <1>1, OneInstallStep, WhoseConfStep, OthersKeyStep DEF KeyInv, Inv
<1>4. MarkerIsClosed' /\ NotAgain' /\ FreshMarker' /\ Reachable'
  BY <1>1, MarkerStep, NotAgainStep, FreshStep, ReachStep DEF KeyInv, Inv
<1>5. LoopComesLast' /\ LoopRuns' /\ Activated'
  BY <1>1, LastStep, LoopRunsStep, ActivatedStep DEF KeyInv, Inv
<1> QED
  BY <1>2, <1>3, <1>4, <1>5 DEF KeyInv

\* So it always holds.
LEMMA KeyInvariant == Spec => []KeyInv
  BY KeyInvInit, KeyInvStep, Invariant, PTL DEF Spec

(* Once a page has shown a key and said that this is recorded, no later        *)
(* request is shown it, through whatever crashes, failures and edits, unless  *)
(* an install ran beside another or beside a disclosure.                     *)
THEOREM OnceClosedNotShown == Spec => []NotShownAgain
<1>1. HistType /\ KeyInv => NotShownAgain
  <2> SUFFICES ASSUME HistType, KeyInv, ~clash, NEW r \in Reqs, shown[r] \in late[r] \ {Hand}
               PROVE  FALSE
    BY DEF NotShownAgain
  <2>1. shown[r] \in Reqs
    BY DEF HistType, Keys
  <2> QED
    BY <2>1 DEF KeyInv, NotAgain
<1>2. Inv => HistType
  BY TypeParts DEF Inv
<1> QED
  BY <1>1, <1>2, Invariant, KeyInvariant, PTL

(* When all is quiet nobody is left without the key of a generated config:     *)
(* a page has shown it, or the marker will show it to the next visitor.      *)
THEOREM NoKeyIsHidden == Spec => []NoHiddenKey
<1>1. KeyInv => NoHiddenKey
  BY DEF KeyInv, Reachable, NoHiddenKey, Quiet, Installing, Install, Ended
<1> QED
  BY <1>1, KeyInvariant, PTL

(* A config written by hand is never read back over HTTP, unless the operator  *)
(* put it beside an unclaimed marker or in the middle of an install.         *)
THEOREM HandIsSafe == Spec => []HandIsNeverShown
<1>1. KeyInv => HandIsNeverShown
  BY DEF KeyInv, HandIsApart, HandIsNeverShown
<1> QED
  BY <1>1, KeyInvariant, PTL

(* When all is quiet in a server that is up, the config that a POST wrote is    *)
(* in service, unless an install clashed with it, its reload has failed since *)
(* the server started, or its install failed and could not remove it; and    *)
(* the sweep loop runs over the config in service.                           *)
THEOREM WhatIsInService == Spec => []InService
<1>1. KeyInv => InService
  <2> SUFFICES ASSUME KeyInv, Quiet, ~clash, phase = "up"
               PROVE  /\ conf \in Reqs \ (unloaded \cup leftovers) /\ kind[conf] = "POST"
                            => installed /\ live = conf
                      /\ installed => /\ registered \in Loops
                                      /\ loop[registered] = "running"
                                      /\ mine[registered] = live
    BY DEF InService
  <2>1. \A r \in Reqs : ~Installing(r) /\ pc[r] \notin Activate
    BY DEF Quiet, Installing, Install, Activate, Ended
  <2> QED
    BY <2>1 DEF KeyInv, LoopRuns, Activated, Activate
<1> QED
  BY <1>1, KeyInvariant, PTL
=============================================================================
