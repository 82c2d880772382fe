--------------------------- MODULE InstallProofs ---------------------------
(* What holds of Install for any number of requests, faults, restarts and    *)
(* edits.  The assumptions on the constants are those of the module.         *)
EXTENDS Install, TLAPS

-----------------------------------------------------------------------------
(* The inductive invariant. *)

\* An init process never brings a config into service.
OnlyWebActivates == \A r \in Reqs : pc[r] \in Activate => Web(r)

\* States in which a request has a secret to lose.
HasKey == {"commit", "verify", "mark", "mark write", "undo",
           "load", "parse", "lock", "await", "store",
           "claim", "claim open", "claim write", "render"}

KeyInHand == \A r \in Reqs : pc[r] \in HasKey => key[r] \in Keys

\* A loop that is alive is the one that stopLocked would wait for.
AliveIsRegistered == \A x \in Loops : loop[x] # "none" => x = registered

DownIsDown == phase = "down" => registered = Nobody

\* Unless it gave up, the shutdown has left no handler that could start a loop.
DrainedIsServed ==
    phase = "down" \/ (~timedOut /\ phase \in {"stopping", "leaving", "exiting"}) => Served

ExitingIsSwept == ~timedOut /\ phase = "exiting" => \A x \in Loops : loop[x] = "none"

\* Nobody has written r's config before r does.
Uncommitted == {"idle", "stat", "recheck", "probe config", "probed config", "probe var",
                "probed var", "generate", "commit"}

NotYetWritten == \A r \in Reqs : pc[r] \in Uncommitted => conf # r

Inv ==
    /\ TypeOK
    /\ OnlyWebActivates
    /\ KeyInHand
    /\ AliveIsRegistered
    /\ DownIsDown
    /\ DrainedIsServed
    /\ ExitingIsSwept
    /\ SweepsFinish
    /\ NotYetWritten
    /\ RefusedLeavesNothing

-----------------------------------------------------------------------------
(* TypeOK in parts. *)
PcType == pc \in [Reqs -> ReqState]

MutexType ==
    /\ holder \in Reqs \cup {Main, Nobody}
    /\ \A r \in Reqs : holder = r <=> pc[r] = "await"
    /\ holder = Main <=> phase = "leaving"

DiskType ==
    /\ conf \in Keys \cup {NoKey}
    /\ marker \in MarkerState
    /\ probes \in SUBSET Dirs

ServerType ==
    /\ phase \in {"down", "up", "draining", "stopping", "leaving", "exiting"}
    /\ installed \in BOOLEAN
    /\ live \in Keys \cup {NoKey}
    /\ loaded \in Keys \cup {NoKey}
    /\ registered \in Loops \cup {Nobody}
    /\ loop \in [Loops -> {"none", "running", "ending"}]
    /\ mine \in [Loops -> Keys \cup {NoKey}]

LocalType ==
    /\ kind \in [Reqs -> {"none", "GET", "HEAD", "POST", "init"}]
    /\ key \in [Reqs -> Keys \cup {NoKey}]
    /\ refused \in [Reqs -> BOOLEAN]
    /\ recorded \in [Reqs -> BOOLEAN]

HistType ==
    /\ shown \in [Reqs -> Keys \cup {NoKey}]
    /\ closed \in SUBSET Keys
    /\ late \in [Reqs -> SUBSET Keys]
    /\ lost \in SUBSET Keys
    /\ leftovers \in SUBSET Reqs /\ unloaded \in SUBSET Reqs
    /\ clash \in BOOLEAN /\ handOpen \in BOOLEAN
    /\ timedOut \in BOOLEAN /\ abandoned \in BOOLEAN

BoundType == faults \in Nat /\ boots \in Nat /\ edits \in Nat

\* TypeOK is its parts.
LEMMA TypeParts ==
    TypeOK <=> /\ PcType /\ MutexType /\ DiskType /\ ServerType
               /\ LocalType /\ BoundType /\ HistType
  BY DEF TypeOK, PcType, MutexType, DiskType, ServerType, LocalType, BoundType, HistType

\* The names that At assigns are states.
LEMMA StateNames ==
    {"idle", "stat", "marker", "recheck", "probe config", "probed config", "probe var",
     "probed var", "generate", "commit", "verify", "mark", "mark write", "undo",
     "load", "parse", "lock", "await", "store", "secret", "claim", "claim open",
     "claim write", "render", "done", "failed", "killed"} \subseteq ReqState
  BY DEF ReqState, Install, Activate, Show, Ended

\* Every step leaves every request in a state it has.
LEMMA PcStep ==
    ASSUME PcType, [Next]_vars
    PROVE  PcType'
<1>1. ASSUME NEW r \in Reqs, Begin(r) PROVE PcType'
  BY StateNames, <1>1 DEF PcType, Begin, At
<1>2. ASSUME NEW r \in Reqs, StatConfig(r) PROVE PcType'
  BY StateNames, <1>2 DEF PcType, StatConfig, At
<1>3. ASSUME NEW r \in Reqs, ReadMarker(r) PROVE PcType'
  BY StateNames, <1>3 DEF PcType, ReadMarker, At
<1>4. ASSUME NEW r \in Reqs, ReadSecret(r) PROVE PcType'
  BY StateNames, <1>4 DEF PcType, ReadSecret, At
<1>5. ASSUME NEW r \in Reqs, Recheck(r) PROVE PcType'
  BY StateNames, <1>5 DEF PcType, Recheck, At
<1>6. ASSUME NEW r \in Reqs, Preflight(r) PROVE PcType'
  BY StateNames, <1>6 DEF PcType, Preflight, Probe, Unprobe, At
<1>7. ASSUME NEW r \in Reqs, Generate(r) PROVE PcType'
  BY StateNames, <1>7 DEF PcType, Generate, At
<1>8. ASSUME NEW r \in Reqs, Commit(r) PROVE PcType'
  BY StateNames, <1>8 DEF PcType, Commit, At
<1>9. ASSUME NEW r \in Reqs, Verify(r) PROVE PcType'
  BY StateNames, <1>9 DEF PcType, Verify, At
<1>10. ASSUME NEW r \in Reqs, Mark(r) PROVE PcType'
  BY StateNames, <1>10 DEF PcType, Mark, At
<1>11. ASSUME NEW r \in Reqs, MarkWrite(r) PROVE PcType'
  BY StateNames, <1>11 DEF PcType, MarkWrite, At
<1>12. ASSUME NEW r \in Reqs, Undo(r) PROVE PcType'
  BY StateNames, <1>12 DEF PcType, Undo, At
<1>13. ASSUME NEW r \in Reqs, Load(r) PROVE PcType'
  BY StateNames, <1>13 DEF PcType, Load, Read, At
<1>14. ASSUME NEW r \in Reqs, Parse(r) PROVE PcType'
  BY StateNames, <1>14 DEF PcType, Parse, At
<1>15. ASSUME NEW r \in Reqs, RestartLock(r) PROVE PcType'
  BY StateNames, <1>15 DEF PcType, RestartLock, Cancel, At
<1>16. ASSUME NEW r \in Reqs, Restart(r) PROVE PcType'
  BY StateNames, <1>16 DEF PcType, Restart, Stopped, At
<1>17. ASSUME NEW r \in Reqs, Store(r) PROVE PcType'
  BY StateNames, <1>17 DEF PcType, Store, At
<1>18. ASSUME NEW r \in Reqs, Claim(r) PROVE PcType'
  BY StateNames, <1>18 DEF PcType, Claim, At
<1>19. ASSUME NEW r \in Reqs, ClaimOpen(r) PROVE PcType'
  BY StateNames, <1>19 DEF PcType, ClaimOpen, At
<1>20. ASSUME NEW r \in Reqs, ClaimWrite(r) PROVE PcType'
  BY StateNames, <1>20 DEF PcType, ClaimWrite, At
<1>21. ASSUME NEW r \in Reqs, Render(r) PROVE PcType'
  BY StateNames, <1>21 DEF PcType, Render, At
<1>22. ASSUME NEW x \in Loops, LoopEnds(x) PROVE PcType'
  BY StateNames, <1>22 DEF PcType, LoopEnds
<1>23. ASSUME Start PROVE PcType'
  BY StateNames, <1>23 DEF PcType, Start, Installed
<1>24. ASSUME Signal PROVE PcType'
  BY StateNames, <1>24 DEF PcType, Signal
<1>25. ASSUME Drain PROVE PcType'
  BY StateNames, <1>25 DEF PcType, Drain
<1>26. ASSUME StopLock PROVE PcType'
  BY StateNames, <1>26 DEF PcType, StopLock, Cancel
<1>27. ASSUME StopReturns PROVE PcType'
  BY StateNames, <1>27 DEF PcType, StopReturns, Stopped
<1>28. ASSUME Exit PROVE PcType'
  <2>1. PICK killed \in SUBSET Reqs : Gone(killed)
    BY <1>28 DEF Exit
  <2>. QED
    BY StateNames, <2>1 DEF PcType, Gone
<1>29. ASSUME Crash PROVE PcType'
  <2>1. PICK killed \in SUBSET Reqs : Gone(killed)
    BY <1>29 DEF Crash
  <2>. QED
    BY StateNames, <2>1 DEF PcType, Gone
<1>30. ASSUME HandWrite PROVE PcType'
  BY StateNames, <1>30 DEF PcType, HandWrite, Edit
<1>31. ASSUME HandDelete PROVE PcType'
  BY StateNames, <1>31 DEF PcType, HandDelete, Edit
<1>32. CASE UNCHANGED vars
  BY <1>32 DEF PcType, vars
<1>. QED
  BY <1>1, <1>2, <1>3, <1>4, <1>5, <1>6, <1>7, <1>8, <1>9, <1>10, <1>11, <1>12, <1>13, <1>14, <1>15, <1>16, <1>17, <1>18, <1>19, <1>20, <1>21, <1>22, <1>23, <1>24, <1>25, <1>26, <1>27, <1>28, <1>29, <1>30, <1>31, <1>32
     DEF Next, ReqStep, InstallStep, ActivateStep, ShowStep, ShutdownStep

\* The config, the marker and the probes keep their types.
LEMMA DiskStep ==
    ASSUME DiskType, [Next]_vars
    PROVE  DiskType'
<1>1. ASSUME NEW r \in Reqs,
            Begin(r) \/ StatConfig(r) \/ ReadMarker(r) \/ ReadSecret(r)
            \/ Recheck(r) \/ Generate(r) \/ Verify(r) \/ Load(r) \/ Parse(r)
            \/ RestartLock(r) \/ Restart(r) \/ Store(r) \/ Claim(r) \/ Render(r)
     PROVE  UNCHANGED diskVars
  BY <1>1 DEF Begin, StatConfig, ReadMarker, ReadSecret, Recheck, Generate, Verify, Load,
        Parse, RestartLock, Restart, Store, Claim, Render, diskVars
<1>2. ASSUME (\E x \in Loops : LoopEnds(x)) \/ Start \/ Signal \/ Drain \/ StopLock \/ StopReturns
     PROVE  UNCHANGED diskVars
  BY <1>2 DEF LoopEnds, Start, Signal, Drain, StopLock, StopReturns, diskVars
<1>3. ASSUME UNCHANGED diskVars PROVE DiskType'
  BY <1>3 DEF DiskType, diskVars
<1>4. CASE UNCHANGED vars
  BY <1>3, <1>4 DEF vars, diskVars
<1>5. ASSUME NEW r \in Reqs, Preflight(r) PROVE DiskType'
  BY <1>5 DEF DiskType, MarkerState, Dirs, Keys, Preflight, Probe, Unprobe, At, diskVars
<1>6. ASSUME NEW r \in Reqs, Commit(r) PROVE DiskType'
  BY <1>6 DEF DiskType, MarkerState, Dirs, Keys, Commit, At, diskVars
<1>7. ASSUME NEW r \in Reqs, Mark(r) PROVE DiskType'
  BY <1>7 DEF DiskType, MarkerState, Dirs, Keys, Mark, At, diskVars
<1>8. ASSUME NEW r \in Reqs, MarkWrite(r) PROVE DiskType'
  BY <1>8 DEF DiskType, MarkerState, Dirs, Keys, MarkWrite, At, diskVars
<1>9. ASSUME NEW r \in Reqs, Undo(r) PROVE DiskType'
  BY <1>9 DEF DiskType, MarkerState, Dirs, Keys, Undo, At, diskVars
<1>10. ASSUME NEW r \in Reqs, ClaimOpen(r) PROVE DiskType'
  BY <1>10 DEF DiskType, MarkerState, Dirs, Keys, ClaimOpen, At, diskVars
<1>11. ASSUME NEW r \in Reqs, ClaimWrite(r) PROVE DiskType'
  BY <1>11 DEF DiskType, MarkerState, Dirs, Keys, ClaimWrite, At, diskVars
<1>12. ASSUME Exit PROVE DiskType'
  <2>1. PICK killed \in SUBSET Reqs : Gone(killed)
    BY <1>12 DEF Exit
  <2>. QED
    BY <2>1 DEF DiskType, MarkerState, Dirs, Keys, Gone, diskVars
<1>13. ASSUME Crash PROVE DiskType'
  <2>1. PICK killed \in SUBSET Reqs : Gone(killed)
    BY <1>13 DEF Crash
  <2>. QED
    BY <2>1 DEF DiskType, MarkerState, Dirs, Keys, Gone, diskVars
<1>14. ASSUME HandWrite PROVE DiskType'
  BY <1>14 DEF DiskType, MarkerState, Dirs, Keys, HandWrite, Edit, diskVars
<1>15. ASSUME HandDelete PROVE DiskType'
  BY <1>15 DEF DiskType, MarkerState, Dirs, Keys, HandDelete, Edit, diskVars
<1>. QED
  BY <1>1, <1>2, <1>3, <1>4, <1>5, <1>6, <1>7, <1>8, <1>9, <1>10, <1>11, <1>12,
        <1>13, <1>14, <1>15
     DEF Next, ReqStep, InstallStep, ActivateStep, ShowStep, ShutdownStep

\* The process and its loops keep their types.
LEMMA ServerStep ==
    ASSUME ServerType, DiskType, [Next]_vars
    PROVE  ServerType'
<1>1. ASSUME NEW r \in Reqs,
            Begin(r) \/ StatConfig(r) \/ ReadMarker(r) \/ ReadSecret(r)
            \/ Recheck(r) \/ Preflight(r) \/ Generate(r) \/ Commit(r) \/ Verify(r)
            \/ Mark(r) \/ MarkWrite(r) \/ Undo(r) \/ Claim(r) \/ ClaimOpen(r)
            \/ ClaimWrite(r) \/ Render(r)
     PROVE  UNCHANGED <<phase, installed, live, loaded, registered, loop, mine>>
  BY <1>1 DEF Begin, StatConfig, ReadMarker, ReadSecret, Recheck, Preflight, Generate,
        Commit, Verify, Mark, MarkWrite, Undo, Claim, ClaimOpen, ClaimWrite, Render,
        Probe, Unprobe, serverVars, sweepVars, localVars
<1>2. ASSUME HandWrite \/ HandDelete
     PROVE  UNCHANGED <<phase, installed, live, loaded, registered, loop, mine>>
  BY <1>2 DEF HandWrite, HandDelete, Edit, serverVars, sweepVars, localVars
<1>3. ASSUME UNCHANGED <<phase, installed, live, loaded, registered, loop, mine>> PROVE ServerType'
  BY <1>3 DEF ServerType
<1>4. CASE UNCHANGED vars
  BY <1>3, <1>4 DEF vars, serverVars, sweepVars, localVars
<1>5. ASSUME NEW r \in Reqs, Load(r) PROVE ServerType'
  BY <1>5 DEF ServerType, DiskType, Loops, Keys, Load, Read, At, serverVars, sweepVars, localVars
<1>6. ASSUME NEW r \in Reqs, Parse(r) PROVE ServerType'
  BY <1>6 DEF ServerType, DiskType, Loops, Keys, Parse, At, serverVars, sweepVars, localVars
<1>7. ASSUME NEW r \in Reqs, RestartLock(r) PROVE ServerType'
  BY <1>7
     DEF ServerType, DiskType, Loops, Keys, RestartLock, Cancel, At, serverVars, sweepVars,
         localVars
<1>8. ASSUME NEW r \in Reqs, Restart(r) PROVE ServerType'
  BY <1>8
     DEF ServerType, DiskType, Loops, Keys, Restart, Stopped, At, serverVars, sweepVars,
         localVars
<1>9. ASSUME NEW r \in Reqs, Store(r) PROVE ServerType'
  BY <1>9 DEF ServerType, DiskType, Loops, Keys, Store, At, serverVars, sweepVars, localVars
<1>10. ASSUME NEW x \in Loops, LoopEnds(x) PROVE ServerType'
  BY <1>10 DEF ServerType, DiskType, Loops, Keys, LoopEnds, serverVars, sweepVars, localVars
<1>11. ASSUME Start PROVE ServerType'
  BY <1>11 DEF ServerType, DiskType, Loops, Keys, Start, Installed, serverVars, sweepVars, localVars
<1>12. ASSUME Signal PROVE ServerType'
  BY <1>12 DEF ServerType, DiskType, Loops, Keys, Signal, serverVars, sweepVars, localVars
<1>13. ASSUME Drain PROVE ServerType'
  BY <1>13 DEF ServerType, DiskType, Loops, Keys, Drain, serverVars, sweepVars, localVars
<1>14. ASSUME StopLock PROVE ServerType'
  BY <1>14 DEF ServerType, DiskType, Loops, Keys, StopLock, Cancel, serverVars, sweepVars, localVars
<1>15. ASSUME StopReturns PROVE ServerType'
  BY <1>15
     DEF ServerType, DiskType, Loops, Keys, StopReturns, Stopped, serverVars, sweepVars,
         localVars
<1>16. ASSUME Exit PROVE ServerType'
  <2>1. PICK killed \in SUBSET Reqs : Gone(killed)
    BY <1>16 DEF Exit
  <2>. QED
    BY <2>1 DEF ServerType, DiskType, Loops, Keys, Gone, serverVars, sweepVars, localVars
<1>17. ASSUME Crash PROVE ServerType'
  <2>1. PICK killed \in SUBSET Reqs : Gone(killed)
    BY <1>17 DEF Crash
  <2>. QED
    BY <2>1 DEF ServerType, DiskType, Loops, Keys, Gone, serverVars, sweepVars, localVars
<1>. QED
  BY <1>1, <1>2, <1>3, <1>4, <1>5, <1>6, <1>7, <1>8, <1>9, <1>10, <1>11, <1>12,
        <1>13, <1>14, <1>15, <1>16, <1>17
     DEF Next, ReqStep, InstallStep, ActivateStep, ShowStep, ShutdownStep

\* A request's locals keep their types.
LEMMA LocalStep ==
    ASSUME LocalType, DiskType, [Next]_vars
    PROVE  LocalType'
<1>1. ASSUME NEW r \in Reqs,
            StatConfig(r) \/ ReadMarker(r) \/ Recheck(r) \/ Commit(r) \/ Verify(r)
            \/ Mark(r) \/ MarkWrite(r) \/ Undo(r) \/ Load(r) \/ Parse(r)
            \/ RestartLock(r) \/ Restart(r) \/ Store(r) \/ Claim(r)
            \/ ClaimOpen(r) \/ Render(r)
     PROVE  UNCHANGED <<kind, key, refused, recorded>>
  BY <1>1 DEF StatConfig, ReadMarker, Recheck, Commit, Verify, Mark, MarkWrite, Undo,
        Load, Parse, RestartLock, Restart, Store, Claim, ClaimOpen, Render, localVars
<1>2. ASSUME (\E x \in Loops : LoopEnds(x)) \/ Start \/ Signal \/ Drain \/ StopLock \/ StopReturns
            \/ HandWrite \/ HandDelete
     PROVE  UNCHANGED <<kind, key, refused, recorded>>
  BY <1>2 DEF LoopEnds, Start, Signal, Drain, StopLock, StopReturns, HandWrite,
        HandDelete, Edit, localVars
<1>3. ASSUME UNCHANGED <<kind, key, refused, recorded>> PROVE LocalType'
  BY <1>3 DEF LocalType
<1>4. CASE UNCHANGED vars
  BY <1>3, <1>4 DEF vars, localVars
<1>5. ASSUME NEW r \in Reqs, Begin(r) PROVE LocalType'
  <2>1. PICK k \in KindsOf[r] : kind' = [kind EXCEPT ![r] = k]
    BY <1>5 DEF Begin
  <2>2. k \in {"GET", "HEAD", "POST", "init"}
    BY InstallAssumption
  <2>3. UNCHANGED <<key, refused, recorded>>
    BY <1>5 DEF Begin
  <2>. QED
    BY <2>1, <2>2, <2>3 DEF LocalType
<1>6. ASSUME NEW r \in Reqs, ReadSecret(r) PROVE LocalType'
  BY <1>6, InstallAssumption DEF LocalType, DiskType, Keys, ReadSecret, At, localVars
<1>7. ASSUME NEW r \in Reqs, Preflight(r) PROVE LocalType'
  BY <1>7, InstallAssumption DEF LocalType, DiskType, Keys, Preflight, Probe, Unprobe, At, localVars
<1>8. ASSUME NEW r \in Reqs, Generate(r) PROVE LocalType'
  BY <1>8, InstallAssumption DEF LocalType, DiskType, Keys, Generate, At, localVars
<1>9. ASSUME NEW r \in Reqs, ClaimWrite(r) PROVE LocalType'
  BY <1>9, InstallAssumption DEF LocalType, DiskType, Keys, ClaimWrite, At, localVars
<1>10. ASSUME Exit PROVE LocalType'
  <2>1. PICK killed \in SUBSET Reqs : Gone(killed)
    BY <1>10 DEF Exit
  <2>. QED
    BY <2>1, InstallAssumption DEF LocalType, DiskType, Keys, Gone, localVars
<1>11. ASSUME Crash PROVE LocalType'
  <2>1. PICK killed \in SUBSET Reqs : Gone(killed)
    BY <1>11 DEF Crash
  <2>. QED
    BY <2>1, InstallAssumption DEF LocalType, DiskType, Keys, Gone, localVars
<1>. QED
  BY <1>1, <1>2, <1>3, <1>4, <1>5, <1>6, <1>7, <1>8, <1>9, <1>10, <1>11
     DEF Next, ReqStep, InstallStep, ActivateStep, ShowStep, ShutdownStep

(* A step either counts one failed call or leaves the bounds alone. *)
LEMMA FaultStep ==
    ASSUME BoundType, Fault \/ UNCHANGED boundVars
    PROVE  BoundType'
  BY DEF BoundType, Fault, boundVars

\* The counters that bound the model stay numbers.
LEMMA BoundStep ==
    ASSUME BoundType, [Next]_vars
    PROVE  BoundType'
<1>1. ASSUME NEW r \in Reqs,
            Begin(r) \/ ReadMarker(r) \/ ReadSecret(r)
            \/ RestartLock(r) \/ Restart(r) \/ Store(r) \/ Claim(r)
     PROVE  UNCHANGED boundVars
  BY <1>1 DEF Begin, ReadMarker, ReadSecret, RestartLock, Restart, Store, Claim, boundVars
<1>2. ASSUME (\E x \in Loops : LoopEnds(x)) \/ Signal \/ StopLock \/ StopReturns
     PROVE  UNCHANGED boundVars
  BY <1>2 DEF LoopEnds, Signal, StopLock, StopReturns, boundVars
<1>3. ASSUME UNCHANGED boundVars PROVE BoundType'
  BY <1>3 DEF BoundType, boundVars
<1>4. CASE UNCHANGED vars
  BY <1>3, <1>4 DEF vars, boundVars
<1>5. ASSUME NEW r \in Reqs, Preflight(r) PROVE BoundType'
  <2>1. Fault \/ UNCHANGED boundVars
    BY <1>5 DEF Preflight, Probe, Unprobe
  <2>. QED
    BY <2>1, FaultStep
<1>6. ASSUME NEW r \in Reqs, Generate(r) PROVE BoundType'
  BY <1>6 DEF BoundType, Generate, Fault, boundVars
<1>7. ASSUME NEW r \in Reqs, Commit(r) PROVE BoundType'
  BY <1>7 DEF BoundType, Commit, Fault, boundVars
<1>8. ASSUME NEW r \in Reqs, Verify(r) PROVE BoundType'
  BY <1>8 DEF BoundType, Verify, Fault, boundVars
<1>9. ASSUME NEW r \in Reqs, Mark(r) PROVE BoundType'
  <2>1. Fault \/ UNCHANGED boundVars
    BY <1>9 DEF Mark
  <2>. QED
    BY <2>1, FaultStep
<1>10. ASSUME NEW r \in Reqs, MarkWrite(r) PROVE BoundType'
  <2>1. Fault \/ UNCHANGED boundVars
    BY <1>10 DEF MarkWrite
  <2>. QED
    BY <2>1, FaultStep
<1>11. ASSUME NEW r \in Reqs, Undo(r) PROVE BoundType'
  BY <1>11 DEF BoundType, Undo, Fault, boundVars
<1>12. ASSUME NEW r \in Reqs, Load(r) PROVE BoundType'
  BY <1>12 DEF BoundType, Load, Read, Fault, boundVars
<1>13. ASSUME NEW r \in Reqs, Parse(r) PROVE BoundType'
  BY <1>13 DEF BoundType, Parse, Fault, boundVars
<1>14. ASSUME NEW r \in Reqs, ClaimOpen(r) PROVE BoundType'
  <2>1. Fault \/ UNCHANGED boundVars
    BY <1>14 DEF ClaimOpen
  <2>. QED
    BY <2>1, FaultStep
<1>15. ASSUME NEW r \in Reqs, ClaimWrite(r) PROVE BoundType'
  <2>1. Fault \/ UNCHANGED boundVars
    BY <1>15 DEF ClaimWrite
  <2>. QED
    BY <2>1, FaultStep
<1>16. ASSUME NEW r \in Reqs, Render(r) PROVE BoundType'
  BY <1>16 DEF BoundType, Render, Fault, boundVars
<1>17. ASSUME Start PROVE BoundType'
  BY <1>17 DEF BoundType, Start, Installed, boundVars
<1>18. ASSUME Drain PROVE BoundType'
  BY <1>18 DEF BoundType, Drain, Fault, boundVars
<1>19. ASSUME Exit PROVE BoundType'
  <2>1. PICK killed \in SUBSET Reqs : Gone(killed) /\ UNCHANGED boundVars
    BY <1>19 DEF Exit
  <2>. QED
    BY <2>1 DEF BoundType, Gone, boundVars
<1>20. ASSUME Crash PROVE BoundType'
  BY <1>20, FaultStep DEF Crash
<1>21. ASSUME HandWrite PROVE BoundType'
  BY <1>21 DEF BoundType, HandWrite, Edit, boundVars
<1>22. ASSUME HandDelete PROVE BoundType'
  BY <1>22 DEF BoundType, HandDelete, Edit, boundVars
<1>23. ASSUME NEW r \in Reqs, StatConfig(r) \/ Recheck(r) PROVE BoundType'
  <2>1. Fault \/ UNCHANGED boundVars
    BY <1>23 DEF StatConfig, Recheck, FindsConfig, FindsNone
  <2>. QED
    BY <2>1, FaultStep
<1>. QED
  BY <1>1, <1>2, <1>3, <1>4, <1>5, <1>6, <1>7, <1>8, <1>9, <1>10, <1>11, <1>12,
        <1>13, <1>14, <1>15, <1>16, <1>17, <1>18, <1>19, <1>20, <1>21, <1>22, <1>23
     DEF Next, ReqStep, InstallStep, ActivateStep, ShowStep, ShutdownStep

\* The mutex is held by whoever waits for a loop, and by nobody else.
LEMMA MutexStep ==
    ASSUME MutexType, PcType, OnlyWebActivates, [Next]_vars
    PROVE  MutexType'
<1>1. ASSUME NEW r \in Reqs, Begin(r) PROVE MutexType'
  BY <1>1, InstallAssumption
     DEF MutexType, PcType, OnlyWebActivates, Activate, Web, Begin, At, serverVars, sweepVars,
         localVars
<1>2. ASSUME NEW r \in Reqs, StatConfig(r) PROVE MutexType'
  BY <1>2, InstallAssumption
     DEF MutexType, PcType, OnlyWebActivates, Activate, Web, StatConfig, At, serverVars,
         sweepVars, localVars
<1>3. ASSUME NEW r \in Reqs, ReadMarker(r) PROVE MutexType'
  BY <1>3, InstallAssumption
     DEF MutexType, PcType, OnlyWebActivates, Activate, Web, ReadMarker, At, serverVars,
         sweepVars, localVars
<1>4. ASSUME NEW r \in Reqs, ReadSecret(r) PROVE MutexType'
  BY <1>4, InstallAssumption
     DEF MutexType, PcType, OnlyWebActivates, Activate, Web, ReadSecret, At, serverVars,
         sweepVars, localVars
<1>5. ASSUME NEW r \in Reqs, Recheck(r) PROVE MutexType'
  BY <1>5, InstallAssumption
     DEF MutexType, PcType, OnlyWebActivates, Activate, Web, Recheck, At, serverVars,
         sweepVars, localVars
<1>6. ASSUME NEW r \in Reqs, Preflight(r) PROVE MutexType'
  BY <1>6, InstallAssumption
     DEF MutexType, PcType, OnlyWebActivates, Activate, Web, Preflight, Probe, Unprobe, At,
         serverVars, sweepVars, localVars
<1>7. ASSUME NEW r \in Reqs, Generate(r) PROVE MutexType'
  BY <1>7, InstallAssumption
     DEF MutexType, PcType, OnlyWebActivates, Activate, Web, Generate, At, serverVars,
         sweepVars, localVars
<1>8. ASSUME NEW r \in Reqs, Commit(r) PROVE MutexType'
  BY <1>8, InstallAssumption
     DEF MutexType, PcType, OnlyWebActivates, Activate, Web, Commit, At, serverVars, sweepVars,
         localVars
<1>9. ASSUME NEW r \in Reqs, Verify(r) PROVE MutexType'
  BY <1>9, InstallAssumption
     DEF MutexType, PcType, OnlyWebActivates, Activate, Web, Verify, At, serverVars, sweepVars,
         localVars
<1>10. ASSUME NEW r \in Reqs, Mark(r) PROVE MutexType'
  BY <1>10, InstallAssumption
     DEF MutexType, PcType, OnlyWebActivates, Activate, Web, Mark, At, serverVars, sweepVars,
         localVars
<1>11. ASSUME NEW r \in Reqs, MarkWrite(r) PROVE MutexType'
  BY <1>11, InstallAssumption
     DEF MutexType, PcType, OnlyWebActivates, Activate, Web, MarkWrite, At, serverVars,
         sweepVars, localVars
<1>12. ASSUME NEW r \in Reqs, Undo(r) PROVE MutexType'
  BY <1>12, InstallAssumption
     DEF MutexType, PcType, OnlyWebActivates, Activate, Web, Undo, At, serverVars, sweepVars,
         localVars
<1>13. ASSUME NEW r \in Reqs, Load(r) PROVE MutexType'
  BY <1>13, InstallAssumption
     DEF MutexType, PcType, OnlyWebActivates, Activate, Web, Load, Read, At, serverVars,
         sweepVars, localVars
<1>14. ASSUME NEW r \in Reqs, Parse(r) PROVE MutexType'
  BY <1>14, InstallAssumption
     DEF MutexType, PcType, OnlyWebActivates, Activate, Web, Parse, At, serverVars, sweepVars,
         localVars
<1>15. ASSUME NEW r \in Reqs, RestartLock(r) PROVE MutexType'
  BY <1>15, InstallAssumption
     DEF MutexType, PcType, OnlyWebActivates, Activate, Web, RestartLock, Cancel, At,
         serverVars, sweepVars, localVars
<1>16. ASSUME NEW r \in Reqs, Restart(r) PROVE MutexType'
  BY <1>16, InstallAssumption
     DEF MutexType, PcType, OnlyWebActivates, Activate, Web, Restart, Stopped, At, serverVars,
         sweepVars, localVars
<1>17. ASSUME NEW r \in Reqs, Store(r) PROVE MutexType'
  BY <1>17, InstallAssumption
     DEF MutexType, PcType, OnlyWebActivates, Activate, Web, Store, At, serverVars, sweepVars,
         localVars
<1>18. ASSUME NEW r \in Reqs, Claim(r) PROVE MutexType'
  BY <1>18, InstallAssumption
     DEF MutexType, PcType, OnlyWebActivates, Activate, Web, Claim, At, serverVars, sweepVars,
         localVars
<1>19. ASSUME NEW r \in Reqs, ClaimOpen(r) PROVE MutexType'
  BY <1>19, InstallAssumption
     DEF MutexType, PcType, OnlyWebActivates, Activate, Web, ClaimOpen, At, serverVars,
         sweepVars, localVars
<1>20. ASSUME NEW r \in Reqs, ClaimWrite(r) PROVE MutexType'
  BY <1>20, InstallAssumption
     DEF MutexType, PcType, OnlyWebActivates, Activate, Web, ClaimWrite, At, serverVars,
         sweepVars, localVars
<1>21. ASSUME NEW r \in Reqs, Render(r) PROVE MutexType'
  BY <1>21, InstallAssumption
     DEF MutexType, PcType, OnlyWebActivates, Activate, Web, Render, At, serverVars, sweepVars,
         localVars
<1>22. ASSUME NEW x \in Loops, LoopEnds(x) PROVE MutexType'
  BY <1>22, InstallAssumption
     DEF MutexType, PcType, OnlyWebActivates, Activate, Web, LoopEnds, serverVars, sweepVars,
         localVars
<1>23. ASSUME Start PROVE MutexType'
  BY <1>23, InstallAssumption
     DEF MutexType, PcType, OnlyWebActivates, Activate, Web, Start, Installed, serverVars,
         sweepVars, localVars
<1>24. ASSUME Signal PROVE MutexType'
  BY <1>24, InstallAssumption
     DEF MutexType, PcType, OnlyWebActivates, Activate, Web, Signal, serverVars, sweepVars,
         localVars
<1>25. ASSUME Drain PROVE MutexType'
  BY <1>25, InstallAssumption
     DEF MutexType, PcType, OnlyWebActivates, Activate, Web, Drain, serverVars, sweepVars,
         localVars
<1>26. ASSUME StopLock PROVE MutexType'
  BY <1>26, InstallAssumption
     DEF MutexType, PcType, OnlyWebActivates, Activate, Web, StopLock, Cancel, serverVars,
         sweepVars, localVars
<1>27. ASSUME StopReturns PROVE MutexType'
  BY <1>27, InstallAssumption
     DEF MutexType, PcType, OnlyWebActivates, Activate, Web, StopReturns, Stopped, serverVars,
         sweepVars, localVars
<1>28. ASSUME Exit PROVE MutexType'
  <2>1. PICK killed \in SUBSET Reqs : Gone(killed) /\ \A r \in Reqs : pc[r] = "await" => r \in killed
    BY <1>28 DEF Exit, Running, Ended, Web, OnlyWebActivates, Activate
  <2>. QED
    BY <2>1, InstallAssumption
       DEF MutexType, PcType, OnlyWebActivates, Activate, Web, Gone, serverVars, sweepVars,
           localVars
<1>29. ASSUME Crash PROVE MutexType'
  <2>1. PICK killed \in SUBSET Reqs : Gone(killed) /\ \A r \in Reqs : pc[r] = "await" => r \in killed
    BY <1>29 DEF Crash, Running, Ended, Web, OnlyWebActivates, Activate
  <2>. QED
    BY <2>1, InstallAssumption
       DEF MutexType, PcType, OnlyWebActivates, Activate, Web, Gone, serverVars, sweepVars,
           localVars
<1>30. ASSUME HandWrite PROVE MutexType'
  BY <1>30, InstallAssumption
     DEF MutexType, PcType, OnlyWebActivates, Activate, Web, HandWrite, Edit, serverVars,
         sweepVars, localVars
<1>31. ASSUME HandDelete PROVE MutexType'
  BY <1>31, InstallAssumption
     DEF MutexType, PcType, OnlyWebActivates, Activate, Web, HandDelete, Edit, serverVars,
         sweepVars, localVars
<1>32. CASE UNCHANGED vars
  BY <1>32, InstallAssumption
     DEF MutexType, PcType, OnlyWebActivates, Activate, Web, vars, serverVars, sweepVars,
         localVars
<1>. QED
  BY <1>1, <1>2, <1>3, <1>4, <1>5, <1>6, <1>7, <1>8, <1>9, <1>10, <1>11, <1>12, <1>13, <1>14, <1>15, <1>16, <1>17, <1>18, <1>19, <1>20, <1>21, <1>22, <1>23, <1>24, <1>25, <1>26, <1>27, <1>28, <1>29, <1>30, <1>31, <1>32
     DEF Next, ReqStep, InstallStep, ActivateStep, ShowStep, ShutdownStep

\* Only a request to the page gets to Reload.
LEMMA WebStep ==
    ASSUME OnlyWebActivates, PcType, LocalType, [Next]_vars
    PROVE  OnlyWebActivates'
<1>1. ASSUME NEW r \in Reqs, Begin(r) PROVE OnlyWebActivates'
  BY <1>1 DEF OnlyWebActivates, PcType, LocalType, Activate, Web, Begin, At, localVars
<1>2. ASSUME NEW r \in Reqs, StatConfig(r) PROVE OnlyWebActivates'
  BY <1>2 DEF OnlyWebActivates, PcType, LocalType, Activate, Web, StatConfig, At, localVars
<1>3. ASSUME NEW r \in Reqs, ReadMarker(r) PROVE OnlyWebActivates'
  BY <1>3 DEF OnlyWebActivates, PcType, LocalType, Activate, Web, ReadMarker, At, localVars
<1>4. ASSUME NEW r \in Reqs, ReadSecret(r) PROVE OnlyWebActivates'
  BY <1>4 DEF OnlyWebActivates, PcType, LocalType, Activate, Web, ReadSecret, At, localVars
<1>5. ASSUME NEW r \in Reqs, Recheck(r) PROVE OnlyWebActivates'
  BY <1>5 DEF OnlyWebActivates, PcType, LocalType, Activate, Web, Recheck, At, localVars
<1>6. ASSUME NEW r \in Reqs, Preflight(r) PROVE OnlyWebActivates'
  BY <1>6
     DEF OnlyWebActivates, PcType, LocalType, Activate, Web, Preflight, Probe, Unprobe, At,
         localVars
<1>7. ASSUME NEW r \in Reqs, Generate(r) PROVE OnlyWebActivates'
  BY <1>7 DEF OnlyWebActivates, PcType, LocalType, Activate, Web, Generate, At, localVars
<1>8. ASSUME NEW r \in Reqs, Commit(r) PROVE OnlyWebActivates'
  BY <1>8 DEF OnlyWebActivates, PcType, LocalType, Activate, Web, Commit, At, localVars
<1>9. ASSUME NEW r \in Reqs, Verify(r) PROVE OnlyWebActivates'
  BY <1>9 DEF OnlyWebActivates, PcType, LocalType, Activate, Web, Verify, At, localVars
<1>10. ASSUME NEW r \in Reqs, Mark(r) PROVE OnlyWebActivates'
  BY <1>10 DEF OnlyWebActivates, PcType, LocalType, Activate, Web, Mark, At, localVars
<1>11. ASSUME NEW r \in Reqs, MarkWrite(r) PROVE OnlyWebActivates'
  BY <1>11 DEF OnlyWebActivates, PcType, LocalType, Activate, Web, MarkWrite, At, localVars
<1>12. ASSUME NEW r \in Reqs, Undo(r) PROVE OnlyWebActivates'
  BY <1>12 DEF OnlyWebActivates, PcType, LocalType, Activate, Web, Undo, At, localVars
<1>13. ASSUME NEW r \in Reqs, Load(r) PROVE OnlyWebActivates'
  BY <1>13 DEF OnlyWebActivates, PcType, LocalType, Activate, Web, Load, Read, At, localVars
<1>14. ASSUME NEW r \in Reqs, Parse(r) PROVE OnlyWebActivates'
  BY <1>14 DEF OnlyWebActivates, PcType, LocalType, Activate, Web, Parse, At, localVars
<1>15. ASSUME NEW r \in Reqs, RestartLock(r) PROVE OnlyWebActivates'
  BY <1>15
     DEF OnlyWebActivates, PcType, LocalType, Activate, Web, RestartLock, Cancel, At,
         localVars
<1>16. ASSUME NEW r \in Reqs, Restart(r) PROVE OnlyWebActivates'
  BY <1>16 DEF OnlyWebActivates, PcType, LocalType, Activate, Web, Restart, Stopped, At, localVars
<1>17. ASSUME NEW r \in Reqs, Store(r) PROVE OnlyWebActivates'
  BY <1>17 DEF OnlyWebActivates, PcType, LocalType, Activate, Web, Store, At, localVars
<1>18. ASSUME NEW r \in Reqs, Claim(r) PROVE OnlyWebActivates'
  BY <1>18 DEF OnlyWebActivates, PcType, LocalType, Activate, Web, Claim, At, localVars
<1>19. ASSUME NEW r \in Reqs, ClaimOpen(r) PROVE OnlyWebActivates'
  BY <1>19 DEF OnlyWebActivates, PcType, LocalType, Activate, Web, ClaimOpen, At, localVars
<1>20. ASSUME NEW r \in Reqs, ClaimWrite(r) PROVE OnlyWebActivates'
  BY <1>20 DEF OnlyWebActivates, PcType, LocalType, Activate, Web, ClaimWrite, At, localVars
<1>21. ASSUME NEW r \in Reqs, Render(r) PROVE OnlyWebActivates'
  BY <1>21 DEF OnlyWebActivates, PcType, LocalType, Activate, Web, Render, At, localVars
<1>22. ASSUME NEW x \in Loops, LoopEnds(x) PROVE OnlyWebActivates'
  BY <1>22 DEF OnlyWebActivates, PcType, LocalType, Activate, Web, LoopEnds, localVars
<1>23. ASSUME Start PROVE OnlyWebActivates'
  BY <1>23 DEF OnlyWebActivates, PcType, LocalType, Activate, Web, Start, Installed, localVars
<1>24. ASSUME Signal PROVE OnlyWebActivates'
  BY <1>24 DEF OnlyWebActivates, PcType, LocalType, Activate, Web, Signal, localVars
<1>25. ASSUME Drain PROVE OnlyWebActivates'
  BY <1>25 DEF OnlyWebActivates, PcType, LocalType, Activate, Web, Drain, localVars
<1>26. ASSUME StopLock PROVE OnlyWebActivates'
  BY <1>26 DEF OnlyWebActivates, PcType, LocalType, Activate, Web, StopLock, Cancel, localVars
<1>27. ASSUME StopReturns PROVE OnlyWebActivates'
  BY <1>27 DEF OnlyWebActivates, PcType, LocalType, Activate, Web, StopReturns, Stopped, localVars
<1>28. ASSUME Exit PROVE OnlyWebActivates'
  <2>1. PICK killed \in SUBSET Reqs : Gone(killed)
    BY <1>28 DEF Exit
  <2>. QED
    BY <2>1 DEF OnlyWebActivates, PcType, LocalType, Activate, Web, Gone, localVars
<1>29. ASSUME Crash PROVE OnlyWebActivates'
  <2>1. PICK killed \in SUBSET Reqs : Gone(killed)
    BY <1>29 DEF Crash
  <2>. QED
    BY <2>1 DEF OnlyWebActivates, PcType, LocalType, Activate, Web, Gone, localVars
<1>30. ASSUME HandWrite PROVE OnlyWebActivates'
  BY <1>30 DEF OnlyWebActivates, PcType, LocalType, Activate, Web, HandWrite, Edit, localVars
<1>31. ASSUME HandDelete PROVE OnlyWebActivates'
  BY <1>31 DEF OnlyWebActivates, PcType, LocalType, Activate, Web, HandDelete, Edit, localVars
<1>32. CASE UNCHANGED vars
  BY <1>32 DEF OnlyWebActivates, PcType, LocalType, Activate, Web, vars, localVars
<1>. QED
  BY <1>1, <1>2, <1>3, <1>4, <1>5, <1>6, <1>7, <1>8, <1>9, <1>10, <1>11, <1>12, <1>13, <1>14, <1>15, <1>16, <1>17, <1>18, <1>19, <1>20, <1>21, <1>22, <1>23, <1>24, <1>25, <1>26, <1>27, <1>28, <1>29, <1>30, <1>31, <1>32
     DEF Next, ReqStep, InstallStep, ActivateStep, ShowStep, ShutdownStep

\* Whoever may show or lose a secret has one.
LEMMA KeyStep ==
    ASSUME KeyInHand, PcType, LocalType, DiskType, [Next]_vars
    PROVE  KeyInHand'
<1>1. ASSUME NEW r \in Reqs, Begin(r) PROVE KeyInHand'
  BY <1>1 DEF KeyInHand, PcType, HasKey, Begin, At
<1>2. ASSUME NEW r \in Reqs, StatConfig(r) PROVE KeyInHand'
  BY <1>2 DEF KeyInHand, PcType, LocalType, HasKey, StatConfig, At, localVars
<1>3. ASSUME NEW r \in Reqs, ReadMarker(r) PROVE KeyInHand'
  BY <1>3 DEF KeyInHand, PcType, LocalType, HasKey, ReadMarker, At, localVars
<1>4. ASSUME NEW r \in Reqs, ReadSecret(r) PROVE KeyInHand'
  BY <1>4 DEF KeyInHand, PcType, LocalType, DiskType, Keys, HasKey, ReadSecret, At, localVars
<1>5. ASSUME NEW r \in Reqs, Recheck(r) PROVE KeyInHand'
  BY <1>5 DEF KeyInHand, PcType, LocalType, HasKey, Recheck, At, localVars
<1>6. ASSUME NEW r \in Reqs, Preflight(r) PROVE KeyInHand'
  BY <1>6
     DEF KeyInHand, PcType, LocalType, HasKey, Preflight, Probe, Unprobe, At,
         localVars
<1>7. ASSUME NEW r \in Reqs, Generate(r) PROVE KeyInHand'
  BY <1>7 DEF KeyInHand, PcType, LocalType, DiskType, Keys, HasKey, Generate, At, localVars
<1>8. ASSUME NEW r \in Reqs, Commit(r) PROVE KeyInHand'
  BY <1>8 DEF KeyInHand, PcType, LocalType, HasKey, Commit, At, localVars
<1>9. ASSUME NEW r \in Reqs, Verify(r) PROVE KeyInHand'
  BY <1>9 DEF KeyInHand, PcType, LocalType, HasKey, Verify, At, localVars
<1>10. ASSUME NEW r \in Reqs, Mark(r) PROVE KeyInHand'
  BY <1>10 DEF KeyInHand, PcType, LocalType, HasKey, Mark, At, localVars
<1>11. ASSUME NEW r \in Reqs, MarkWrite(r) PROVE KeyInHand'
  BY <1>11 DEF KeyInHand, PcType, LocalType, HasKey, MarkWrite, At, localVars
<1>12. ASSUME NEW r \in Reqs, Undo(r) PROVE KeyInHand'
  BY <1>12 DEF KeyInHand, PcType, LocalType, HasKey, Undo, At, localVars
<1>13. ASSUME NEW r \in Reqs, Load(r) PROVE KeyInHand'
  BY <1>13 DEF KeyInHand, PcType, LocalType, HasKey, Load, Read, At, localVars
<1>14. ASSUME NEW r \in Reqs, Parse(r) PROVE KeyInHand'
  BY <1>14 DEF KeyInHand, PcType, LocalType, HasKey, Parse, At, localVars
<1>15. ASSUME NEW r \in Reqs, RestartLock(r) PROVE KeyInHand'
  BY <1>15
     DEF KeyInHand, PcType, LocalType, HasKey, RestartLock, Cancel, At,
         localVars
<1>16. ASSUME NEW r \in Reqs, Restart(r) PROVE KeyInHand'
  BY <1>16 DEF KeyInHand, PcType, LocalType, HasKey, Restart, Stopped, At, localVars
<1>17. ASSUME NEW r \in Reqs, Store(r) PROVE KeyInHand'
  BY <1>17 DEF KeyInHand, PcType, LocalType, HasKey, Store, At, localVars
<1>18. ASSUME NEW r \in Reqs, Claim(r) PROVE KeyInHand'
  BY <1>18 DEF KeyInHand, PcType, LocalType, HasKey, Claim, At, localVars
<1>19. ASSUME NEW r \in Reqs, ClaimOpen(r) PROVE KeyInHand'
  BY <1>19 DEF KeyInHand, PcType, LocalType, HasKey, ClaimOpen, At, localVars
<1>20. ASSUME NEW r \in Reqs, ClaimWrite(r) PROVE KeyInHand'
  BY <1>20 DEF KeyInHand, PcType, LocalType, HasKey, ClaimWrite, At, localVars
<1>21. ASSUME NEW r \in Reqs, Render(r) PROVE KeyInHand'
  BY <1>21 DEF KeyInHand, PcType, LocalType, HasKey, Render, At, localVars
<1>22. ASSUME NEW x \in Loops, LoopEnds(x) PROVE KeyInHand'
  BY <1>22 DEF KeyInHand, PcType, LocalType, HasKey, LoopEnds, localVars
<1>23. ASSUME Start PROVE KeyInHand'
  BY <1>23 DEF KeyInHand, PcType, LocalType, HasKey, Start, Installed, localVars
<1>24. ASSUME Signal PROVE KeyInHand'
  BY <1>24 DEF KeyInHand, PcType, LocalType, HasKey, Signal, localVars
<1>25. ASSUME Drain PROVE KeyInHand'
  BY <1>25 DEF KeyInHand, PcType, LocalType, HasKey, Drain, localVars
<1>26. ASSUME StopLock PROVE KeyInHand'
  BY <1>26 DEF KeyInHand, PcType, LocalType, HasKey, StopLock, Cancel, localVars
<1>27. ASSUME StopReturns PROVE KeyInHand'
  BY <1>27 DEF KeyInHand, PcType, LocalType, HasKey, StopReturns, Stopped, localVars
<1>28. ASSUME Exit PROVE KeyInHand'
  <2>1. PICK killed \in SUBSET Reqs : Gone(killed)
    BY <1>28 DEF Exit
  <2>. QED
    BY <2>1 DEF KeyInHand, PcType, LocalType, HasKey, Gone, localVars
<1>29. ASSUME Crash PROVE KeyInHand'
  <2>1. PICK killed \in SUBSET Reqs : Gone(killed)
    BY <1>29 DEF Crash
  <2>. QED
    BY <2>1 DEF KeyInHand, PcType, LocalType, HasKey, Gone, localVars
<1>30. ASSUME HandWrite PROVE KeyInHand'
  BY <1>30 DEF KeyInHand, PcType, LocalType, HasKey, HandWrite, Edit, localVars
<1>31. ASSUME HandDelete PROVE KeyInHand'
  BY <1>31 DEF KeyInHand, PcType, LocalType, HasKey, HandDelete, Edit, localVars
<1>32. CASE UNCHANGED vars
  BY <1>32 DEF KeyInHand, PcType, LocalType, HasKey, vars, localVars
<1>. QED
  BY <1>1, <1>2, <1>3, <1>4, <1>5, <1>6, <1>7, <1>8, <1>9, <1>10, <1>11, <1>12, <1>13, <1>14, <1>15, <1>16, <1>17, <1>18, <1>19, <1>20, <1>21, <1>22, <1>23, <1>24, <1>25, <1>26, <1>27, <1>28, <1>29, <1>30, <1>31, <1>32
     DEF Next, ReqStep, InstallStep, ActivateStep, ShowStep, ShutdownStep

\* The history variables keep their types.
LEMMA HistStep ==
    ASSUME HistType, KeyInHand, PcType, LocalType, [Next]_vars
    PROVE  HistType'
<1>1. ASSUME NEW r \in Reqs,
            StatConfig(r) \/ ReadSecret(r) \/ Preflight(r)
            \/ Generate(r) \/ Commit(r) \/ Verify(r) \/ Mark(r) \/ MarkWrite(r)
            \/ RestartLock(r) \/ Restart(r) \/ Store(r) \/ Claim(r)
            \/ ClaimOpen(r) \/ ClaimWrite(r)
     PROVE  UNCHANGED histVars
  BY <1>1 DEF StatConfig, ReadSecret, Preflight, Generate, Commit, Verify,
        Mark, MarkWrite, RestartLock, Restart, Store, Claim, ClaimOpen, ClaimWrite,
        Probe, Unprobe, histVars, pageVars, endVars
<1>2. ASSUME (\E x \in Loops : LoopEnds(x)) \/ Signal \/ StopLock \/ StopReturns
     PROVE  UNCHANGED histVars
  BY <1>2 DEF LoopEnds, Signal, StopLock, StopReturns, histVars, pageVars, endVars
<1>3. ASSUME UNCHANGED histVars PROVE HistType'
  BY <1>3 DEF HistType, histVars, pageVars, endVars
<1>4. CASE UNCHANGED vars
  BY <1>3, <1>4 DEF vars, histVars, pageVars, endVars
<1>5. ASSUME NEW r \in Reqs, Begin(r) PROVE HistType'
  BY <1>5 DEF HistType, KeyInHand, LocalType, HasKey, Begin, At, histVars, pageVars, endVars
<1>6. ASSUME NEW r \in Reqs, Recheck(r) PROVE HistType'
  BY <1>6 DEF HistType, KeyInHand, LocalType, HasKey, Recheck, At, histVars, pageVars, endVars
<1>7. ASSUME NEW r \in Reqs, Undo(r) PROVE HistType'
  BY <1>7 DEF HistType, KeyInHand, LocalType, HasKey, Undo, At, histVars, pageVars, endVars
<1>8. ASSUME NEW r \in Reqs, Load(r) PROVE HistType'
  BY <1>8 DEF HistType, KeyInHand, LocalType, HasKey, Load, Read, At, histVars, pageVars, endVars
<1>9. ASSUME NEW r \in Reqs, Parse(r) PROVE HistType'
  BY <1>9 DEF HistType, KeyInHand, LocalType, HasKey, Parse, At, histVars, pageVars, endVars
<1>10. ASSUME NEW r \in Reqs, Render(r) PROVE HistType'
  BY <1>10 DEF HistType, KeyInHand, LocalType, HasKey, Render, At, histVars, pageVars, endVars
<1>11. ASSUME Drain PROVE HistType'
  BY <1>11 DEF HistType, KeyInHand, LocalType, HasKey, Drain, histVars, pageVars, endVars
<1>12. ASSUME Exit PROVE HistType'
  <2>1. PICK killed \in SUBSET Reqs : Gone(killed) /\ abandoned' \in BOOLEAN
    BY <1>12 DEF Exit, HistType
  <2>. QED
    BY <2>1 DEF HistType, KeyInHand, LocalType, HasKey, Gone, histVars, pageVars, endVars
<1>13. ASSUME Crash PROVE HistType'
  <2>1. PICK killed \in SUBSET Reqs : Gone(killed) /\ abandoned' \in BOOLEAN
    BY <1>13 DEF Crash, HistType
  <2>. QED
    BY <2>1 DEF HistType, KeyInHand, LocalType, HasKey, Gone, histVars, pageVars, endVars
<1>14. ASSUME HandWrite PROVE HistType'
  BY <1>14 DEF HistType, KeyInHand, LocalType, HasKey, HandWrite, Edit, histVars, pageVars, endVars
<1>15. ASSUME HandDelete PROVE HistType'
  BY <1>15 DEF HistType, KeyInHand, LocalType, HasKey, HandDelete, Edit, histVars, pageVars, endVars
<1>16. ASSUME NEW r \in Reqs, ReadMarker(r) PROVE HistType'
  BY <1>16 DEF HistType, ReadMarker, histVars, pageVars, endVars
<1>17. ASSUME Start PROVE HistType'
  BY <1>17 DEF HistType, Start, pageVars, endVars
<1>. QED
  BY <1>1, <1>2, <1>3, <1>4, <1>5, <1>6, <1>7, <1>8, <1>9, <1>10, <1>11, <1>12,
        <1>13, <1>14, <1>15, <1>16, <1>17
     DEF Next, ReqStep, InstallStep, ActivateStep, ShowStep, ShutdownStep

-----------------------------------------------------------------------------
(* The sweep loops. *)

\* A loop is started only when the one before it has ended.
LEMMA AliveStep ==
    ASSUME AliveIsRegistered, DownIsDown, ServerType, [Next]_vars
    PROVE  AliveIsRegistered'
<1>1. ASSUME NEW r \in Reqs,
            Begin(r) \/ StatConfig(r) \/ ReadMarker(r) \/ ReadSecret(r)
            \/ Recheck(r) \/ Preflight(r) \/ Generate(r) \/ Commit(r) \/ Verify(r)
            \/ Mark(r) \/ MarkWrite(r) \/ Undo(r) \/ Load(r) \/ Parse(r)
            \/ Store(r) \/ Claim(r) \/ ClaimOpen(r) \/ ClaimWrite(r) \/ Render(r)
     PROVE  UNCHANGED <<phase, registered, loop>>
  BY <1>1 DEF Begin, StatConfig, ReadMarker, ReadSecret, Recheck, Preflight, Generate,
        Commit, Verify, Mark, MarkWrite, Undo, Load, Parse, Store, Claim, ClaimOpen,
        ClaimWrite, Render, Probe, Unprobe, serverVars, sweepVars
<1>2. ASSUME HandWrite \/ HandDelete
     PROVE  UNCHANGED <<phase, registered, loop>>
  BY <1>2 DEF HandWrite, HandDelete, Edit, serverVars, sweepVars
<1>3. ASSUME UNCHANGED <<phase, registered, loop>> PROVE AliveIsRegistered'
  BY <1>3 DEF AliveIsRegistered
<1>4. CASE UNCHANGED vars
  BY <1>3, <1>4 DEF vars, serverVars, sweepVars
<1>5. ASSUME NEW r \in Reqs, RestartLock(r) PROVE AliveIsRegistered'
  BY <1>5, InstallAssumption
     DEF AliveIsRegistered, DownIsDown, ServerType, Loops, RestartLock, Cancel, serverVars,
         sweepVars
<1>6. ASSUME NEW r \in Reqs, Restart(r) PROVE AliveIsRegistered'
  BY <1>6, InstallAssumption
     DEF AliveIsRegistered, DownIsDown, ServerType, Loops, Restart, Stopped, serverVars,
         sweepVars
<1>7. ASSUME NEW x \in Loops, LoopEnds(x) PROVE AliveIsRegistered'
  BY <1>7, InstallAssumption
     DEF AliveIsRegistered, DownIsDown, ServerType, Loops, LoopEnds, serverVars, sweepVars
<1>8. ASSUME Start PROVE AliveIsRegistered'
  BY <1>8, InstallAssumption
     DEF AliveIsRegistered, DownIsDown, ServerType, Loops, Start, Installed, serverVars,
         sweepVars
<1>9. ASSUME Signal PROVE AliveIsRegistered'
  BY <1>9, InstallAssumption
     DEF AliveIsRegistered, DownIsDown, ServerType, Loops, Signal, serverVars, sweepVars
<1>10. ASSUME Drain PROVE AliveIsRegistered'
  BY <1>10, InstallAssumption
     DEF AliveIsRegistered, DownIsDown, ServerType, Loops, Drain, serverVars, sweepVars
<1>11. ASSUME StopLock PROVE AliveIsRegistered'
  BY <1>11, InstallAssumption
     DEF AliveIsRegistered, DownIsDown, ServerType, Loops, StopLock, Cancel, serverVars,
         sweepVars
<1>12. ASSUME StopReturns PROVE AliveIsRegistered'
  BY <1>12, InstallAssumption
     DEF AliveIsRegistered, DownIsDown, ServerType, Loops, StopReturns, Stopped, serverVars,
         sweepVars
<1>13. ASSUME Exit PROVE AliveIsRegistered'
  <2>1. PICK killed \in SUBSET Reqs : Gone(killed)
    BY <1>13 DEF Exit
  <2>. QED
    BY <2>1, InstallAssumption
       DEF AliveIsRegistered, DownIsDown, ServerType, Loops, Gone, serverVars, sweepVars
<1>14. ASSUME Crash PROVE AliveIsRegistered'
  <2>1. PICK killed \in SUBSET Reqs : Gone(killed)
    BY <1>14 DEF Crash
  <2>. QED
    BY <2>1, InstallAssumption
       DEF AliveIsRegistered, DownIsDown, ServerType, Loops, Gone, serverVars, sweepVars
<1>. QED
  BY <1>1, <1>2, <1>3, <1>4, <1>5, <1>6, <1>7, <1>8, <1>9, <1>10, <1>11, <1>12,
        <1>13, <1>14
     DEF Next, ReqStep, InstallStep, ActivateStep, ShowStep, ShutdownStep

\* A process that is down has no loop.
LEMMA DownStep ==
    ASSUME DownIsDown, DrainedIsServed, OnlyWebActivates, [Next]_vars
    PROVE  DownIsDown'
<1>1. ASSUME NEW r \in Reqs,
            Begin(r) \/ StatConfig(r) \/ ReadMarker(r) \/ ReadSecret(r)
            \/ Recheck(r) \/ Preflight(r) \/ Generate(r) \/ Commit(r) \/ Verify(r)
            \/ Mark(r) \/ MarkWrite(r) \/ Undo(r) \/ Load(r) \/ Parse(r)
            \/ RestartLock(r) \/ Store(r) \/ Claim(r) \/ ClaimOpen(r)
            \/ ClaimWrite(r) \/ Render(r)
     PROVE  UNCHANGED <<phase, registered>>
  BY <1>1 DEF Begin, StatConfig, ReadMarker, ReadSecret, Recheck, Preflight, Generate,
        Commit, Verify, Mark, MarkWrite, Undo, Load, Parse, RestartLock, Store, Claim,
        ClaimOpen, ClaimWrite, Render, Probe, Unprobe, serverVars, sweepVars
<1>2. ASSUME (\E x \in Loops : LoopEnds(x)) \/ HandWrite \/ HandDelete
     PROVE  UNCHANGED <<phase, registered>>
  BY <1>2 DEF LoopEnds, HandWrite, HandDelete, Edit, serverVars, sweepVars
<1>3. ASSUME UNCHANGED <<phase, registered>> PROVE DownIsDown'
  BY <1>3 DEF DownIsDown
<1>4. CASE UNCHANGED vars
  BY <1>3, <1>4 DEF vars, serverVars, sweepVars
<1>5. ASSUME NEW r \in Reqs, Restart(r) PROVE DownIsDown'
  BY <1>5
     DEF DrainedIsServed, Served, OnlyWebActivates, Activate, Ended, Restart, At, serverVars,
         DownIsDown
<1>6. ASSUME Start PROVE DownIsDown'
  BY <1>6 DEF DownIsDown, Start, Installed, serverVars, sweepVars
<1>7. ASSUME Signal PROVE DownIsDown'
  BY <1>7 DEF DownIsDown, Signal, serverVars, sweepVars
<1>8. ASSUME Drain PROVE DownIsDown'
  BY <1>8 DEF DownIsDown, Drain, serverVars, sweepVars
<1>9. ASSUME StopLock PROVE DownIsDown'
  BY <1>9 DEF DownIsDown, StopLock, Cancel, serverVars, sweepVars
<1>10. ASSUME StopReturns PROVE DownIsDown'
  BY <1>10 DEF DownIsDown, StopReturns, Stopped, serverVars, sweepVars
<1>11. ASSUME Exit PROVE DownIsDown'
  <2>1. PICK killed \in SUBSET Reqs : Gone(killed)
    BY <1>11 DEF Exit
  <2>. QED
    BY <2>1 DEF DownIsDown, Gone, serverVars, sweepVars
<1>12. ASSUME Crash PROVE DownIsDown'
  <2>1. PICK killed \in SUBSET Reqs : Gone(killed)
    BY <1>12 DEF Crash
  <2>. QED
    BY <2>1 DEF DownIsDown, Gone, serverVars, sweepVars
<1>. QED
  BY <1>1, <1>2, <1>3, <1>4, <1>5, <1>6, <1>7, <1>8, <1>9, <1>10, <1>11, <1>12
     DEF Next, ReqStep, InstallStep, ActivateStep, ShowStep, ShutdownStep

\* After a drain that did not give up, no handler runs.
LEMMA DrainStep ==
    ASSUME DrainedIsServed, PcType, LocalType, [Next]_vars
    PROVE  DrainedIsServed'
<1>1. ASSUME NEW r \in Reqs, Begin(r) PROVE DrainedIsServed'
  BY <1>1
     DEF DrainedIsServed, Served, Web, Ended, PcType, LocalType, Begin, At, serverVars,
         localVars, histVars, endVars
<1>2. ASSUME NEW r \in Reqs, StatConfig(r) PROVE DrainedIsServed'
  BY <1>2
     DEF DrainedIsServed, Served, Web, Ended, PcType, LocalType, StatConfig, At, serverVars,
         localVars, histVars, endVars
<1>3. ASSUME NEW r \in Reqs, ReadMarker(r) PROVE DrainedIsServed'
  BY <1>3
     DEF DrainedIsServed, Served, Web, Ended, PcType, LocalType, ReadMarker, At, serverVars,
         localVars, histVars, endVars
<1>4. ASSUME NEW r \in Reqs, ReadSecret(r) PROVE DrainedIsServed'
  BY <1>4
     DEF DrainedIsServed, Served, Web, Ended, PcType, LocalType, ReadSecret, At, serverVars,
         localVars, histVars, endVars
<1>5. ASSUME NEW r \in Reqs, Recheck(r) PROVE DrainedIsServed'
  BY <1>5
     DEF DrainedIsServed, Served, Web, Ended, PcType, LocalType, Recheck, At, serverVars,
         localVars, histVars, endVars
<1>6. ASSUME NEW r \in Reqs, Preflight(r) PROVE DrainedIsServed'
  BY <1>6
     DEF DrainedIsServed, Served, Web, Ended, PcType, LocalType, Preflight, Probe, Unprobe, At,
         serverVars, localVars, histVars, endVars
<1>7. ASSUME NEW r \in Reqs, Generate(r) PROVE DrainedIsServed'
  BY <1>7
     DEF DrainedIsServed, Served, Web, Ended, PcType, LocalType, Generate, At, serverVars,
         localVars, histVars, endVars
<1>8. ASSUME NEW r \in Reqs, Commit(r) PROVE DrainedIsServed'
  BY <1>8
     DEF DrainedIsServed, Served, Web, Ended, PcType, LocalType, Commit, At, serverVars,
         localVars, histVars, endVars
<1>9. ASSUME NEW r \in Reqs, Verify(r) PROVE DrainedIsServed'
  BY <1>9
     DEF DrainedIsServed, Served, Web, Ended, PcType, LocalType, Verify, At, serverVars,
         localVars, histVars, endVars
<1>10. ASSUME NEW r \in Reqs, Mark(r) PROVE DrainedIsServed'
  BY <1>10
     DEF DrainedIsServed, Served, Web, Ended, PcType, LocalType, Mark, At, serverVars,
         localVars, histVars, endVars
<1>11. ASSUME NEW r \in Reqs, MarkWrite(r) PROVE DrainedIsServed'
  BY <1>11
     DEF DrainedIsServed, Served, Web, Ended, PcType, LocalType, MarkWrite, At, serverVars,
         localVars, histVars, endVars
<1>12. ASSUME NEW r \in Reqs, Undo(r) PROVE DrainedIsServed'
  BY <1>12
     DEF DrainedIsServed, Served, Web, Ended, PcType, LocalType, Undo, At, serverVars,
         localVars, histVars, endVars
<1>13. ASSUME NEW r \in Reqs, Load(r) PROVE DrainedIsServed'
  BY <1>13
     DEF DrainedIsServed, Served, Web, Ended, PcType, LocalType, Load, Read, At, serverVars,
         localVars, histVars, endVars
<1>14. ASSUME NEW r \in Reqs, Parse(r) PROVE DrainedIsServed'
  BY <1>14
     DEF DrainedIsServed, Served, Web, Ended, PcType, LocalType, Parse, At, serverVars,
         localVars, histVars, endVars
<1>15. ASSUME NEW r \in Reqs, RestartLock(r) PROVE DrainedIsServed'
  BY <1>15
     DEF DrainedIsServed, Served, Web, Ended, PcType, LocalType, RestartLock, Cancel, At,
         serverVars, localVars, histVars, endVars
<1>16. ASSUME NEW r \in Reqs, Restart(r) PROVE DrainedIsServed'
  BY <1>16
     DEF DrainedIsServed, Served, Web, Ended, PcType, LocalType, Restart, Stopped, At,
         serverVars, localVars, histVars, endVars
<1>17. ASSUME NEW r \in Reqs, Store(r) PROVE DrainedIsServed'
  BY <1>17
     DEF DrainedIsServed, Served, Web, Ended, PcType, LocalType, Store, At, serverVars,
         localVars, histVars, endVars
<1>18. ASSUME NEW r \in Reqs, Claim(r) PROVE DrainedIsServed'
  BY <1>18
     DEF DrainedIsServed, Served, Web, Ended, PcType, LocalType, Claim, At, serverVars,
         localVars, histVars, endVars
<1>19. ASSUME NEW r \in Reqs, ClaimOpen(r) PROVE DrainedIsServed'
  BY <1>19
     DEF DrainedIsServed, Served, Web, Ended, PcType, LocalType, ClaimOpen, At, serverVars,
         localVars, histVars, endVars
<1>20. ASSUME NEW r \in Reqs, ClaimWrite(r) PROVE DrainedIsServed'
  BY <1>20
     DEF DrainedIsServed, Served, Web, Ended, PcType, LocalType, ClaimWrite, At, serverVars,
         localVars, histVars, endVars
<1>21. ASSUME NEW r \in Reqs, Render(r) PROVE DrainedIsServed'
  BY <1>21
     DEF DrainedIsServed, Served, Web, Ended, PcType, LocalType, Render, At, serverVars,
         localVars, histVars, endVars
<1>22. ASSUME NEW x \in Loops, LoopEnds(x) PROVE DrainedIsServed'
  BY <1>22
     DEF DrainedIsServed, Served, Web, Ended, PcType, LocalType, LoopEnds, serverVars,
         localVars, histVars, endVars
<1>23. ASSUME Start PROVE DrainedIsServed'
  BY <1>23
     DEF DrainedIsServed, Served, Web, Ended, PcType, LocalType, Start, Installed, serverVars,
         localVars, histVars, endVars
<1>24. ASSUME Signal PROVE DrainedIsServed'
  BY <1>24
     DEF DrainedIsServed, Served, Web, Ended, PcType, LocalType, Signal, serverVars, localVars,
         histVars, endVars
<1>25. ASSUME Drain PROVE DrainedIsServed'
  BY <1>25
     DEF DrainedIsServed, Served, Web, Ended, PcType, LocalType, Drain, serverVars, localVars,
         histVars, endVars
<1>26. ASSUME StopLock PROVE DrainedIsServed'
  BY <1>26
     DEF DrainedIsServed, Served, Web, Ended, PcType, LocalType, StopLock, Cancel, serverVars,
         localVars, histVars, endVars
<1>27. ASSUME StopReturns PROVE DrainedIsServed'
  BY <1>27
     DEF DrainedIsServed, Served, Web, Ended, PcType, LocalType, StopReturns, Stopped,
         serverVars, localVars, histVars, endVars
<1>28. ASSUME Exit PROVE DrainedIsServed'
  <2>1. PICK killed \in SUBSET Reqs : Gone(killed) /\ \A r \in Reqs : Web(r) => r \in killed \/ pc[r] \in {"idle"} \cup Ended
    BY <1>28 DEF Exit, Running, Web, Ended
  <2>. QED
    BY <2>1
       DEF DrainedIsServed, Served, Web, Ended, PcType, LocalType, Gone, serverVars, localVars,
           histVars, endVars
<1>29. ASSUME Crash PROVE DrainedIsServed'
  <2>1. PICK killed \in SUBSET Reqs : Gone(killed) /\ \A r \in Reqs : Web(r) => r \in killed \/ pc[r] \in {"idle"} \cup Ended
    BY <1>29 DEF Crash, Running, Web, Ended
  <2>. QED
    BY <2>1
       DEF DrainedIsServed, Served, Web, Ended, PcType, LocalType, Gone, serverVars, localVars,
           histVars, endVars
<1>30. ASSUME HandWrite PROVE DrainedIsServed'
  BY <1>30
     DEF DrainedIsServed, Served, Web, Ended, PcType, LocalType, HandWrite, Edit, serverVars,
         localVars, histVars, endVars
<1>31. ASSUME HandDelete PROVE DrainedIsServed'
  BY <1>31
     DEF DrainedIsServed, Served, Web, Ended, PcType, LocalType, HandDelete, Edit, serverVars,
         localVars, histVars, endVars
<1>32. CASE UNCHANGED vars
  BY <1>32
     DEF DrainedIsServed, Served, Web, Ended, PcType, LocalType, vars, serverVars, localVars,
         histVars, endVars
<1>. QED
  BY <1>1, <1>2, <1>3, <1>4, <1>5, <1>6, <1>7, <1>8, <1>9, <1>10, <1>11, <1>12, <1>13, <1>14, <1>15, <1>16, <1>17, <1>18, <1>19, <1>20, <1>21, <1>22, <1>23, <1>24, <1>25, <1>26, <1>27, <1>28, <1>29, <1>30, <1>31, <1>32
     DEF Next, ReqStep, InstallStep, ActivateStep, ShowStep, ShutdownStep

\* A process about to exit has no loop, unless its drain gave up.
LEMMA SweptStep ==
    ASSUME ExitingIsSwept, DrainedIsServed, OnlyWebActivates, AliveIsRegistered, ServerType, [Next]_vars
    PROVE  ExitingIsSwept'
<1>1. ASSUME NEW r \in Reqs,
            Begin(r) \/ StatConfig(r) \/ ReadMarker(r) \/ ReadSecret(r)
            \/ Recheck(r) \/ Preflight(r) \/ Generate(r) \/ Commit(r) \/ Verify(r)
            \/ Mark(r) \/ MarkWrite(r) \/ Undo(r) \/ Load(r) \/ Parse(r)
            \/ Store(r) \/ Claim(r) \/ ClaimOpen(r) \/ ClaimWrite(r) \/ Render(r)
     PROVE  UNCHANGED <<phase, loop, timedOut>>
  BY <1>1 DEF Begin, StatConfig, ReadMarker, ReadSecret, Recheck, Preflight, Generate,
        Commit, Verify, Mark, MarkWrite, Undo, Load, Parse, Store, Claim, ClaimOpen,
        ClaimWrite, Render, Probe, Unprobe, serverVars, sweepVars, histVars, endVars
<1>2. ASSUME HandWrite \/ HandDelete
     PROVE  UNCHANGED <<phase, loop, timedOut>>
  BY <1>2 DEF HandWrite, HandDelete, Edit, serverVars, sweepVars, histVars, endVars
<1>3. ASSUME UNCHANGED <<phase, loop, timedOut>> PROVE ExitingIsSwept'
  BY <1>3 DEF ExitingIsSwept
<1>4. CASE UNCHANGED vars
  BY <1>3, <1>4 DEF vars, serverVars, sweepVars, histVars, endVars
<1>5. ASSUME NEW r \in Reqs, RestartLock(r) PROVE ExitingIsSwept'
  BY <1>5 DEF ExitingIsSwept, Loops, RestartLock, Cancel, serverVars, sweepVars, histVars, endVars
<1>6. ASSUME NEW r \in Reqs, Restart(r) PROVE ExitingIsSwept'
  BY <1>6
     DEF DrainedIsServed, Served, OnlyWebActivates, Activate, Ended, Restart, At, serverVars,
         ExitingIsSwept, histVars, endVars
<1>7. ASSUME NEW x \in Loops, LoopEnds(x) PROVE ExitingIsSwept'
  BY <1>7 DEF ExitingIsSwept, Loops, LoopEnds, serverVars, sweepVars, histVars, endVars
<1>8. ASSUME Start PROVE ExitingIsSwept'
  BY <1>8 DEF ExitingIsSwept, Loops, Start, Installed, serverVars, sweepVars, histVars, endVars
<1>9. ASSUME Signal PROVE ExitingIsSwept'
  BY <1>9 DEF ExitingIsSwept, Loops, Signal, serverVars, sweepVars, histVars, endVars
<1>10. ASSUME Drain PROVE ExitingIsSwept'
  BY <1>10 DEF ExitingIsSwept, Loops, Drain, serverVars, sweepVars, histVars, endVars
<1>11. ASSUME StopLock PROVE ExitingIsSwept'
  BY <1>11 DEF ExitingIsSwept, Loops, StopLock, Cancel, serverVars, sweepVars, histVars, endVars
<1>12. ASSUME StopReturns PROVE ExitingIsSwept'
  BY <1>12 DEF StopReturns, Stopped, AliveIsRegistered, ServerType, ExitingIsSwept
<1>13. ASSUME Exit PROVE ExitingIsSwept'
  <2>1. PICK killed \in SUBSET Reqs : Gone(killed)
    BY <1>13 DEF Exit
  <2>. QED
    BY <2>1 DEF ExitingIsSwept, Loops, Gone, serverVars, sweepVars, histVars, endVars
<1>14. ASSUME Crash PROVE ExitingIsSwept'
  <2>1. PICK killed \in SUBSET Reqs : Gone(killed)
    BY <1>14 DEF Crash
  <2>. QED
    BY <2>1 DEF ExitingIsSwept, Loops, Gone, serverVars, sweepVars, histVars, endVars
<1>. QED
  BY <1>1, <1>2, <1>3, <1>4, <1>5, <1>6, <1>7, <1>8, <1>9, <1>10, <1>11, <1>12,
        <1>13, <1>14
     DEF Next, ReqStep, InstallStep, ActivateStep, ShowStep, ShutdownStep

\* So the exit abandons none.
LEMMA FinishStep ==
    ASSUME SweepsFinish, ExitingIsSwept, [Next]_vars
    PROVE  SweepsFinish'
<1>1. ASSUME NEW r \in Reqs,
            Begin(r) \/ StatConfig(r) \/ ReadMarker(r) \/ ReadSecret(r)
            \/ Recheck(r) \/ Preflight(r) \/ Generate(r) \/ Commit(r) \/ Verify(r)
            \/ Mark(r) \/ MarkWrite(r) \/ Undo(r) \/ Load(r) \/ Parse(r)
            \/ RestartLock(r) \/ Restart(r) \/ Store(r) \/ Claim(r)
            \/ ClaimOpen(r) \/ ClaimWrite(r) \/ Render(r)
     PROVE  UNCHANGED endVars
  BY <1>1 DEF Begin, StatConfig, ReadMarker, ReadSecret, Recheck, Preflight, Generate,
        Commit, Verify, Mark, MarkWrite, Undo, Load, Parse, RestartLock, Restart, Store,
        Claim, ClaimOpen, ClaimWrite, Render, Probe, Unprobe, histVars, endVars
<1>2. ASSUME (\E x \in Loops : LoopEnds(x)) \/ Start \/ Signal \/ StopLock \/ StopReturns \/ HandWrite
            \/ HandDelete
     PROVE  UNCHANGED endVars
  BY <1>2 DEF LoopEnds, Start, Signal, StopLock, StopReturns, HandWrite, HandDelete,
        Edit, histVars, endVars
<1>3. ASSUME UNCHANGED endVars PROVE SweepsFinish'
  BY <1>3 DEF SweepsFinish, histVars, endVars
<1>4. CASE UNCHANGED vars
  BY <1>3, <1>4 DEF vars, histVars, endVars
<1>5. ASSUME Drain PROVE SweepsFinish'
  BY <1>5 DEF SweepsFinish, Drain, histVars, endVars
<1>6. ASSUME Exit PROVE SweepsFinish'
  BY <1>6 DEF Exit, Gone, ExitingIsSwept, SweepsFinish
<1>7. ASSUME Crash PROVE SweepsFinish'
  <2>1. PICK killed \in SUBSET Reqs : Gone(killed) /\ UNCHANGED abandoned
    BY <1>7 DEF Crash
  <2>. QED
    BY <2>1 DEF Gone, SweepsFinish
<1>. QED
  BY <1>1, <1>2, <1>3, <1>4, <1>5, <1>6, <1>7
     DEF Next, ReqStep, InstallStep, ActivateStep, ShowStep, ShutdownStep

-----------------------------------------------------------------------------
(* The config file of a refused install. *)

\* A config of r's does not exist before r commits it.
LEMMA WrittenStep ==
    ASSUME NotYetWritten, PcType, DiskType, [Next]_vars
    PROVE  NotYetWritten'
<1>1. ASSUME NEW r \in Reqs, Begin(r) PROVE NotYetWritten'
  BY <1>1, InstallAssumption DEF NotYetWritten, Uncommitted, PcType, Begin, At, diskVars
<1>2. ASSUME NEW r \in Reqs, StatConfig(r) PROVE NotYetWritten'
  BY <1>2, InstallAssumption DEF NotYetWritten, Uncommitted, PcType, StatConfig, At, diskVars
<1>3. ASSUME NEW r \in Reqs, ReadMarker(r) PROVE NotYetWritten'
  BY <1>3, InstallAssumption DEF NotYetWritten, Uncommitted, PcType, ReadMarker, At, diskVars
<1>4. ASSUME NEW r \in Reqs, ReadSecret(r) PROVE NotYetWritten'
  BY <1>4, InstallAssumption DEF NotYetWritten, Uncommitted, PcType, ReadSecret, At, diskVars
<1>5. ASSUME NEW r \in Reqs, Recheck(r) PROVE NotYetWritten'
  BY <1>5, InstallAssumption DEF NotYetWritten, Uncommitted, PcType, Recheck, At, diskVars
<1>6. ASSUME NEW r \in Reqs, Preflight(r) PROVE NotYetWritten'
  BY <1>6, InstallAssumption
     DEF NotYetWritten, Uncommitted, PcType, Preflight, Probe, Unprobe, At, diskVars
<1>7. ASSUME NEW r \in Reqs, Generate(r) PROVE NotYetWritten'
  BY <1>7, InstallAssumption DEF NotYetWritten, Uncommitted, PcType, Generate, At, diskVars
<1>8. ASSUME NEW r \in Reqs, Commit(r) PROVE NotYetWritten'
  BY <1>8, InstallAssumption DEF NotYetWritten, Uncommitted, PcType, Commit, At, diskVars
<1>9. ASSUME NEW r \in Reqs, Verify(r) PROVE NotYetWritten'
  BY <1>9, InstallAssumption DEF NotYetWritten, Uncommitted, PcType, Verify, At, diskVars
<1>10. ASSUME NEW r \in Reqs, Mark(r) PROVE NotYetWritten'
  BY <1>10, InstallAssumption DEF NotYetWritten, Uncommitted, PcType, Mark, At, diskVars
<1>11. ASSUME NEW r \in Reqs, MarkWrite(r) PROVE NotYetWritten'
  BY <1>11, InstallAssumption DEF NotYetWritten, Uncommitted, PcType, MarkWrite, At, diskVars
<1>12. ASSUME NEW r \in Reqs, Undo(r) PROVE NotYetWritten'
  BY <1>12, InstallAssumption DEF NotYetWritten, Uncommitted, PcType, Undo, At, diskVars
<1>13. ASSUME NEW r \in Reqs, Load(r) PROVE NotYetWritten'
  BY <1>13, InstallAssumption DEF NotYetWritten, Uncommitted, PcType, Load, Read, At, diskVars
<1>14. ASSUME NEW r \in Reqs, Parse(r) PROVE NotYetWritten'
  BY <1>14, InstallAssumption DEF NotYetWritten, Uncommitted, PcType, Parse, At, diskVars
<1>15. ASSUME NEW r \in Reqs, RestartLock(r) PROVE NotYetWritten'
  BY <1>15, InstallAssumption
     DEF NotYetWritten, Uncommitted, PcType, RestartLock, Cancel, At, diskVars
<1>16. ASSUME NEW r \in Reqs, Restart(r) PROVE NotYetWritten'
  BY <1>16, InstallAssumption DEF NotYetWritten, Uncommitted, PcType, Restart, Stopped, At, diskVars
<1>17. ASSUME NEW r \in Reqs, Store(r) PROVE NotYetWritten'
  BY <1>17, InstallAssumption DEF NotYetWritten, Uncommitted, PcType, Store, At, diskVars
<1>18. ASSUME NEW r \in Reqs, Claim(r) PROVE NotYetWritten'
  BY <1>18, InstallAssumption DEF NotYetWritten, Uncommitted, PcType, Claim, At, diskVars
<1>19. ASSUME NEW r \in Reqs, ClaimOpen(r) PROVE NotYetWritten'
  BY <1>19, InstallAssumption DEF NotYetWritten, Uncommitted, PcType, ClaimOpen, At, diskVars
<1>20. ASSUME NEW r \in Reqs, ClaimWrite(r) PROVE NotYetWritten'
  BY <1>20, InstallAssumption DEF NotYetWritten, Uncommitted, PcType, ClaimWrite, At, diskVars
<1>21. ASSUME NEW r \in Reqs, Render(r) PROVE NotYetWritten'
  BY <1>21, InstallAssumption DEF NotYetWritten, Uncommitted, PcType, Render, At, diskVars
<1>22. ASSUME NEW x \in Loops, LoopEnds(x) PROVE NotYetWritten'
  BY <1>22, InstallAssumption DEF NotYetWritten, Uncommitted, PcType, LoopEnds, diskVars
<1>23. ASSUME Start PROVE NotYetWritten'
  BY <1>23, InstallAssumption DEF NotYetWritten, Uncommitted, PcType, Start, Installed, diskVars
<1>24. ASSUME Signal PROVE NotYetWritten'
  BY <1>24, InstallAssumption DEF NotYetWritten, Uncommitted, PcType, Signal, diskVars
<1>25. ASSUME Drain PROVE NotYetWritten'
  BY <1>25, InstallAssumption DEF NotYetWritten, Uncommitted, PcType, Drain, diskVars
<1>26. ASSUME StopLock PROVE NotYetWritten'
  BY <1>26, InstallAssumption DEF NotYetWritten, Uncommitted, PcType, StopLock, Cancel, diskVars
<1>27. ASSUME StopReturns PROVE NotYetWritten'
  BY <1>27, InstallAssumption DEF NotYetWritten, Uncommitted, PcType, StopReturns, Stopped, diskVars
<1>28. ASSUME Exit PROVE NotYetWritten'
  <2>1. PICK killed \in SUBSET Reqs : Gone(killed)
    BY <1>28 DEF Exit
  <2>. QED
    BY <2>1, InstallAssumption DEF NotYetWritten, Uncommitted, PcType, Gone, diskVars
<1>29. ASSUME Crash PROVE NotYetWritten'
  <2>1. PICK killed \in SUBSET Reqs : Gone(killed)
    BY <1>29 DEF Crash
  <2>. QED
    BY <2>1, InstallAssumption DEF NotYetWritten, Uncommitted, PcType, Gone, diskVars
<1>30. ASSUME HandWrite PROVE NotYetWritten'
  BY <1>30, InstallAssumption DEF NotYetWritten, Uncommitted, PcType, HandWrite, Edit, diskVars
<1>31. ASSUME HandDelete PROVE NotYetWritten'
  BY <1>31, InstallAssumption DEF NotYetWritten, Uncommitted, PcType, HandDelete, Edit, diskVars
<1>32. CASE UNCHANGED vars
  BY <1>32, InstallAssumption DEF NotYetWritten, Uncommitted, PcType, vars, diskVars
<1>. QED
  BY <1>1, <1>2, <1>3, <1>4, <1>5, <1>6, <1>7, <1>8, <1>9, <1>10, <1>11, <1>12, <1>13, <1>14, <1>15, <1>16, <1>17, <1>18, <1>19, <1>20, <1>21, <1>22, <1>23, <1>24, <1>25, <1>26, <1>27, <1>28, <1>29, <1>30, <1>31, <1>32
     DEF Next, ReqStep, InstallStep, ActivateStep, ShowStep, ShutdownStep

\* Nor after r was refused.
LEMMA RefusedStep ==
    ASSUME RefusedLeavesNothing, NotYetWritten, PcType, [Next]_vars
    PROVE  RefusedLeavesNothing'
<1>1. ASSUME NEW r \in Reqs, Begin(r) PROVE RefusedLeavesNothing'
  BY <1>1, InstallAssumption
     DEF RefusedLeavesNothing, NotYetWritten, Uncommitted, PcType, Begin, At, diskVars,
         histVars
<1>2. ASSUME NEW r \in Reqs, StatConfig(r) PROVE RefusedLeavesNothing'
  BY <1>2, InstallAssumption
     DEF RefusedLeavesNothing, NotYetWritten, Uncommitted, PcType, StatConfig, At, diskVars,
         histVars
<1>3. ASSUME NEW r \in Reqs, ReadMarker(r) PROVE RefusedLeavesNothing'
  BY <1>3, InstallAssumption
     DEF RefusedLeavesNothing, NotYetWritten, Uncommitted, PcType, ReadMarker, At, diskVars,
         histVars
<1>4. ASSUME NEW r \in Reqs, ReadSecret(r) PROVE RefusedLeavesNothing'
  BY <1>4, InstallAssumption
     DEF RefusedLeavesNothing, NotYetWritten, Uncommitted, PcType, ReadSecret, At, diskVars,
         histVars
<1>5. ASSUME NEW r \in Reqs, Recheck(r) PROVE RefusedLeavesNothing'
  BY <1>5, InstallAssumption
     DEF RefusedLeavesNothing, NotYetWritten, Uncommitted, PcType, Recheck, At, diskVars,
         histVars
<1>6. ASSUME NEW r \in Reqs, Preflight(r) PROVE RefusedLeavesNothing'
  BY <1>6, InstallAssumption
     DEF RefusedLeavesNothing, NotYetWritten, Uncommitted, PcType, Preflight, Probe, Unprobe,
         At, diskVars, histVars
<1>7. ASSUME NEW r \in Reqs, Generate(r) PROVE RefusedLeavesNothing'
  BY <1>7, InstallAssumption
     DEF RefusedLeavesNothing, NotYetWritten, Uncommitted, PcType, Generate, At, diskVars,
         histVars
<1>8. ASSUME NEW r \in Reqs, Commit(r) PROVE RefusedLeavesNothing'
  BY <1>8, InstallAssumption
     DEF RefusedLeavesNothing, NotYetWritten, Uncommitted, PcType, Commit, At, diskVars,
         histVars
<1>9. ASSUME NEW r \in Reqs, Verify(r) PROVE RefusedLeavesNothing'
  BY <1>9, InstallAssumption
     DEF RefusedLeavesNothing, NotYetWritten, Uncommitted, PcType, Verify, At, diskVars,
         histVars
<1>10. ASSUME NEW r \in Reqs, Mark(r) PROVE RefusedLeavesNothing'
  BY <1>10, InstallAssumption
     DEF RefusedLeavesNothing, NotYetWritten, Uncommitted, PcType, Mark, At, diskVars,
         histVars
<1>11. ASSUME NEW r \in Reqs, MarkWrite(r) PROVE RefusedLeavesNothing'
  BY <1>11, InstallAssumption
     DEF RefusedLeavesNothing, NotYetWritten, Uncommitted, PcType, MarkWrite, At, diskVars,
         histVars
<1>12. ASSUME NEW r \in Reqs, Undo(r) PROVE RefusedLeavesNothing'
  BY <1>12, InstallAssumption
     DEF RefusedLeavesNothing, NotYetWritten, Uncommitted, PcType, Undo, At, diskVars,
         histVars
<1>13. ASSUME NEW r \in Reqs, Load(r) PROVE RefusedLeavesNothing'
  BY <1>13, InstallAssumption
     DEF RefusedLeavesNothing, NotYetWritten, Uncommitted, PcType, Load, Read, At, diskVars,
         histVars
<1>14. ASSUME NEW r \in Reqs, Parse(r) PROVE RefusedLeavesNothing'
  BY <1>14, InstallAssumption
     DEF RefusedLeavesNothing, NotYetWritten, Uncommitted, PcType, Parse, At, diskVars,
         histVars
<1>15. ASSUME NEW r \in Reqs, RestartLock(r) PROVE RefusedLeavesNothing'
  BY <1>15, InstallAssumption
     DEF RefusedLeavesNothing, NotYetWritten, Uncommitted, PcType, RestartLock, Cancel, At,
         diskVars, histVars
<1>16. ASSUME NEW r \in Reqs, Restart(r) PROVE RefusedLeavesNothing'
  BY <1>16, InstallAssumption
     DEF RefusedLeavesNothing, NotYetWritten, Uncommitted, PcType, Restart, Stopped, At,
         diskVars, histVars
<1>17. ASSUME NEW r \in Reqs, Store(r) PROVE RefusedLeavesNothing'
  BY <1>17, InstallAssumption
     DEF RefusedLeavesNothing, NotYetWritten, Uncommitted, PcType, Store, At, diskVars,
         histVars
<1>18. ASSUME NEW r \in Reqs, Claim(r) PROVE RefusedLeavesNothing'
  BY <1>18, InstallAssumption
     DEF RefusedLeavesNothing, NotYetWritten, Uncommitted, PcType, Claim, At, diskVars,
         histVars
<1>19. ASSUME NEW r \in Reqs, ClaimOpen(r) PROVE RefusedLeavesNothing'
  BY <1>19, InstallAssumption
     DEF RefusedLeavesNothing, NotYetWritten, Uncommitted, PcType, ClaimOpen, At, diskVars,
         histVars
<1>20. ASSUME NEW r \in Reqs, ClaimWrite(r) PROVE RefusedLeavesNothing'
  BY <1>20, InstallAssumption
     DEF RefusedLeavesNothing, NotYetWritten, Uncommitted, PcType, ClaimWrite, At, diskVars,
         histVars
<1>21. ASSUME NEW r \in Reqs, Render(r) PROVE RefusedLeavesNothing'
  BY <1>21, InstallAssumption
     DEF RefusedLeavesNothing, NotYetWritten, Uncommitted, PcType, Render, At, diskVars,
         histVars
<1>22. ASSUME NEW x \in Loops, LoopEnds(x) PROVE RefusedLeavesNothing'
  BY <1>22, InstallAssumption
     DEF RefusedLeavesNothing, NotYetWritten, Uncommitted, PcType, LoopEnds, diskVars,
         histVars
<1>23. ASSUME Start PROVE RefusedLeavesNothing'
  BY <1>23, InstallAssumption
     DEF RefusedLeavesNothing, NotYetWritten, Uncommitted, PcType, Start, Installed, diskVars,
         histVars
<1>24. ASSUME Signal PROVE RefusedLeavesNothing'
  BY <1>24, InstallAssumption
     DEF RefusedLeavesNothing, NotYetWritten, Uncommitted, PcType, Signal, diskVars, histVars
<1>25. ASSUME Drain PROVE RefusedLeavesNothing'
  BY <1>25, InstallAssumption
     DEF RefusedLeavesNothing, NotYetWritten, Uncommitted, PcType, Drain, diskVars, histVars
<1>26. ASSUME StopLock PROVE RefusedLeavesNothing'
  BY <1>26, InstallAssumption
     DEF RefusedLeavesNothing, NotYetWritten, Uncommitted, PcType, StopLock, Cancel, diskVars,
         histVars
<1>27. ASSUME StopReturns PROVE RefusedLeavesNothing'
  BY <1>27, InstallAssumption
     DEF RefusedLeavesNothing, NotYetWritten, Uncommitted, PcType, StopReturns, Stopped,
         diskVars, histVars
<1>28. ASSUME Exit PROVE RefusedLeavesNothing'
  <2>1. PICK killed \in SUBSET Reqs : Gone(killed)
    BY <1>28 DEF Exit
  <2>. QED
    BY <2>1, InstallAssumption
       DEF RefusedLeavesNothing, NotYetWritten, Uncommitted, PcType, Gone, diskVars, histVars
<1>29. ASSUME Crash PROVE RefusedLeavesNothing'
  <2>1. PICK killed \in SUBSET Reqs : Gone(killed)
    BY <1>29 DEF Crash
  <2>. QED
    BY <2>1, InstallAssumption
       DEF RefusedLeavesNothing, NotYetWritten, Uncommitted, PcType, Gone, diskVars, histVars
<1>30. ASSUME HandWrite PROVE RefusedLeavesNothing'
  BY <1>30, InstallAssumption
     DEF RefusedLeavesNothing, NotYetWritten, Uncommitted, PcType, HandWrite, Edit, diskVars,
         histVars
<1>31. ASSUME HandDelete PROVE RefusedLeavesNothing'
  BY <1>31, InstallAssumption
     DEF RefusedLeavesNothing, NotYetWritten, Uncommitted, PcType, HandDelete, Edit, diskVars,
         histVars
<1>32. CASE UNCHANGED vars
  BY <1>32, InstallAssumption
     DEF RefusedLeavesNothing, NotYetWritten, Uncommitted, PcType, vars, diskVars, histVars
<1>. QED
  BY <1>1, <1>2, <1>3, <1>4, <1>5, <1>6, <1>7, <1>8, <1>9, <1>10, <1>11, <1>12, <1>13, <1>14, <1>15, <1>16, <1>17, <1>18, <1>19, <1>20, <1>21, <1>22, <1>23, <1>24, <1>25, <1>26, <1>27, <1>28, <1>29, <1>30, <1>31, <1>32
     DEF Next, ReqStep, InstallStep, ActivateStep, ShowStep, ShutdownStep

-----------------------------------------------------------------------------
(* The theorems. *)

\* The initial states satisfy the invariant.
LEMMA InvInit == Init => Inv
<1> SUFFICES ASSUME Init PROVE Inv
  OBVIOUS
<1>1. PcType /\ MutexType /\ DiskType /\ ServerType
  BY StateNames, InstallAssumption
     DEF Init, PcType, MutexType, DiskType, ServerType, MarkerState, Keys, Loops
<1>2. LocalType /\ BoundType /\ HistType
  BY DEF Init, LocalType, BoundType, HistType
<1>3. OnlyWebActivates /\ KeyInHand
  BY DEF Init, OnlyWebActivates, KeyInHand, HasKey, Activate
<1>4. AliveIsRegistered /\ DownIsDown /\ DrainedIsServed /\ ExitingIsSwept /\ SweepsFinish
  BY DEF Init, AliveIsRegistered, DownIsDown, DrainedIsServed, Served, ExitingIsSwept,
         SweepsFinish, Loops
<1>5. NotYetWritten /\ RefusedLeavesNothing
  BY InstallAssumption DEF Init, NotYetWritten, RefusedLeavesNothing
<1>. QED
  BY <1>1, <1>2, <1>3, <1>4, <1>5, TypeParts DEF Inv

\* Every step preserves it.
LEMMA InvStep == Inv /\ [Next]_vars => Inv'
<1> SUFFICES ASSUME Inv, [Next]_vars PROVE Inv'
  OBVIOUS
<1>1. /\ PcType /\ MutexType /\ DiskType /\ ServerType /\ LocalType /\ BoundType /\ HistType
  BY TypeParts DEF Inv
<1>2. PcType' /\ DiskType' /\ ServerType' /\ LocalType' /\ BoundType'
  BY <1>1, PcStep, DiskStep, ServerStep, LocalStep, BoundStep
<1>3. MutexType' /\ OnlyWebActivates' /\ KeyInHand' /\ HistType'
  BY <1>1, MutexStep, WebStep, KeyStep, HistStep DEF Inv
<1>4. AliveIsRegistered' /\ DownIsDown' /\ DrainedIsServed' /\ ExitingIsSwept' /\ SweepsFinish'
  BY <1>1, AliveStep, DownStep, DrainStep, SweptStep, FinishStep DEF Inv
<1>5. NotYetWritten' /\ RefusedLeavesNothing'
  BY <1>1, WrittenStep, RefusedStep DEF Inv
<1>6. TypeOK'
  <2>1. PcType' /\ MutexType' /\ DiskType' /\ ServerType' /\ LocalType' /\ BoundType' /\ HistType'
    BY <1>2, <1>3
  <2>. QED
    BY <2>1 DEF TypeOK, PcType, MutexType, DiskType, ServerType, LocalType, BoundType, HistType
<1>. QED
  BY <1>3, <1>4, <1>5, <1>6 DEF Inv

\* So it always holds.
LEMMA Invariant == Spec => []Inv
  BY InvInit, InvStep, PTL DEF Spec

(* The sweeper's mutex has one holder, who is waiting for a loop to end, and *)
(* every other variable has its type.                                       *)
THEOREM TypeCorrect == Spec => []TypeOK
<1>1. Inv => TypeOK
  BY DEF Inv
<1>. QED
  BY <1>1, Invariant, PTL

(* However many installs, shutdowns and crashes overlap, sweeper.restart and *)
(* sweeper.stop leave at most one sweep loop alive.                         *)
THEOREM NeverTwoLoops == Spec => []OneLoop
<1>1. Inv => OneLoop
  BY DEF Inv, AliveIsRegistered, OneLoop
<1>. QED
  BY <1>1, Invariant, PTL

(* An exit abandons a running sweep only after a shutdown that timed out.    *)
THEOREM OrderlyExit == Spec => []SweepsFinish
<1>1. Inv => SweepsFinish
  BY DEF Inv
<1>. QED
  BY <1>1, Invariant, PTL

(* A refused install leaves no config of its own, whatever else is installed *)
(* at the same time, if the file it removes can be removed.                 *)
THEOREM NothingWritten == Spec => []RefusedLeavesNothing
<1>1. Inv => RefusedLeavesNothing
  BY DEF Inv
<1>. QED
  BY <1>1, Invariant, PTL
=============================================================================
