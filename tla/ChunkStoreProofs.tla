-------------------------- MODULE ChunkStoreProofs --------------------------
(***************************************************************************)
(* Proofs about ChunkStore, for any chunks, sweeps and clients, any times,   *)
(* and any number of failures and crashes: no orphan blob, no chunk lost     *)
(* before its time, and a 204 that means what it says.                       *)
(***************************************************************************)
EXTENDS ChunkStore, TLAPS

\* A sweep that is deleting has not deleted its share yet.
WithinShare ==
    \A s \in Sweepers : Deleting(s) => count[s] < MaxDeletes

(* What an upload has on disk, by how far it got.                            *)
UploadOK(i) ==
    /\ up[i] \in InFlight \cup {"undo", "aborting", "failed"} => i \notin published
    /\ i \notin published => blob[i] = "none"
    /\ blob[i] \in {"none", "full"}
    /\ up[i] \in {"idle", "copying", "copied"} => meta[i] = "none"
    /\ up[i] \in {"copied", "sidecar", "ready"} => temp[i] \in {"none", "full"}
    /\ up[i] = "sidecar" /\ i \notin doomed => meta[i] = "torn"
    /\ up[i] = "ready" /\ i \notin doomed => meta[i] = "whole"

UploadInv == \A i \in Ids : UploadOK(i)

\* What p saw of its chunk is so, unless a stat failed, and can only change if a
\* sweep condemned the chunk in flight.
SawForGood(p) ==
    /\ p \in Clients \/ target[p] \notin doomed
    /\ target[p] \notin unseen

(* Whoever removes a chunk has a reason to, and what it saw still holds.     *)
DeleteOK(p) ==
    LET i == target[p] IN
    /\ Deleting(p) =>
          \/ i \in doomed
          \/ /\ up[i] \in Settled
             /\ i \notin published \/ IsExpired(i) \/ i \in asked \cup misread
    /\ SawForGood(p) =>
          /\ pc[p] = "statMeta" /\ ~sawBlob[p] => blob[i] = "none"
          /\ pc[p] = "rmBlob" /\ ~sawMeta[p] => meta[i] = "none"
          /\ pc[p] = "rmMeta" /\ blobGone[p] => blob[i] = "none"
          /\ pc[p] = "rmMeta" /\ i \notin stuck => blob[i] = "none"

DeleteInv == \A p \in Procs : DeleteOK(p)

(* A client works on a chunk whose upload is over.                           *)
ClientOK(c) ==
    /\ pc[c] # "idle" => up[target[c]] \in Settled
    /\ pc[c] = "existsMeta" => blob[target[c]] = "none" \/ target[c] \in unseen

ClientInv ==
    /\ \A c \in Clients : ClientOK(c)
    /\ \A i \in told204 : up[i] \in Settled

\* A sweep's time is not ahead of the clock.
SweepInv == \A s \in Sweepers : at[s] <= now

StoreInv ==
    /\ UploadInv
    /\ DeleteInv
    /\ ClientInv
    /\ SweepInv
    /\ PublishedIsKept
    /\ NoOrphanBlob
    /\ DeletedIsGone

-----------------------------------------------------------------------------
\* The part of TypeOK that Store.Delete's callers can change.
ProcTypes ==
    /\ pc \in [Procs -> SweepState \cup ClientState]
    /\ target \in [Procs -> Ids \cup {NoId}]
    /\ \A p \in Procs : target[p] = NoId <=> pc[p] \in {"idle", "scan"}
    /\ \A s \in Sweepers : pc[s] \in SweepState
    /\ \A c \in Clients : pc[c] \in ClientState
    /\ sawBlob \in [Procs -> BOOLEAN]
    /\ sawMeta \in [Procs -> BOOLEAN]
    /\ blobGone \in [Procs -> BOOLEAN]
    /\ count \in [Sweepers -> 0..MaxDeletes]
    /\ told204 \in SUBSET Ids
    /\ reclaims \in [Ids -> Nat]
    /\ WithinShare

(* A Delete that returns leaves its caller in a well-formed state.            *)
LEMMA ReturnTypes ==
    ASSUME TypeOK, WithinShare, NEW p \in Procs, Deleting(p), NEW ok \in BOOLEAN,
           Return(p, ok)
    PROVE  ProcTypes'
<1> USE ProcsAssumption, BoundsAssumption
<1> USE DEF TypeOK, WithinShare, Deleting, DeleteState, SweepState, ClientState, Procs
<1>1. target[p] \in Ids /\ NoId \notin Ids
  OBVIOUS
<1>2. reclaims' \in [Ids -> Nat]
  BY <1>1 DEF Return
<1>3. CASE p \in Sweepers
  <2>1. /\ pc' = [pc EXCEPT ![p] = "scan"]
        /\ count' = [count EXCEPT ![p] = IF ok THEN @ + 1 ELSE @]
        /\ Forget(p)
        /\ UNCHANGED told204
    BY <1>3 DEF Return
  <2>2. count' \in [Sweepers -> 0..MaxDeletes]
    BY <1>3, <2>1
  <2>3. WithinShare'
    BY <1>3, <2>1
  <2> QED
    BY <1>1, <1>2, <1>3, <2>1, <2>2, <2>3 DEF ProcTypes, Forget
<1>4. CASE p \in Clients /\ ok
  <2>1. /\ pc' = [pc EXCEPT ![p] = "idle"]
        /\ told204' = told204 \cup {target[p]}
        /\ Forget(p)
        /\ UNCHANGED count
    BY <1>4 DEF Return
  <2> QED
    BY <1>1, <1>2, <1>4, <2>1 DEF ProcTypes, Forget
<1>5. CASE p \in Clients /\ ~ok
  <2>1. /\ pc' = [pc EXCEPT ![p] = "existsBlob"]
        /\ UNCHANGED <<told204, target, sawBlob, sawMeta, blobGone, count>>
    BY <1>5 DEF Return
  <2> QED
    BY <1>1, <1>2, <1>5, <2>1 DEF ProcTypes
<1> QED
  BY <1>3, <1>4, <1>5

(* Every variable keeps its type, and no sweep exceeds gc.max_deletes.        *)
THEOREM TypeCorrect == Spec => [](TypeOK /\ WithinShare)
<1>1. Init => TypeOK /\ WithinShare
  BY ProcsAssumption, BoundsAssumption
     DEF Init, TypeOK, WithinShare, Deleting, DeleteState, UploadState, InFlight, SweepState,
         ClientState, Procs
<1>2. TypeOK /\ WithinShare /\ [Next]_vars => TypeOK' /\ WithinShare'
  <2> SUFFICES ASSUME TypeOK, WithinShare, [Next]_vars PROVE TypeOK' /\ WithinShare'
    OBVIOUS
  <2> USE ProcsAssumption, BoundsAssumption
  <2> USE DEF TypeOK, WithinShare, Deleting, DeleteState, UploadState, InFlight, Settled,
              SweepState, ClientState, Procs, diskVars, procVars, sweepVars, histVars,
              boundVars
  <2>1. ASSUME NEW i \in Ids, UploadBegin(i) PROVE TypeOK' /\ WithinShare'
    BY <2>1 DEF UploadBegin
  <2>2. ASSUME NEW i \in Ids, UploadSlice(i) PROVE TypeOK' /\ WithinShare'
    BY <2>2 DEF UploadSlice
  <2>3. ASSUME NEW i \in Ids, UploadCopied(i) PROVE TypeOK' /\ WithinShare'
    BY <2>3 DEF UploadCopied
  <2>4. ASSUME NEW i \in Ids, UploadCut(i) PROVE TypeOK' /\ WithinShare'
    BY <2>4 DEF UploadCut
  <2>5. ASSUME NEW i \in Ids, SidecarCreate(i) PROVE TypeOK' /\ WithinShare'
    BY <2>5 DEF SidecarCreate
  <2>6. ASSUME NEW i \in Ids, SidecarWrite(i) PROVE TypeOK' /\ WithinShare'
    BY <2>6 DEF SidecarWrite
  <2>7. ASSUME NEW i \in Ids, Rename(i) PROVE TypeOK' /\ WithinShare'
    BY <2>7 DEF Rename
  <2>8. ASSUME NEW i \in Ids, RenameFails(i) PROVE TypeOK' /\ WithinShare'
    BY <2>8 DEF RenameFails
  <2>9. ASSUME NEW i \in Ids, UndoSidecar(i) PROVE TypeOK' /\ WithinShare'
    BY <2>9 DEF UndoSidecar
  <2>10. ASSUME NEW i \in Ids, UploadCleanup(i) PROVE TypeOK' /\ WithinShare'
    BY <2>10 DEF UploadCleanup
  <2>11. ASSUME NEW i \in Ids, Acknowledge(i) PROVE TypeOK' /\ WithinShare'
    BY <2>11 DEF Acknowledge
  <2>12. ASSUME NEW p \in Procs, StatBlob(p) PROVE TypeOK' /\ WithinShare'
    <3>0. PICK seen \in BOOLEAN :
            /\ Stat(target[p], blob[target[p]] # "none", seen)
            /\ sawBlob' = [sawBlob EXCEPT ![p] = seen]
      BY <2>12 DEF StatBlob
    <3>1. sawBlob' \in [Procs -> BOOLEAN]
      BY ONLY <3>0, TypeOK DEF TypeOK
    <3>2. faults' \in Nat /\ unseen' \in SUBSET Ids
      BY <2>12, <3>0 DEF Stat, StatBlob
    <3> QED
      BY <2>12, <3>1, <3>2 DEF StatBlob
  <2>13. ASSUME NEW p \in Procs, StatMeta(p) PROVE TypeOK' /\ WithinShare'
    <3>0. PICK seen \in BOOLEAN :
            /\ Stat(target[p], meta[target[p]] # "none", seen)
            /\ \/ /\ ~sawBlob[p] /\ ~seen
                  /\ Return(p, FALSE)
               \/ /\ sawBlob[p] \/ seen
                  /\ sawMeta' = [sawMeta EXCEPT ![p] = seen]
                  /\ blobGone' = [blobGone EXCEPT ![p] = ~sawBlob[p]]
                  /\ pc' = [pc EXCEPT ![p] = IF sawBlob[p] THEN "rmBlob" ELSE "rmMeta"]
                  /\ UNCHANGED <<target, sawBlob, count, told204, reclaims>>
      BY <2>13 DEF StatMeta
    <3>1. /\ pc[p] = "statMeta" /\ target[p] \in Ids
          /\ UNCHANGED <<now, diskVars, up, at, todo, published, asked, doomed, misread,
                         stuck, crashes>>
      BY <2>13 DEF StatMeta
    <3>2. faults' \in Nat /\ unseen' \in SUBSET Ids
      BY <3>0, <3>1 DEF Stat
    <3>3. CASE Return(p, FALSE)
      <4>1. ProcTypes'
        BY <3>1, <3>3, ReturnTypes
      <4> QED
        BY <3>1, <3>2, <4>1 DEF ProcTypes
    <3>4. CASE /\ sawMeta' = [sawMeta EXCEPT ![p] = seen]
               /\ blobGone' = [blobGone EXCEPT ![p] = ~sawBlob[p]]
               /\ pc' = [pc EXCEPT ![p] = IF sawBlob[p] THEN "rmBlob" ELSE "rmMeta"]
               /\ UNCHANGED <<target, sawBlob, count, told204, reclaims>>
      <4>1. sawMeta' \in [Procs -> BOOLEAN]
        BY ONLY <3>0, <3>4, TypeOK DEF TypeOK
      <4>2. blobGone' \in [Procs -> BOOLEAN]
        BY ONLY <3>4, TypeOK DEF TypeOK
      <4>3. \E b \in {"rmBlob", "rmMeta"} : pc' = [pc EXCEPT ![p] = b]
        BY <3>4
      <4> QED
        BY <3>1, <3>2, <3>4, <4>1, <4>2, <4>3
    <3> QED
      BY <3>0, <3>3, <3>4
  <2>14. ASSUME NEW p \in Procs, RemoveBlob(p) PROVE TypeOK' /\ WithinShare'
    <3>1. /\ blob' \in [Ids -> {"none", "part", "full"}]
          /\ faults' \in Nat
          /\ stuck' \in SUBSET Ids
      BY <2>14 DEF RemoveBlob, RemoveOutcome
    <3>2. CASE sawMeta[p]
      <4>1. blobGone' \in [Procs -> BOOLEAN]
        <5>1. PICK outcome \in RemoveOutcome :
                blobGone' = [blobGone EXCEPT ![p] = outcome = "removed"]
          BY <2>14, <3>2 DEF RemoveBlob
        <5> QED
          BY ONLY <5>1, TypeOK DEF TypeOK
      <4>2. pc[p] = "rmBlob" /\ pc' = [pc EXCEPT ![p] = "rmMeta"]
        BY <2>14, <3>2 DEF RemoveBlob
      <4> QED
        BY <2>14, <3>1, <3>2, <4>1, <4>2 DEF RemoveBlob
    <3>3. CASE ~sawMeta[p]
      <4>1. Deleting(p) /\ \E ok \in BOOLEAN : Return(p, ok)
        BY <2>14, <3>3 DEF RemoveBlob
      <4>2. ProcTypes'
        BY <4>1, ReturnTypes
      <4> QED
        BY <2>14, <3>1, <4>2 DEF RemoveBlob, ProcTypes
    <3> QED
      BY <3>2, <3>3
  <2>15. ASSUME NEW p \in Procs, RemoveMeta(p) PROVE TypeOK' /\ WithinShare'
    <3>1. meta' \in [Ids -> {"none", "torn", "whole"}] /\ faults' \in Nat
      BY <2>15 DEF RemoveMeta, RemoveOutcome
    <3>2. Deleting(p) /\ \E ok \in BOOLEAN : Return(p, ok)
      BY <2>15 DEF RemoveMeta
    <3>3. ProcTypes'
      BY <3>2, ReturnTypes
    <3> QED
      BY <2>15, <3>1, <3>3 DEF RemoveMeta, ProcTypes
  <2>16. ASSUME NEW c \in Clients, NEW i \in Ids, LookupMeta(c, i) PROVE TypeOK' /\ WithinShare'
    BY <2>16 DEF LookupMeta
  <2>17. ASSUME NEW c \in Clients, LookupBlob(c) PROVE TypeOK' /\ WithinShare'
    BY <2>17 DEF LookupBlob, Forget
  <2>18. ASSUME NEW c \in Clients, ExistsBlob(c) PROVE TypeOK' /\ WithinShare'
    <3>1. faults' \in Nat /\ unseen' \in SUBSET Ids
      BY <2>18 DEF ExistsBlob, Stat
    <3>2. CASE pc' = [pc EXCEPT ![c] = "existsMeta"] /\ UNCHANGED <<target, sawBlob, sawMeta, blobGone>>
      BY <2>18, <3>1, <3>2 DEF ExistsBlob
    <3>3. CASE Forget(c) /\ pc' = [pc EXCEPT ![c] = "idle"]
      BY <2>18, <3>1, <3>3 DEF ExistsBlob, Forget
    <3> QED
      BY <2>18, <3>2, <3>3 DEF ExistsBlob
  <2>19. ASSUME NEW c \in Clients, ExistsMeta(c) PROVE TypeOK' /\ WithinShare'
    <3>1. faults' \in Nat /\ unseen' \in SUBSET Ids /\ told204' \in SUBSET Ids
      BY <2>19 DEF ExistsMeta, Stat
    <3> QED
      BY <2>19, <3>1 DEF ExistsMeta, Forget
  <2>20. ASSUME NEW s \in Sweepers, SweepStart(s) PROVE TypeOK' /\ WithinShare'
    BY <2>20 DEF SweepStart
  <2>21. ASSUME NEW s \in Sweepers, NEW i \in Ids, SweepJudge(s, i) PROVE TypeOK' /\ WithinShare'
    <3>1. /\ pc[s] = "scan"
          /\ todo' = [todo EXCEPT ![s] = @ \ {i}]
          /\ UNCHANGED <<now, diskVars, up, sawBlob, sawMeta, blobGone, at, count, published,
                         asked, unseen, stuck, told204, reclaims, crashes>>
      BY <2>21 DEF SweepJudge
    <3>2. CASE Skip
      BY <3>1, <3>2 DEF Skip
    <3>3. CASE Condemn(s, i)
      <4>1. faults' \in Nat /\ misread' \in SUBSET Ids /\ doomed' \in SUBSET Ids
        BY <3>3 DEF Condemn
      <4>2. /\ pc' = [pc EXCEPT ![s] = "statBlob"]
            /\ target' = [target EXCEPT ![s] = i]
        BY <3>3 DEF Condemn
      <4>3. s \in Procs /\ s \notin Clients
        BY ProcsAssumption DEF Procs
      <4>4. /\ pc' \in [Procs -> SweepState \cup ClientState]
            /\ target' \in [Procs -> Ids \cup {NoId}]
        BY <4>2
      <4>5. \A p \in Procs : target'[p] = NoId <=> pc'[p] \in {"idle", "scan"}
        BY ONLY <4>2, <4>3, TypeOK, ProcsAssumption, i \in Ids DEF TypeOK, DeleteState
      <4>6. /\ \A q \in Sweepers : pc'[q] \in SweepState
            /\ \A c \in Clients : pc'[c] \in ClientState
        BY ONLY <4>2, <4>3, TypeOK, ProcsAssumption DEF TypeOK, DeleteState, SweepState, Procs
      <4>7. todo' \in [Sweepers -> SUBSET Ids]
        BY ONLY <3>1, TypeOK DEF TypeOK
      <4>8. WithinShare'
        <5>1. count[s] < MaxDeletes /\ count' = count
          BY <2>21 DEF SweepJudge
        <5> QED
          BY ONLY <5>1, <4>2, <4>3, TypeOK, WithinShare, BoundsAssumption
             DEF TypeOK, WithinShare, Deleting, Procs
      <4>9. TypeOK'
        BY ONLY <3>1, <4>1, <4>4, <4>5, <4>6, <4>7, TypeOK
           DEF TypeOK, diskVars, UploadState, InFlight, Settled
      <4> QED
        BY <4>8, <4>9
    <3> QED
      BY <2>21, <3>2, <3>3 DEF SweepJudge
  <2>22. ASSUME NEW s \in Sweepers, SweepReap(s) PROVE TypeOK' /\ WithinShare'
    BY <2>22 DEF SweepReap
  <2>23. CASE Tick
    BY <2>23 DEF Tick
  <2>24. CASE Crash
    BY <2>24 DEF Crash
  <2>25. CASE UNCHANGED vars
    BY <2>25 DEF vars
  <2> QED
    BY <2>1, <2>2, <2>3, <2>4, <2>5, <2>6, <2>7, <2>8, <2>9, <2>10, <2>11, <2>12, <2>13, <2>14, <2>15, <2>16, <2>17, <2>18, <2>19, <2>20, <2>21, <2>22, <2>23, <2>24, <2>25
       DEF Next, UploadReceive, UploadFinish, SweepStep, ClientStep, DeleteStep
<1> QED
  BY <1>1, <1>2, PTL DEF Spec

-----------------------------------------------------------------------------
(* Once an upload is settled none of its files comes back, its expiry stands  *)
(* and it is not published any more.  Every step of the program is stable.    *)
Stable ==
    /\ \A i \in Ids : up[i] \in Settled =>
          /\ up'[i] \in Settled
          /\ exp'[i] = exp[i]
          /\ i \in published' => i \in published
          /\ blob[i] = "none" => blob'[i] = "none"
          /\ meta[i] = "none" => meta'[i] = "none"
    /\ asked \subseteq asked'
    /\ doomed \subseteq doomed'
    /\ misread \subseteq misread'
    /\ unseen \subseteq unseen'
    /\ stuck \subseteq stuck'
    /\ now \in Nat /\ now' \in Nat /\ now <= now'

\* So every step does.
LEMMA EveryStepIsStable ==
    ASSUME TypeOK, [Next]_vars PROVE Stable
<1> USE ProcsAssumption, BoundsAssumption
<1> USE DEF Stable, TypeOK, Procs, Settled, diskVars, histVars
<1>1. ASSUME NEW i \in Ids, UploadBegin(i) PROVE Stable
  BY <1>1 DEF UploadBegin
<1>2. ASSUME NEW i \in Ids, UploadSlice(i) PROVE Stable
  BY <1>2 DEF UploadSlice
<1>3. ASSUME NEW i \in Ids, UploadCopied(i) PROVE Stable
  BY <1>3 DEF UploadCopied
<1>4. ASSUME NEW i \in Ids, UploadCut(i) PROVE Stable
  BY <1>4 DEF UploadCut
<1>5. ASSUME NEW i \in Ids, SidecarCreate(i) PROVE Stable
  BY <1>5 DEF SidecarCreate
<1>6. ASSUME NEW i \in Ids, SidecarWrite(i) PROVE Stable
  BY <1>6 DEF SidecarWrite
<1>7. ASSUME NEW i \in Ids, Rename(i) PROVE Stable
  BY <1>7 DEF Rename
<1>8. ASSUME NEW i \in Ids, RenameFails(i) PROVE Stable
  BY <1>8 DEF RenameFails
<1>9. ASSUME NEW i \in Ids, UndoSidecar(i) PROVE Stable
  BY <1>9 DEF UndoSidecar
<1>10. ASSUME NEW i \in Ids, UploadCleanup(i) PROVE Stable
  BY <1>10 DEF UploadCleanup
<1>11. ASSUME NEW i \in Ids, Acknowledge(i) PROVE Stable
  BY <1>11 DEF Acknowledge
<1>12. ASSUME NEW p \in Procs, StatBlob(p) PROVE Stable
  BY <1>12 DEF StatBlob, Stat
<1>13. ASSUME NEW p \in Procs, StatMeta(p) PROVE Stable
  BY <1>13 DEF StatMeta, Stat
<1>14. ASSUME NEW p \in Procs, RemoveBlob(p) PROVE Stable
  BY <1>14 DEF RemoveBlob
<1>15. ASSUME NEW p \in Procs, RemoveMeta(p) PROVE Stable
  BY <1>15 DEF RemoveMeta
<1>16. ASSUME NEW c \in Clients, NEW i \in Ids, LookupMeta(c, i) PROVE Stable
  BY <1>16 DEF LookupMeta
<1>17. ASSUME NEW c \in Clients, LookupBlob(c) PROVE Stable
  BY <1>17 DEF LookupBlob
<1>18. ASSUME NEW c \in Clients, ExistsBlob(c) PROVE Stable
  BY <1>18 DEF ExistsBlob, Stat
<1>19. ASSUME NEW c \in Clients, ExistsMeta(c) PROVE Stable
  BY <1>19 DEF ExistsMeta, Stat
<1>20. ASSUME NEW s \in Sweepers, SweepStart(s) PROVE Stable
  BY <1>20 DEF SweepStart
<1>21. ASSUME NEW s \in Sweepers, NEW i \in Ids, SweepJudge(s, i) PROVE Stable
  BY <1>21 DEF SweepJudge, Condemn, Skip
<1>22. ASSUME NEW s \in Sweepers, SweepReap(s) PROVE Stable
  BY <1>22 DEF SweepReap
<1>23. ASSUME Tick PROVE Stable
  BY <1>23 DEF Tick
<1>24. ASSUME Crash PROVE Stable
  BY <1>24 DEF Crash
<1>25. ASSUME UNCHANGED vars PROVE Stable
  BY <1>25 DEF vars
<1> QED
  BY <1>1, <1>2, <1>3, <1>4, <1>5, <1>6, <1>7, <1>8, <1>9, <1>10, <1>11, <1>12, <1>13, <1>14, <1>15, <1>16, <1>17, <1>18, <1>19, <1>20, <1>21, <1>22, <1>23, <1>24, <1>25
     DEF Next, UploadReceive, UploadFinish, SweepStep, ClientStep, DeleteStep

-----------------------------------------------------------------------------
(* A process that does not move loses nothing to what the others do.          *)

Untouched(p) ==
    /\ pc'[p] = pc[p]
    /\ target'[p] = target[p]
    /\ sawBlob'[p] = sawBlob[p]
    /\ sawMeta'[p] = sawMeta[p]
    /\ blobGone'[p] = blobGone[p]

\* A Delete under way knows what it knew, whatever step the others take.
LEMMA UntouchedDelete ==
    ASSUME TypeOK, DeleteInv, ClientInv, Stable, NEW p \in Procs, Untouched(p)
    PROVE  DeleteOK(p)'
<1> DEFINE i == target[p]
<1>1. CASE ~Deleting(p)
  BY <1>1 DEF DeleteOK, Deleting, DeleteState, Untouched
<1>2. CASE Deleting(p)
  <2>1. i \in Ids
    BY <1>2, ProcsAssumption DEF TypeOK, Deleting, DeleteState
  <2>2. DeleteOK(p)
    BY DEF DeleteInv
  <2>3. \/ i \in doomed'
        \/ /\ up'[i] \in Settled
           /\ i \notin published' \/ exp'[i] <= now' \/ i \in asked' \cup misread'
    <3>1. exp[i] \in Nat
      BY <2>1 DEF TypeOK
    <3> QED
      BY <1>2, <2>1, <2>2, <3>1 DEF DeleteOK, Stable, IsExpired
  <2>4. ASSUME SawForGood(p)' PROVE SawForGood(p) /\ up[i] \in Settled
    <3>1. SawForGood(p)
      BY <2>4 DEF SawForGood, Stable, Untouched
    <3>2. CASE p \in Clients
      BY <1>2, <3>1, <3>2 DEF ClientInv, ClientOK, Deleting, DeleteState
    <3>3. CASE i \notin doomed
      BY <1>2, <2>2, <3>1, <3>3 DEF DeleteOK
    <3> QED
      BY <3>1, <3>2, <3>3 DEF SawForGood
  <2>5. ASSUME SawForGood(p)'
        PROVE  /\ pc'[p] = "statMeta" /\ ~sawBlob'[p] => blob'[i] = "none"
               /\ pc'[p] = "rmBlob" /\ ~sawMeta'[p] => meta'[i] = "none"
               /\ pc'[p] = "rmMeta" /\ blobGone'[p] => blob'[i] = "none"
               /\ pc'[p] = "rmMeta" /\ i \notin stuck' => blob'[i] = "none"
    BY <2>1, <2>2, <2>4, <2>5 DEF DeleteOK, Stable, Untouched
  <2> QED
    BY <2>3, <2>5 DEF DeleteOK, IsExpired, Untouched
<1> QED
  BY <1>1, <1>2

\* So does a DELETE request.
LEMMA UntouchedClient ==
    ASSUME TypeOK, ClientInv, Stable, NEW c \in Clients, pc'[c] = pc[c],
           target'[c] = target[c]
    PROVE  ClientOK(c)'
<1>1. CASE pc[c] = "idle"
  BY <1>1 DEF ClientOK
<1>2. CASE pc[c] # "idle"
  <2>1. target[c] \in Ids
    BY <1>2, ProcsAssumption DEF TypeOK, ClientState, DeleteState, Procs
  <2> QED
    BY <1>2, <2>1 DEF ClientInv, ClientOK, Stable
<1> QED
  BY <1>1, <1>2

\* Only p moves.
Alone(p) == \A q \in Procs \ {p} : Untouched(q)

(* What Return does to its caller, and to nobody else.                        *)
LEMMA ReturnMoves ==
    ASSUME TypeOK, NEW p \in Procs, NEW ok \in BOOLEAN, Return(p, ok)
    PROVE  /\ Alone(p)
           /\ pc'[p] \in {"idle", "scan", "existsBlob"}
           /\ p \in Sweepers => pc'[p] = "scan"
           /\ pc'[p] = "existsBlob" => target'[p] = target[p]
           /\ \/ told204' = told204
              \/ p \in Clients /\ ok /\ told204' = told204 \cup {target[p]}
<1> USE ProcsAssumption DEF Procs, TypeOK, Alone, Untouched
<1>1. CASE p \in Sweepers
  BY <1>1 DEF Return, Forget
<1>2. CASE p \in Clients /\ ok
  BY <1>2 DEF Return, Forget
<1>3. CASE p \in Clients /\ ~ok
  BY <1>3 DEF Return
<1> QED
  BY <1>1, <1>2, <1>3

-----------------------------------------------------------------------------
(* Uploads keep their files in order: the only step of somebody else that     *)
(* could break a pending upload is the removal of its sidecar, and whoever    *)
(* does that has condemned it.                                               *)
LEMMA UploadStep ==
    ASSUME TypeOK, UploadInv, DeleteInv, [Next]_vars PROVE UploadInv'
<1> USE DEF UploadInv, UploadOK, TypeOK, InFlight, diskVars, histVars
<1>1. ASSUME NEW i \in Ids, UploadBegin(i) PROVE UploadInv'
  BY <1>1 DEF UploadBegin
<1>2. ASSUME NEW i \in Ids, UploadSlice(i) PROVE UploadInv'
  BY <1>2 DEF UploadSlice
<1>3. ASSUME NEW i \in Ids, UploadCopied(i) PROVE UploadInv'
  BY <1>3 DEF UploadCopied
<1>4. ASSUME NEW i \in Ids, UploadCut(i) PROVE UploadInv'
  BY <1>4 DEF UploadCut
<1>5. ASSUME NEW i \in Ids, SidecarCreate(i) PROVE UploadInv'
  BY <1>5 DEF SidecarCreate
<1>6. ASSUME NEW i \in Ids, SidecarWrite(i) PROVE UploadInv'
  BY <1>6 DEF SidecarWrite
<1>7. ASSUME NEW i \in Ids, Rename(i) PROVE UploadInv'
  BY <1>7 DEF Rename
<1>8. ASSUME NEW i \in Ids, RenameFails(i) PROVE UploadInv'
  BY <1>8 DEF RenameFails
<1>9. ASSUME NEW i \in Ids, UndoSidecar(i) PROVE UploadInv'
  BY <1>9 DEF UndoSidecar
<1>10. ASSUME NEW i \in Ids, UploadCleanup(i) PROVE UploadInv'
  BY <1>10 DEF UploadCleanup
<1>11. ASSUME NEW i \in Ids, Acknowledge(i) PROVE UploadInv'
  BY <1>11 DEF Acknowledge
<1>12. ASSUME NEW p \in Procs, StatBlob(p) PROVE UploadInv'
  BY <1>12 DEF StatBlob
<1>13. ASSUME NEW p \in Procs, StatMeta(p) PROVE UploadInv'
  BY <1>13 DEF StatMeta
<1>14. ASSUME NEW p \in Procs, RemoveBlob(p) PROVE UploadInv'
  BY <1>14 DEF RemoveBlob
<1>15. ASSUME NEW p \in Procs, RemoveMeta(p) PROVE UploadInv'
  <2>1. target[p] \in doomed \/ up[target[p]] \in Settled
    BY <1>15 DEF RemoveMeta, DeleteInv, DeleteOK, Deleting, DeleteState
  <2> QED
    BY <1>15, <2>1 DEF RemoveMeta, Settled
<1>16. ASSUME NEW c \in Clients, NEW i \in Ids, LookupMeta(c, i) PROVE UploadInv'
  BY <1>16 DEF LookupMeta
<1>17. ASSUME NEW c \in Clients, LookupBlob(c) PROVE UploadInv'
  BY <1>17 DEF LookupBlob
<1>18. ASSUME NEW c \in Clients, ExistsBlob(c) \/ ExistsMeta(c) PROVE UploadInv'
  BY <1>18 DEF ExistsBlob, ExistsMeta
<1>19. ASSUME NEW s \in Sweepers, SweepStart(s) PROVE UploadInv'
  BY <1>19 DEF SweepStart
<1>20. ASSUME NEW s \in Sweepers, NEW i \in Ids, SweepJudge(s, i) PROVE UploadInv'
  BY <1>20 DEF SweepJudge, Condemn, Skip
<1>21. ASSUME NEW s \in Sweepers, SweepReap(s) PROVE UploadInv'
  BY <1>21 DEF SweepReap
<1>22. ASSUME Tick PROVE UploadInv'
  BY <1>22 DEF Tick
<1>23. ASSUME Crash PROVE UploadInv'
  BY <1>23 DEF Crash
<1>24. ASSUME UNCHANGED vars PROVE UploadInv'
  BY <1>24 DEF vars
<1> QED
  BY <1>1, <1>2, <1>3, <1>4, <1>5, <1>6, <1>7, <1>8, <1>9, <1>10, <1>11, <1>12, <1>13, <1>14, <1>15, <1>16, <1>17, <1>18, <1>19, <1>20, <1>21, <1>22, <1>23, <1>24
     DEF Next, UploadReceive, UploadFinish, SweepStep, ClientStep, DeleteStep, Procs

-----------------------------------------------------------------------------
(* One process moves and ends up well; so, then, do all.                      *)
LEMMA AloneKeeps ==
    ASSUME TypeOK, DeleteInv, ClientInv, Stable, NEW p \in Procs, Alone(p),
           DeleteOK(p)', p \in Clients => ClientOK(p)',
           \/ told204' = told204
           \/ p \in Clients /\ pc[p] # "idle" /\ told204' = told204 \cup {target[p]}
    PROVE  DeleteInv' /\ ClientInv'
<1>1. \A q \in Procs : DeleteOK(q)'
  BY UntouchedDelete DEF Alone
<1>2. \A c \in Clients : ClientOK(c)'
  BY UntouchedClient DEF Alone, Untouched, Procs
<1>3. \A i \in told204 : i \in Ids /\ up'[i] \in Settled
  BY DEF TypeOK, ClientInv, Stable
<1>4. ASSUME p \in Clients, pc[p] # "idle" PROVE up'[target[p]] \in Settled
  <2>1. target[p] \in Ids
    BY <1>4, ProcsAssumption DEF TypeOK, ClientState, DeleteState, Procs
  <2> QED
    BY <1>4, <2>1 DEF ClientInv, ClientOK, Stable
<1> QED
  BY <1>1, <1>2, <1>3, <1>4 DEF DeleteInv, ClientInv

(* No process moves.                                                          *)
LEMMA NobodyMoves ==
    ASSUME TypeOK, DeleteInv, ClientInv, Stable, UNCHANGED <<procVars, told204>>
    PROVE  DeleteInv' /\ ClientInv'
<1>1. \A q \in Procs : DeleteOK(q)'
  BY UntouchedDelete DEF Untouched, procVars
<1>2. \A c \in Clients : ClientOK(c)'
  BY UntouchedClient DEF procVars, Procs
<1>3. \A i \in told204 : i \in Ids /\ up'[i] \in Settled
  BY DEF TypeOK, ClientInv, Stable
<1> QED
  BY <1>1, <1>2, <1>3 DEF DeleteInv, ClientInv

(* A Delete goes on with what it saw still true, or is over.                  *)
LEMMA DeleteMoves ==
    ASSUME TypeOK, DeleteInv, ClientInv, Stable, NEW p \in Procs, DeleteStep(p)
    PROVE  DeleteInv' /\ ClientInv'
<1> DEFINE i == target[p]
<1> USE ProcsAssumption
<1>1. /\ Deleting(p)
      /\ i \in Ids
      /\ p \in Clients => up[i] \in Settled /\ up'[i] \in Settled
  <2>1. Deleting(p)
    BY DEF DeleteStep, StatBlob, StatMeta, RemoveBlob, RemoveMeta, Deleting, DeleteState
  <2>2. i \in Ids
    BY <2>1 DEF TypeOK, Deleting, DeleteState
  <2> QED
    BY <2>1, <2>2 DEF ClientInv, ClientOK, Deleting, DeleteState, Stable
<1>2. i \in doomed' \/ (up'[i] \in Settled /\ (i \notin published' \/ exp'[i] <= now' \/ i \in asked' \cup misread'))
  <2>1. exp[i] \in Nat
    BY <1>1 DEF TypeOK
  <2> QED
    BY <1>1, <2>1 DEF DeleteInv, DeleteOK, Stable, IsExpired
<1>3. SawForGood(p) =>
        /\ pc[p] = "statMeta" /\ ~sawBlob[p] => blob[i] = "none"
        /\ pc[p] = "rmBlob" /\ ~sawMeta[p] => meta[i] = "none"
  BY DEF DeleteInv, DeleteOK
<1>4. ASSUME Alone(p), UNCHANGED told204, Deleting(p)', target'[p] = i,
             SawForGood(p)' =>
                /\ pc'[p] = "statMeta" /\ ~sawBlob'[p] => blob'[i] = "none"
                /\ pc'[p] = "rmBlob" /\ ~sawMeta'[p] => meta'[i] = "none"
                /\ pc'[p] = "rmMeta" /\ blobGone'[p] => blob'[i] = "none"
                /\ pc'[p] = "rmMeta" /\ i \notin stuck' => blob'[i] = "none"
      PROVE  DeleteInv' /\ ClientInv'
  <2>1. DeleteOK(p)'
    BY <1>2, <1>4 DEF DeleteOK, IsExpired
  <2>2. p \in Clients => ClientOK(p)'
    BY <1>1, <1>4 DEF ClientOK, Deleting, DeleteState
  <2> QED
    BY <1>4, <2>1, <2>2, AloneKeeps
<1>5. ASSUME NEW ok \in BOOLEAN, Return(p, ok) PROVE DeleteInv' /\ ClientInv'
  <2>1. DeleteOK(p)'
    BY <1>5, ReturnMoves DEF DeleteOK, Deleting, DeleteState
  <2>2. p \in Clients => ClientOK(p)'
    BY <1>1, <1>5, ReturnMoves DEF ClientOK, Return, Forget, TypeOK
  <2> QED
    BY <1>1, <1>5, <2>1, <2>2, ReturnMoves, AloneKeeps DEF Deleting, DeleteState
<1>6. CASE StatBlob(p)
  <2>1. PICK seen \in BOOLEAN :
          /\ Stat(i, blob[i] # "none", seen)
          /\ sawBlob' = [sawBlob EXCEPT ![p] = seen]
    BY <1>6 DEF StatBlob
  <2>2. /\ pc' = [pc EXCEPT ![p] = "statMeta"]
        /\ UNCHANGED <<blob, target, sawMeta, blobGone, told204>>
    BY <1>6 DEF StatBlob, diskVars
  <2>3. Alone(p)
    BY <2>1, <2>2 DEF Alone, Untouched, TypeOK
  <2>4. sawBlob'[p] = seen /\ pc'[p] = "statMeta"
    BY <2>1, <2>2 DEF TypeOK
  <2>5. ~seen /\ i \notin unseen' => blob[i] = "none"
    BY <2>1 DEF Stat
  <2> QED
    BY <1>4, <2>2, <2>3, <2>4, <2>5 DEF SawForGood, Deleting, DeleteState
<1>7. CASE StatMeta(p)
  <2>0. PICK seen \in BOOLEAN :
          /\ Stat(i, meta[i] # "none", seen)
          /\ \/ Return(p, FALSE)
             \/ /\ sawBlob[p] \/ seen
                /\ sawMeta' = [sawMeta EXCEPT ![p] = seen]
                /\ blobGone' = [blobGone EXCEPT ![p] = ~sawBlob[p]]
                /\ pc' = [pc EXCEPT ![p] = IF sawBlob[p] THEN "rmBlob" ELSE "rmMeta"]
                /\ UNCHANGED <<target, sawBlob, told204>>
    BY <1>7 DEF StatMeta
  <2>1. CASE Return(p, FALSE)
    BY <1>5, <2>1
  <2>2. CASE ~Return(p, FALSE)
    <3>1. /\ sawMeta' = [sawMeta EXCEPT ![p] = seen]
          /\ pc' = [pc EXCEPT ![p] = IF sawBlob[p] THEN "rmBlob" ELSE "rmMeta"]
          /\ pc[p] = "statMeta"
          /\ UNCHANGED <<diskVars, target, sawBlob, told204, doomed>>
          /\ blobGone' = [blobGone EXCEPT ![p] = ~sawBlob[p]]
      BY <1>7, <2>0, <2>2 DEF StatMeta
    <3>2. Alone(p)
      BY <3>1 DEF Alone, Untouched, TypeOK
    <3>3. SawForGood(p)' => SawForGood(p)
      BY <3>1 DEF SawForGood, Stable
    <3>4. ~sawMeta'[p] /\ i \notin unseen' => meta[i] = "none"
      <4>1. sawMeta'[p] = seen
        BY <3>1 DEF TypeOK
      <4> QED
        BY <2>0, <4>1 DEF Stat
    <3>5. pc'[p] = "rmMeta" => ~sawBlob[p]
      BY <3>1 DEF TypeOK
    <3>6. pc'[p] \in {"rmBlob", "rmMeta"}
      BY <3>1 DEF TypeOK
    <3>7. SawForGood(p)' => i \notin unseen'
      BY <3>1 DEF SawForGood
    <3> QED
      BY <1>3, <1>4, <3>1, <3>2, <3>3, <3>4, <3>5, <3>6, <3>7 DEF Deleting, DeleteState, diskVars
  <2> QED
    BY <2>1, <2>2
<1>8. CASE RemoveBlob(p)
  <2>1. CASE ~sawMeta[p]
    BY <1>5, <1>8, <2>1 DEF RemoveBlob
  <2>2. CASE sawMeta[p]
    <3>1. PICK outcome \in RemoveOutcome :
            /\ outcome = "missing" <=> blob[i] = "none"
            /\ blob' = [blob EXCEPT ![i] = IF outcome = "refused" THEN @ ELSE "none"]
            /\ stuck' = IF outcome = "refused" THEN stuck \cup {i} ELSE stuck
            /\ blobGone' = [blobGone EXCEPT ![p] = outcome = "removed"]
            /\ pc' = [pc EXCEPT ![p] = "rmMeta"]
            /\ UNCHANGED <<target, sawBlob, sawMeta, told204>>
      BY <1>8, <2>2 DEF RemoveBlob
    <3>2. Alone(p)
      BY <3>1 DEF Alone, Untouched, TypeOK
    <3>3. blobGone'[p] <=> outcome = "removed"
      BY <3>1 DEF TypeOK
    <3>4. /\ pc'[p] = "rmMeta"
          /\ outcome = "removed" => blob'[i] = "none"
          /\ i \notin stuck' => blob'[i] = "none"
      BY <1>1, <3>1 DEF TypeOK
    <3> QED
      BY <1>4, <3>1, <3>2, <3>3, <3>4 DEF Deleting, DeleteState
  <2> QED
    BY <2>1, <2>2
<1>9. CASE RemoveMeta(p)
  BY <1>5, <1>9 DEF RemoveMeta
<1> QED
  BY <1>6, <1>7, <1>8, <1>9 DEF DeleteStep

(* A sweep's own steps.  It condemns a chunk whose upload is in flight; any   *)
(* other it may delete, because a published chunk that is not to go yet has  *)
(* a whole sidecar, and an expiry the sweep has not reached.                 *)
LEMMA SweepMoves ==
    ASSUME TypeOK, DeleteInv, ClientInv, SweepInv, PublishedIsKept, Stable,
           NEW s \in Sweepers, SweepStart(s) \/ (\E i \in Ids : SweepJudge(s, i)) \/ SweepReap(s)
    PROVE  DeleteInv' /\ ClientInv'
<1> USE ProcsAssumption
<1> s \in Procs /\ s \notin Clients
  BY DEF Procs
<1>1. CASE SweepStart(s) \/ SweepReap(s)
  <2>1. Alone(s) /\ pc'[s] \in {"idle", "scan"} /\ UNCHANGED told204
    BY <1>1 DEF SweepStart, SweepReap, Alone, Untouched, TypeOK, histVars
  <2>2. DeleteOK(s)'
    BY <2>1 DEF DeleteOK, Deleting, DeleteState
  <2> QED
    BY <2>1, <2>2, AloneKeeps
<1>2. ASSUME NEW i \in Ids, SweepJudge(s, i), Skip PROVE DeleteInv' /\ ClientInv'
  BY <1>2, NobodyMoves DEF SweepJudge, Skip, procVars
<1>3. ASSUME NEW i \in Ids, SweepJudge(s, i), Condemn(s, i) PROVE DeleteInv' /\ ClientInv'
  <2>1. Alone(s) /\ pc'[s] = "statBlob" /\ target'[s] = i /\ UNCHANGED told204
    BY <1>3 DEF SweepJudge, Condemn, Alone, Untouched, TypeOK
  <2>2. /\ doomed' = IF up[i] \in InFlight THEN doomed \cup {i} ELSE doomed
        /\ UNCHANGED <<now, up, meta, exp, published, asked>>
    BY <1>3 DEF SweepJudge, Condemn, diskVars
  <2>3. DeleteOK(s)'
    <3>1. CASE up[i] \in InFlight
      BY <2>1, <2>2, <3>1 DEF DeleteOK
    <3>2. CASE up[i] \in Settled /\ exp[i] <= now
      BY <2>1, <2>2, <3>2 DEF DeleteOK, IsExpired
    <3>3. CASE up[i] \in Settled /\ up[i] \notin InFlight /\ Fresh(s, i)
      <4>1. i \in misread'
        BY <1>3, <3>3 DEF Condemn
      <4> QED
        BY <2>1, <2>2, <3>3, <4>1 DEF DeleteOK
    <3>4. CASE up[i] \in Settled /\ exp[i] > now /\ ~Fresh(s, i)
      <4>1. at[s] \in Nat /\ now \in Nat /\ exp[i] \in Nat /\ at[s] <= now
        BY DEF TypeOK, SweepInv
      <4>2. meta[i] # "whole"
        BY <3>4, <4>1 DEF Fresh
      <4>3. i \notin published \ (asked \cup doomed \cup misread)
        BY <3>4, <4>1, <4>2 DEF PublishedIsKept, IsExpired
      <4> QED
        BY <2>1, <2>2, <3>4, <4>3 DEF DeleteOK, Stable
    <3>5. exp[i] <= now \/ exp[i] > now
      BY DEF TypeOK
    <3> QED
      BY <3>1, <3>2, <3>3, <3>4, <3>5 DEF TypeOK, UploadState
  <2> QED
    BY <2>1, <2>3, AloneKeeps
<1> QED
  BY <1>1, <1>2, <1>3 DEF SweepJudge

(* A client's own steps: it starts on a chunk it was given the URL of.        *)
LEMMA ClientMoves ==
    ASSUME TypeOK, DeleteInv, ClientInv, Stable, NEW c \in Clients,
           \/ \E i \in Ids : LookupMeta(c, i)
           \/ LookupBlob(c) \/ ExistsBlob(c) \/ ExistsMeta(c)
    PROVE  DeleteInv' /\ ClientInv'
<1> USE ProcsAssumption
<1> c \in Procs /\ c \notin Sweepers
  BY DEF Procs
<1>1. ASSUME NEW i \in Ids, LookupMeta(c, i) PROVE DeleteInv' /\ ClientInv'
  <2>1. /\ Alone(c) /\ pc'[c] = "lookup" /\ target'[c] = i /\ UNCHANGED <<told204, up>>
        /\ up[i] = "acked"
    BY <1>1 DEF LookupMeta, Alone, Untouched, TypeOK, histVars
  <2>2. DeleteOK(c)' /\ ClientOK(c)'
    BY <2>1 DEF DeleteOK, ClientOK, Deleting, DeleteState, Settled
  <2> QED
    BY <2>1, <2>2, AloneKeeps
<1>2. CASE LookupBlob(c)
  <2>1. /\ Alone(c)
        /\ UNCHANGED <<told204, up>>
        /\ \/ pc'[c] = "idle"
           \/ pc'[c] = "statBlob" /\ target'[c] = target[c] /\ asked' = asked \cup {target[c]}
    BY <1>2 DEF LookupBlob, Alone, Untouched, TypeOK
  <2>2. up[target[c]] \in Settled
    BY <1>2 DEF LookupBlob, ClientInv, ClientOK
  <2>3. DeleteOK(c)' /\ ClientOK(c)'
    BY <2>1, <2>2 DEF DeleteOK, ClientOK, Deleting, DeleteState
  <2> QED
    BY <2>1, <2>3, AloneKeeps
<1>3. CASE ExistsBlob(c)
  <2>1. /\ Alone(c)
        /\ UNCHANGED <<told204, up, blob>>
        /\ \/ pc'[c] = "idle"
           \/ /\ pc'[c] = "existsMeta" /\ target'[c] = target[c]
              /\ blob[target[c]] = "none" \/ target[c] \in unseen'
    BY <1>3 DEF ExistsBlob, Stat, Forget, Alone, Untouched, TypeOK, diskVars
  <2>2. up[target[c]] \in Settled
    BY <1>3 DEF ExistsBlob, ClientInv, ClientOK
  <2>3. DeleteOK(c)' /\ ClientOK(c)'
    BY <2>1, <2>2 DEF DeleteOK, ClientOK, Deleting, DeleteState
  <2> QED
    BY <2>1, <2>3, AloneKeeps
<1>4. CASE ExistsMeta(c)
  <2>1. /\ Alone(c) /\ pc[c] = "existsMeta" /\ pc'[c] = "idle"
        /\ told204' = told204 \/ told204' = told204 \cup {target[c]}
    BY <1>4 DEF ExistsMeta, Forget, Alone, Untouched, TypeOK
  <2>2. DeleteOK(c)' /\ ClientOK(c)'
    BY <2>1 DEF DeleteOK, ClientOK, Deleting, DeleteState
  <2> QED
    BY <2>1, <2>2, AloneKeeps
<1> QED
  BY <1>1, <1>2, <1>3, <1>4

(* Every process keeps a reason for what it does.                             *)
LEMMA ProcessStep ==
    ASSUME TypeOK, DeleteInv, ClientInv, SweepInv, PublishedIsKept, [Next]_vars
    PROVE  DeleteInv' /\ ClientInv' /\ SweepInv'
<1>0. Stable
  BY EveryStepIsStable
<1>1. ASSUME NEW i \in Ids, UploadReceive(i) \/ UploadFinish(i)
      PROVE  UNCHANGED <<procVars, told204, at, now>>
  BY <1>1 DEF UploadReceive, UploadBegin, UploadSlice, UploadCopied, UploadCut, UploadFinish,
     SidecarCreate, SidecarWrite, Rename, RenameFails, UndoSidecar, UploadCleanup,
     Acknowledge, sweepVars, histVars
<1>2. ASSUME NEW p \in Procs, DeleteStep(p) PROVE UNCHANGED <<at, now>>
  BY <1>2 DEF DeleteStep, StatBlob, StatMeta, RemoveBlob, RemoveMeta, sweepVars
<1>3. DeleteInv' /\ ClientInv'
  <2>1. CASE Tick \/ UNCHANGED vars
    BY <1>0, <2>1, NobodyMoves DEF Tick, vars, histVars
  <2>2. CASE Crash
    <3>1. /\ \A p \in Procs : pc'[p] = "idle"
          /\ UNCHANGED told204
      BY <2>2 DEF Crash, histVars
    <3>2. \A p \in Procs : DeleteOK(p)'
      BY <3>1 DEF DeleteOK, Deleting, DeleteState
    <3>3. \A c \in Clients : ClientOK(c)'
      BY <3>1 DEF ClientOK, Procs
    <3>4. \A i \in told204 : up'[i] \in Settled
      BY <1>0 DEF ClientInv, Stable, TypeOK
    <3> QED
      BY <3>1, <3>2, <3>3, <3>4 DEF DeleteInv, ClientInv
  <2>3. ASSUME NEW s \in Sweepers, SweepStep(s) PROVE DeleteInv' /\ ClientInv'
    BY <1>0, <2>3, SweepMoves, DeleteMoves DEF SweepStep, Procs
  <2>4. ASSUME NEW c \in Clients, ClientStep(c) PROVE DeleteInv' /\ ClientInv'
    BY <1>0, <2>4, ClientMoves, DeleteMoves DEF ClientStep, Procs
  <2> QED
    BY <1>0, <1>1, <2>1, <2>2, <2>3, <2>4, NobodyMoves DEF Next
<1>4. SweepInv'
  <2>1. CASE Tick \/ UNCHANGED vars
    BY <2>1 DEF Tick, vars, sweepVars, SweepInv, TypeOK
  <2>2. CASE Crash
    BY <2>2 DEF Crash, SweepInv, TypeOK
  <2>3. ASSUME NEW s \in Sweepers, SweepStep(s) PROVE SweepInv'
    BY <1>2, <2>3 DEF SweepStep, SweepStart, SweepJudge, SweepReap, SweepInv, TypeOK, Procs
  <2>4. ASSUME NEW c \in Clients, ClientStep(c) PROVE SweepInv'
    BY <1>2, <2>4 DEF ClientStep, LookupMeta, LookupBlob, ExistsBlob, ExistsMeta, sweepVars,
       SweepInv, Procs
  <2> QED
    BY <1>1, <2>1, <2>2, <2>3, <2>4 DEF Next, SweepInv
<1> QED
  BY <1>3, <1>4

-----------------------------------------------------------------------------
(* The files.                                                                 *)

(* A step that moves no file may only give a chunk one more reason to go.     *)
LEMMA NoFileMoves ==
    ASSUME TypeOK, Stable, PublishedIsKept, NoOrphanBlob,
           UNCHANGED <<blob, meta, exp, published>>
    PROVE  PublishedIsKept' /\ NoOrphanBlob'
<1>1. \A i \in Ids : exp[i] \in Nat /\ exp'[i] = exp[i]
  BY DEF TypeOK
<1>2. \A i \in Ids : ~IsExpired(i)' => ~IsExpired(i)
  BY <1>1 DEF IsExpired, Stable
<1>3. PublishedIsKept'
  BY <1>2 DEF PublishedIsKept, Stable, TypeOK
<1>4. NoOrphanBlob'
  BY DEF NoOrphanBlob, Stable
<1> QED
  BY <1>3, <1>4

(* An upload's own steps.  Only the rename publishes, and by then the         *)
(* sidecar of a chunk that was not condemned is whole.                       *)
LEMMA UploadMovesFiles ==
    ASSUME TypeOK, UploadInv, PublishedIsKept, NoOrphanBlob, Stable,
           NEW i \in Ids, UploadReceive(i) \/ UploadFinish(i)
    PROVE  PublishedIsKept' /\ NoOrphanBlob'
<1>0. UploadOK(i)
  BY DEF UploadInv
<1>1. CASE UploadReceive(i) \/ UploadCleanup(i) \/ RenameFails(i) \/ Acknowledge(i)
  <2>1. UNCHANGED <<blob, meta, exp, published>>
    BY <1>1 DEF UploadReceive, UploadBegin, UploadSlice, UploadCopied, UploadCut,
       UploadCleanup, RenameFails, Acknowledge, diskVars, histVars
  <2> QED
    BY <2>1, NoFileMoves
<1>2. CASE SidecarCreate(i) \/ SidecarWrite(i) \/ UndoSidecar(i)
  <2>1. /\ i \notin published /\ blob[i] = "none"
        /\ UNCHANGED <<now, blob, published, asked, doomed, misread, unseen, stuck>>
        /\ \A j \in Ids \ {i} : meta'[j] = meta[j] /\ exp'[j] = exp[j]
    BY <1>0, <1>2 DEF SidecarCreate, SidecarWrite, UndoSidecar, UploadOK, InFlight, histVars,
       TypeOK
  <2>2. PublishedIsKept'
    BY <2>1 DEF PublishedIsKept, IsExpired, TypeOK
  <2>3. NoOrphanBlob'
    BY <2>1 DEF NoOrphanBlob
  <2> QED
    BY <2>2, <2>3
<1>3. CASE Rename(i)
  <2>1. /\ temp[i] = "full" /\ (i \in doomed \/ meta[i] = "whole")
        /\ blob' = [blob EXCEPT ![i] = temp[i]]
        /\ published' = published \cup {i}
        /\ UNCHANGED <<now, meta, exp, asked, doomed, misread, unseen, stuck>>
    BY <1>0, <1>3 DEF Rename, UploadOK
  <2>2. /\ blob'[i] = "full"
        /\ \A j \in Ids \ {i} : blob'[j] = blob[j]
    BY <2>1 DEF TypeOK
  <2>3. PublishedIsKept'
    BY <2>1, <2>2 DEF PublishedIsKept, IsExpired
  <2>4. NoOrphanBlob'
    BY <2>1, <2>2 DEF NoOrphanBlob
  <2> QED
    BY <2>3, <2>4
<1> QED
  BY <1>1, <1>2, <1>3 DEF UploadFinish

(* A removal takes files only from chunks that may go, the blob first.        *)
LEMMA DeleteMovesFiles ==
    ASSUME TypeOK, UploadInv, DeleteInv, PublishedIsKept, NoOrphanBlob, Stable,
           NEW p \in Procs, DeleteStep(p)
    PROVE  PublishedIsKept' /\ NoOrphanBlob'
<1> DEFINE i == target[p]
<1>0. DeleteOK(p)
  BY DEF DeleteInv
<1>1. CASE StatBlob(p) \/ StatMeta(p)
  <2>1. UNCHANGED <<blob, meta, exp, published>>
    BY <1>1 DEF StatBlob, StatMeta, diskVars, histVars
  <2> QED
    BY <2>1, NoFileMoves
<1>2. CASE RemoveBlob(p) \/ RemoveMeta(p)
  <2>1. Deleting(p) /\ i \in Ids
    BY <1>2, ProcsAssumption DEF RemoveBlob, RemoveMeta, Deleting, DeleteState, TypeOK
  <2>2. i \in doomed \/ i \notin published \/ IsExpired(i) \/ i \in asked \cup misread
    BY <1>0, <2>1 DEF DeleteOK
  <2>3. /\ \A j \in Ids \ {i} : blob'[j] = blob[j] /\ meta'[j] = meta[j]
        /\ UNCHANGED <<now, exp, published, asked, doomed, misread, unseen>>
    BY <1>2, <2>1 DEF RemoveBlob, RemoveMeta, TypeOK
  <2>4. PublishedIsKept'
    <3>1. published \subseteq Ids
      BY DEF TypeOK
    <3> QED
      BY <2>2, <2>3, <3>1 DEF PublishedIsKept, IsExpired
  <2>5. ASSUME RemoveBlob(p) PROVE NoOrphanBlob'
    <3>1. (blob'[i] = "none" \/ i \in stuck') /\ meta' = meta
      BY <2>1, <2>5 DEF RemoveBlob, TypeOK
    <3> QED
      BY <2>3, <3>1 DEF NoOrphanBlob, Stable
  <2>6. ASSUME RemoveMeta(p) PROVE NoOrphanBlob'
    <3>1. blob' = blob /\ stuck' = stuck /\ pc[p] = "rmMeta"
      BY <2>6 DEF RemoveMeta
    <3>2. i \in doomed \cup stuck \cup unseen \/ blob[i] = "none"
      BY <1>0, <3>1 DEF DeleteOK, SawForGood
    <3> QED
      BY <2>3, <3>1, <3>2 DEF NoOrphanBlob
  <2> QED
    BY <1>2, <2>4, <2>5, <2>6
<1> QED
  BY <1>1, <1>2 DEF DeleteStep

\* Every step keeps a published chunk's files, and orphans no blob.
LEMMA FilesStep ==
    ASSUME TypeOK, UploadInv, DeleteInv, PublishedIsKept, NoOrphanBlob, [Next]_vars
    PROVE  PublishedIsKept' /\ NoOrphanBlob'
<1>0. Stable
  BY EveryStepIsStable
<1>1. CASE Tick \/ Crash \/ UNCHANGED vars
  <2>1. UNCHANGED <<blob, meta, exp, published>>
    BY <1>1 DEF Tick, Crash, vars, diskVars, histVars
  <2> QED
    BY <1>0, <2>1, NoFileMoves
<1>2. ASSUME NEW s \in Sweepers, SweepStep(s) PROVE PublishedIsKept' /\ NoOrphanBlob'
  <2>1. CASE DeleteStep(s)
    BY <1>0, <2>1, DeleteMovesFiles DEF Procs
  <2>2. CASE ~DeleteStep(s)
    <3>1. UNCHANGED <<blob, meta, exp, published>>
      BY <1>2, <2>2 DEF SweepStep, SweepStart, SweepJudge, SweepReap, diskVars, histVars
    <3> QED
      BY <1>0, <3>1, NoFileMoves
  <2> QED
    BY <2>1, <2>2
<1>3. ASSUME NEW c \in Clients, ClientStep(c) PROVE PublishedIsKept' /\ NoOrphanBlob'
  <2>1. CASE DeleteStep(c)
    BY <1>0, <2>1, DeleteMovesFiles DEF Procs
  <2>2. CASE ~DeleteStep(c)
    <3>1. UNCHANGED <<blob, meta, exp, published>>
      BY <1>3, <2>2 DEF ClientStep, LookupMeta, LookupBlob, ExistsBlob, ExistsMeta, diskVars,
         histVars
    <3> QED
      BY <1>0, <3>1, NoFileMoves
  <2> QED
    BY <2>1, <2>2
<1> QED
  BY <1>0, <1>1, <1>2, <1>3, UploadMovesFiles DEF Next

(* A 204 is answered only when both files are gone, and they never come back. *)
LEMMA ToldStep ==
    ASSUME TypeOK, DeleteInv, ClientInv, DeletedIsGone, [Next]_vars
    PROVE  DeletedIsGone'
<1>0. Stable
  BY EveryStepIsStable
<1> DEFINE Gone(i) == blob[i] = "none" /\ meta[i] = "none"
<1>1. \A i \in told204 \ unseen' : Gone(i)'
  BY <1>0 DEF ClientInv, DeletedIsGone, Stable, TypeOK
<1>2. CASE told204' = told204
  BY <1>1, <1>2 DEF DeletedIsGone
<1>3. ASSUME NEW p \in Procs, StatMeta(p) \/ RemoveBlob(p) \/ RemoveMeta(p)
      PROVE  DeletedIsGone'
  <2> DEFINE i == target[p]
  <2>1. i \in Ids
    <3>1. pc[p] \in DeleteState
      BY <1>3 DEF StatMeta, RemoveBlob, RemoveMeta, DeleteState
    <3> QED
      BY <3>1, ProcsAssumption DEF DeleteState, TypeOK
  <2>2. CASE StatMeta(p)
    <3>1. told204' = told204
      <4>1. CASE Return(p, FALSE)
        BY <4>1, ReturnMoves
      <4>2. CASE ~Return(p, FALSE)
        BY <2>2, <4>2 DEF StatMeta
      <4> QED
        BY <4>1, <4>2
    <3> QED
      BY <1>2, <3>1
  <2>3. CASE RemoveBlob(p)
    <3>1. CASE sawMeta[p]
      BY <1>2, <2>3, <3>1 DEF RemoveBlob
    <3>2. CASE ~sawMeta[p]
      <4>1. PICK outcome \in RemoveOutcome :
              /\ Return(p, outcome = "removed")
              /\ blob' = [blob EXCEPT ![i] = IF outcome = "refused" THEN @ ELSE "none"]
              /\ meta' = meta
        BY <2>3, <3>2 DEF RemoveBlob
      <4>2. CASE outcome = "removed"
        <5>1. Return(p, TRUE) /\ blob'[i] = "none"
          BY <2>1, <4>1, <4>2 DEF TypeOK
        <5>2. p \in Clients /\ i \notin unseen' => meta[i] = "none"
          BY <1>0, <2>3, <3>2 DEF DeleteInv, DeleteOK, SawForGood, RemoveBlob, Stable
        <5>3. told204' = told204 \/ (p \in Clients /\ told204' = told204 \cup {i})
          BY <5>1, ReturnMoves
        <5> QED
          BY <1>1, <4>1, <5>1, <5>2, <5>3 DEF DeletedIsGone
      <4>3. CASE outcome # "removed"
        <5>1. Return(p, FALSE)
          BY <4>1, <4>3
        <5> QED
          BY <1>2, <5>1, ReturnMoves
      <4> QED
        BY <4>2, <4>3
    <3> QED
      BY <3>1, <3>2
  <2>4. CASE RemoveMeta(p)
    <3>1. PICK outcome \in RemoveOutcome :
            /\ Return(p, blobGone[p] /\ outcome = "removed")
            /\ meta' = [meta EXCEPT ![i] = IF outcome = "refused" THEN @ ELSE "none"]
            /\ blob' = blob
            /\ pc[p] = "rmMeta"
      BY <2>4 DEF RemoveMeta
    <3>2. CASE blobGone[p] /\ outcome = "removed"
      <4>1. Return(p, TRUE) /\ meta'[i] = "none"
        BY <2>1, <3>1, <3>2 DEF TypeOK
      <4>2. p \in Clients /\ i \notin unseen' => blob[i] = "none"
        BY <1>0, <3>1, <3>2 DEF DeleteInv, DeleteOK, SawForGood, Stable
      <4>3. told204' = told204 \/ (p \in Clients /\ told204' = told204 \cup {i})
        BY <4>1, ReturnMoves
      <4> QED
        BY <1>1, <3>1, <4>1, <4>2, <4>3 DEF DeletedIsGone
    <3>3. CASE ~(blobGone[p] /\ outcome = "removed")
      <4>1. Return(p, FALSE)
        BY <3>1, <3>3
      <4> QED
        BY <1>2, <4>1, ReturnMoves
    <3> QED
      BY <3>2, <3>3
  <2> QED
    BY <1>3, <2>2, <2>3, <2>4
<1>4. ASSUME NEW c \in Clients, ExistsMeta(c) PROVE DeletedIsGone'
  <2>1. blob[target[c]] = "none" \/ target[c] \in unseen'
    BY <1>0, <1>4 DEF ExistsMeta, ClientInv, ClientOK, Stable
  <2>2. UNCHANGED <<blob, meta>>
    BY <1>4 DEF ExistsMeta, diskVars
  <2>3. \/ told204' = told204
        \/ /\ told204' = told204 \cup {target[c]}
           /\ meta[target[c]] = "none" \/ target[c] \in unseen'
    BY <1>4 DEF ExistsMeta, Stat
  <2> QED
    BY <1>1, <2>1, <2>2, <2>3 DEF DeletedIsGone
<1>5. ASSUME NEW i \in Ids, UploadReceive(i) \/ UploadFinish(i) PROVE told204' = told204
  BY <1>5 DEF UploadReceive, UploadBegin, UploadSlice, UploadCopied, UploadCut, UploadFinish,
     SidecarCreate, SidecarWrite, Rename, RenameFails, UndoSidecar, UploadCleanup,
     Acknowledge, histVars
<1>6. ASSUME NEW p \in Procs, StatBlob(p) PROVE told204' = told204
  BY <1>6 DEF StatBlob, histVars
<1>7. ASSUME NEW s \in Sweepers, SweepStep(s) PROVE DeletedIsGone'
  BY <1>2, <1>3, <1>6, <1>7 DEF SweepStep, SweepStart, SweepJudge, SweepReap, DeleteStep, Procs,
     histVars
<1>8. ASSUME NEW c \in Clients, ClientStep(c) PROVE DeletedIsGone'
  BY <1>2, <1>3, <1>4, <1>6, <1>8 DEF ClientStep, LookupMeta, LookupBlob, ExistsBlob, DeleteStep,
     Procs, histVars
<1>9. CASE Tick \/ Crash \/ UNCHANGED vars
  BY <1>2, <1>9 DEF Tick, Crash, vars, histVars
<1> QED
  BY <1>2, <1>5, <1>7, <1>8, <1>9 DEF Next

-----------------------------------------------------------------------------
(* All parts together are inductive.                                          *)
LEMMA StoreInvariant == Spec => []StoreInv
<1>1. Init => StoreInv
  BY ProcsAssumption
     DEF Init, StoreInv, UploadInv, UploadOK, DeleteInv, DeleteOK, Deleting, DeleteState,
         ClientInv, ClientOK, SweepInv, PublishedIsKept, NoOrphanBlob, DeletedIsGone, InFlight,
         Procs
<1>2. TypeOK /\ StoreInv /\ [Next]_vars => StoreInv'
  BY UploadStep, ProcessStep, FilesStep, ToldStep DEF StoreInv
<1> QED
  BY <1>1, <1>2, TypeCorrect, PTL DEF Spec

(* A published chunk is kept, blob and sidecar, until it expires, its owner   *)
(* deletes it, or a sweep had condemned it before its upload committed.      *)
THEOREM ChunksAreKept == Spec => []PublishedIsKept
<1>1. StoreInv => PublishedIsKept
  BY DEF StoreInv
<1> QED
  BY <1>1, StoreInvariant, PTL

(* No crash, failure or interleaving leaves a blob without a sidecar, except  *)
(* a condemned chunk's or one the system refused to remove.                  *)
THEOREM NoBlobIsOrphaned == Spec => []NoOrphanBlob
<1>1. StoreInv => NoOrphanBlob
  BY DEF StoreInv
<1> QED
  BY <1>1, StoreInvariant, PTL

(* A 204 guarantees that the chunk is gone, and that it stays gone.           *)
THEOREM GoneMeansGone == Spec => []DeletedIsGone
<1>1. StoreInv => DeletedIsGone
  BY DEF StoreInv
<1> QED
  BY <1>1, StoreInvariant, PTL

-----------------------------------------------------------------------------
(* Whoever reports that it reclaimed a chunk leaves neither file, and none    *)
(* comes back for another to remove; a condemned chunk is the exception.     *)
Reclaimed(i) ==
    up[i] \in Settled /\ blob[i] = "none" /\ meta[i] = "none"

ReclaimInv ==
    \A i \in Ids \ (doomed \cup unseen) : reclaims[i] = 0 \/ (reclaims[i] = 1 /\ Reclaimed(i))

\* What Return does to the count.
LEMMA ReturnCounts ==
    ASSUME TypeOK, NEW p \in Procs, NEW ok \in BOOLEAN, target[p] \in Ids, Return(p, ok)
    PROVE  /\ \A i \in Ids : i # target[p] \/ ~ok => reclaims'[i] = reclaims[i]
           /\ ok => reclaims'[target[p]] = reclaims[target[p]] + 1
  BY DEF Return, TypeOK

LEMMA ReclaimStep ==
    ASSUME TypeOK, DeleteInv, ReclaimInv, [Next]_vars
    PROVE  ReclaimInv'
<1>0. Stable
  BY EveryStepIsStable
<1>1. ASSUME NEW i \in Ids, i \notin doomed' \cup unseen', reclaims'[i] = reclaims[i]
      PROVE  reclaims'[i] = 0 \/ (reclaims'[i] = 1 /\ Reclaimed(i)')
  BY <1>0, <1>1 DEF ReclaimInv, Reclaimed, Stable
<1>2. CASE reclaims' = reclaims
  BY <1>1, <1>2 DEF ReclaimInv
<1>3. ASSUME NEW p \in Procs, StatMeta(p) \/ RemoveBlob(p) \/ RemoveMeta(p)
      PROVE  ReclaimInv'
  <2> DEFINE i == target[p]
  <2>0. pc[p] \in DeleteState /\ i \in Ids
    <3>1. pc[p] \in DeleteState
      BY <1>3 DEF StatMeta, RemoveBlob, RemoveMeta, DeleteState
    <3> QED
      BY <3>1, ProcsAssumption DEF DeleteState, TypeOK
  <2>1. UNCHANGED <<up, doomed>>
    BY <1>3 DEF StatMeta, RemoveBlob, RemoveMeta
  <2>2. i \notin doomed => up[i] \in Settled
    BY <2>0 DEF DeleteInv, DeleteOK, Deleting
  <2>3. ASSUME NEW ok \in BOOLEAN, Return(p, ok),
               ok /\ i \notin doomed \cup unseen' =>
                  /\ blob[i] # "none" \/ meta[i] # "none"
                  /\ blob'[i] = "none" /\ meta'[i] = "none"
        PROVE  ReclaimInv'
    <3>1. \A j \in Ids : j # i \/ ~ok => reclaims'[j] = reclaims[j]
      BY <2>0, <2>3, ReturnCounts
    <3>2. CASE ~ok
      BY <1>1, <3>1, <3>2 DEF ReclaimInv
    <3>3. CASE ok
      <4>0. PICK j \in Ids : j = i
        BY <2>0
      <4>1. reclaims'[j] = reclaims[j] + 1
        BY <2>0, <2>3, <3>3, <4>0, ReturnCounts
      <4>2. j \notin doomed' \cup unseen' => reclaims'[j] = 1 /\ Reclaimed(j)'
        BY <1>0, <2>1, <2>2, <2>3, <3>3, <4>0, <4>1 DEF ReclaimInv, Reclaimed, Stable
      <4> QED
        BY <1>1, <3>1, <4>0, <4>2 DEF ReclaimInv
    <3> QED
      BY <3>2, <3>3
  <2>4. CASE StatMeta(p)
    <3>1. CASE Return(p, FALSE)
      BY <2>3, <3>1
    <3>2. CASE ~Return(p, FALSE)
      BY <1>2, <2>4, <3>2 DEF StatMeta
    <3> QED
      BY <3>1, <3>2
  <2>5. CASE RemoveBlob(p)
    <3>1. CASE sawMeta[p]
      BY <1>2, <2>5, <3>1 DEF RemoveBlob
    <3>2. CASE ~sawMeta[p]
      <4>1. PICK outcome \in RemoveOutcome :
              /\ (outcome = "missing") <=> (blob[i] = "none")
              /\ Return(p, outcome = "removed")
              /\ blob' = [blob EXCEPT ![i] = IF outcome = "refused" THEN @ ELSE "none"]
              /\ meta' = meta
        BY <2>5, <3>2 DEF RemoveBlob
      <4>2. i \notin doomed \cup unseen' => meta[i] = "none"
        BY <1>0, <2>5, <3>2 DEF DeleteInv, DeleteOK, SawForGood, RemoveBlob, Stable
      <4>3. CASE outcome = "removed"
        <5>1. Return(p, TRUE) /\ blob[i] # "none" /\ blob'[i] = "none"
          BY <2>0, <4>1, <4>3 DEF TypeOK
        <5> QED
          BY <2>3, <4>1, <4>2, <5>1
      <4>4. CASE outcome # "removed"
        <5>1. Return(p, FALSE)
          BY <4>1, <4>4
        <5> QED
          BY <2>3, <5>1
      <4> QED
        BY <4>3, <4>4
    <3> QED
      BY <3>1, <3>2
  <2>6. CASE RemoveMeta(p)
    <3>1. PICK outcome \in RemoveOutcome :
            /\ (outcome = "missing") <=> (meta[i] = "none")
            /\ Return(p, blobGone[p] /\ outcome = "removed")
            /\ meta' = [meta EXCEPT ![i] = IF outcome = "refused" THEN @ ELSE "none"]
            /\ blob' = blob
            /\ pc[p] = "rmMeta"
      BY <2>6 DEF RemoveMeta
    <3>2. CASE blobGone[p] /\ outcome = "removed"
      <4>1. Return(p, TRUE) /\ meta[i] # "none" /\ meta'[i] = "none"
        BY <2>0, <3>1, <3>2 DEF TypeOK
      <4>2. i \notin doomed \cup unseen' => blob[i] = "none"
        BY <1>0, <3>1, <3>2 DEF DeleteInv, DeleteOK, SawForGood, Stable
      <4> QED
        BY <2>3, <3>1, <4>1, <4>2
    <3>3. CASE ~(blobGone[p] /\ outcome = "removed")
      <4>1. Return(p, FALSE)
        BY <3>1, <3>3
      <4> QED
        BY <2>3, <4>1
    <3> QED
      BY <3>2, <3>3
  <2> QED
    BY <1>3, <2>4, <2>5, <2>6
<1>4. ASSUME NEW i \in Ids, UploadReceive(i) \/ UploadFinish(i) PROVE reclaims' = reclaims
  BY <1>4 DEF UploadReceive, UploadBegin, UploadSlice, UploadCopied, UploadCut, UploadFinish,
     SidecarCreate, SidecarWrite, Rename, RenameFails, UndoSidecar, UploadCleanup,
     Acknowledge, histVars
<1>5. ASSUME NEW p \in Procs, StatBlob(p) PROVE reclaims' = reclaims
  BY <1>5 DEF StatBlob, histVars
<1>6. ASSUME NEW s \in Sweepers, SweepStep(s) PROVE ReclaimInv'
  BY <1>2, <1>3, <1>5, <1>6 DEF SweepStep, SweepStart, SweepJudge, SweepReap, DeleteStep,
     Procs, histVars
<1>7. ASSUME NEW c \in Clients, ClientStep(c) PROVE ReclaimInv'
  BY <1>2, <1>3, <1>5, <1>7 DEF ClientStep, LookupMeta, LookupBlob, ExistsBlob, ExistsMeta,
     DeleteStep, Procs, histVars
<1>8. CASE Tick \/ Crash \/ UNCHANGED vars
  BY <1>2, <1>8 DEF Tick, Crash, vars, histVars
<1> QED
  BY <1>2, <1>4, <1>6, <1>7, <1>8 DEF Next

(* However many sweeps and DELETEs race for a chunk, one of them at most      *)
(* counts it as reclaimed, unless a sweep had condemned it in flight.        *)
THEOREM ReclaimedAtMostOnce == Spec => []ReclaimedOnce
<1>1. Init => ReclaimInv
  BY DEF Init, ReclaimInv
<1>2. TypeOK /\ StoreInv /\ ReclaimInv /\ [Next]_vars => ReclaimInv'
  BY ReclaimStep DEF StoreInv
<1>3. TypeOK /\ ReclaimInv => ReclaimedOnce
  BY DEF TypeOK, ReclaimInv, ReclaimedOnce
<1> QED
  BY <1>1, <1>2, <1>3, TypeCorrect, StoreInvariant, PTL DEF Spec

-----------------------------------------------------------------------------
(* The directory implements ChunkCache: every system call is one of its       *)
(* actions, or no change a client can see.                                   *)

\* What leaves these variables alone is no step of the cache.
LEMMA Unseen ==
    ASSUME UNCHANGED <<now, blob, meta, exp, published, asked, doomed, misread>>
    PROVE  UNCHANGED Cache!vars
  BY DEF Cache!vars, Life, Readable, IsExpired

\* A step that only moves the files of i, whose life goes on as it is.
LEMMA UnseenFile ==
    ASSUME NEW i \in Ids, UNCHANGED <<now, exp, published, asked, doomed, misread>>,
           \A j \in Ids \ {i} : blob'[j] = blob[j] /\ meta'[j] = meta[j],
           Life(i)' = Life(i)
    PROVE  UNCHANGED Cache!vars
<1>1. \A j \in Ids : Life(j)' = Life(j)
  BY DEF Life, Readable, IsExpired
<1> QED
  BY <1>1 DEF Cache!vars

(* The steps of an upload: it fixes the deadline, and publishes the chunk.    *)
LEMMA UploadMaps ==
    ASSUME TypeOK, UploadInv, NEW i \in Ids, UploadReceive(i) \/ UploadFinish(i)
    PROVE  Cache!Next \/ UNCHANGED Cache!vars
<1>0. UploadOK(i)
  BY DEF UploadInv
<1>1. CASE UploadReceive(i) \/ UploadCleanup(i) \/ RenameFails(i) \/ Acknowledge(i)
  <2>1. UNCHANGED <<now, blob, meta, exp, published, asked, doomed, misread>>
    BY <1>1 DEF UploadReceive, UploadBegin, UploadSlice, UploadCopied, UploadCut,
       UploadCleanup, RenameFails, Acknowledge, diskVars, histVars
  <2> QED
    BY <2>1, Unseen
<1>2. CASE SidecarWrite(i) \/ UndoSidecar(i)
  <2>1. /\ i \notin published
        /\ UNCHANGED <<now, blob, exp, published, asked, doomed, misread>>
        /\ \A j \in Ids \ {i} : meta'[j] = meta[j]
    BY <1>0, <1>2 DEF SidecarWrite, UndoSidecar, UploadOK, InFlight, histVars, TypeOK
  <2>2. Life(i)' = Life(i)
    BY <2>1 DEF Life
  <2> QED
    BY <2>1, <2>2, UnseenFile
<1>3. CASE SidecarCreate(i)
  <2>1. /\ i \notin published
        /\ UNCHANGED <<now, blob, published, asked, doomed, misread>>
        /\ \A j \in Ids \ {i} : meta'[j] = meta[j] /\ exp'[j] = exp[j]
        /\ \E t \in Nat : exp' = [exp EXCEPT ![i] = t]
    <3>1. \A ttl \in TTLs : now + ttl \in Nat
      BY BoundsAssumption DEF TypeOK
    <3>2. i \notin published /\ UNCHANGED <<now, blob, published, asked, doomed, misread>>
      BY <1>0, <1>3 DEF SidecarCreate, UploadOK, InFlight, histVars
    <3> QED
      BY <1>3, <3>1, <3>2 DEF SidecarCreate, TypeOK
  <2>2. \A j \in Ids : Life(j)' = Life(j)
    BY <2>1 DEF Life, Readable, IsExpired
  <2>3. Life(i) = "absent"
    BY <2>1 DEF Life
  <2>4. Cache!SetDeadline(i)
    BY <2>1, <2>2, <2>3 DEF Cache!SetDeadline, TypeOK
  <2> QED
    BY <2>4 DEF Cache!Next
<1>4. CASE Rename(i)
  <2>1. /\ i \notin published
        /\ temp[i] = "full" /\ (i \in doomed \/ meta[i] = "whole")
        /\ blob' = [blob EXCEPT ![i] = temp[i]]
        /\ published' = published \cup {i}
        /\ UNCHANGED <<now, meta, exp, asked, doomed, misread>>
    BY <1>0, <1>4 DEF Rename, UploadOK, InFlight
  <2>2. /\ blob'[i] = "full"
        /\ \A j \in Ids \ {i} : Life(j)' = Life(j)
    BY <2>1 DEF TypeOK, Life, Readable, IsExpired
  <2>3. Life(i) = "absent"
    BY <2>1 DEF Life
  <2>4. \/ Life(i)' = "available"
        \/ Life(i)' = "gone" /\ Cache!MayGo(i)
    BY <2>1, <2>2 DEF Life, Readable, IsExpired, Cache!MayGo, Cache!Expired
  <2>5. Cache!Publish(i)
    BY <2>1, <2>2, <2>3, <2>4 DEF Cache!Publish
  <2> QED
    BY <2>5 DEF Cache!Next
<1> QED
  BY <1>1, <1>2, <1>3, <1>4 DEF UploadFinish

(* Files of i go: a published chunk goes if it may, or nothing is seen.       *)
LEMMA RemovalMaps ==
    ASSUME NEW i \in Ids, i \in published => Cache!MayGo(i),
           UNCHANGED <<now, exp, published, asked, doomed, misread>>,
           \A j \in Ids \ {i} : blob'[j] = blob[j] /\ meta'[j] = meta[j],
           blob'[i] \in {blob[i], "none"}, meta'[i] \in {meta[i], "none"}
    PROVE  Cache!Next \/ UNCHANGED Cache!vars
<1>1. CASE Life(i)' = Life(i)
  BY <1>1, UnseenFile
<1>2. CASE Life(i)' # Life(i)
  <2>1. i \in published /\ Life(i) = "available" /\ Life(i)' = "gone"
    BY <1>2 DEF Life, Readable, IsExpired
  <2>2. \A j \in Ids \ {i} : Life(j)' = Life(j)
    BY DEF Life, Readable, IsExpired
  <2>3. Cache!Go(i)
    BY <2>1, <2>2 DEF Cache!Go
  <2> QED
    BY <2>3 DEF Cache!Next
<1> QED
  BY <1>1, <1>2

(* The steps of a removal: a chunk goes, if it may, or nothing is seen.       *)
LEMMA DeleteMaps ==
    ASSUME TypeOK, UploadInv, DeleteInv, NEW p \in Procs, DeleteStep(p)
    PROVE  Cache!Next \/ UNCHANGED Cache!vars
<1> DEFINE i == target[p]
<1>1. CASE StatBlob(p) \/ StatMeta(p)
  <2>1. UNCHANGED <<now, blob, meta, exp, published, asked, doomed, misread>>
    BY <1>1 DEF StatBlob, StatMeta, diskVars, histVars
  <2> QED
    BY <2>1, Unseen
<1>2. CASE RemoveBlob(p) \/ RemoveMeta(p)
  <2>1. Deleting(p) /\ i \in Ids
    BY <1>2, ProcsAssumption DEF RemoveBlob, RemoveMeta, Deleting, DeleteState, TypeOK
  <2>2. i \in published => Cache!MayGo(i)
    BY <2>1 DEF DeleteInv, DeleteOK, IsExpired, Cache!MayGo, Cache!Expired
  <2>3. /\ \A j \in Ids \ {i} : blob'[j] = blob[j] /\ meta'[j] = meta[j]
        /\ blob'[i] \in {blob[i], "none"} /\ meta'[i] \in {meta[i], "none"}
        /\ UNCHANGED <<now, exp, published, asked, doomed, misread>>
    BY <1>2, <2>1 DEF RemoveBlob, RemoveMeta, TypeOK
  <2> QED
    BY <2>1, <2>2, <2>3, RemovalMaps
<1> QED
  BY <1>1, <1>2 DEF DeleteStep

(* A sweep may condemn, and a DELETE that found its chunk is accepted.        *)
LEMMA LooksMap ==
    ASSUME TypeOK, UploadInv,
           \/ \E s \in Sweepers : SweepStart(s) \/ SweepReap(s)
           \/ \E s \in Sweepers, i \in Ids : SweepJudge(s, i)
           \/ \E c \in Clients, i \in Ids : LookupMeta(c, i)
           \/ \E c \in Clients : LookupBlob(c) \/ ExistsBlob(c) \/ ExistsMeta(c)
    PROVE  Cache!Next \/ UNCHANGED Cache!vars
<1>1. CASE UNCHANGED <<now, blob, meta, exp, published, asked, doomed, misread>>
  BY <1>1, Unseen
<1>2. ASSUME NEW s \in Sweepers, NEW i \in Ids, SweepJudge(s, i), doomed' # doomed
      PROVE  Cache!Next
  <2>1. /\ up[i] \in InFlight
        /\ doomed' = doomed \cup {i}
        /\ UNCHANGED <<now, blob, meta, exp, published, asked, misread>>
    BY <1>2 DEF SweepJudge, Condemn, Skip, diskVars
  <2>2. Life(i) = "absent" /\ \A j \in Ids : Life(j)' = Life(j)
    BY <2>1 DEF UploadInv, UploadOK, Life, Readable, IsExpired
  <2>3. Cache!Doom(i)
    BY <2>1, <2>2 DEF Cache!Doom
  <2> QED
    BY <2>3 DEF Cache!Next
<1>3. ASSUME NEW c \in Clients, LookupBlob(c), asked' # asked PROVE Cache!Next
  <2>1. /\ blob[target[c]] # "none"
        /\ asked' = asked \cup {target[c]}
        /\ UNCHANGED <<now, blob, meta, exp, published, doomed, misread>>
    BY <1>3 DEF LookupBlob, diskVars
  <2>2. target[c] \in Ids
    BY <1>3, ProcsAssumption DEF LookupBlob, TypeOK, Procs
  <2>3. PICK i \in Ids : i = target[c]
    BY <2>2
  <2>4. Life(i) # "absent" /\ \A j \in Ids : Life(j)' = Life(j)
    BY <2>1, <2>3 DEF UploadInv, UploadOK, Life, Readable, IsExpired
  <2>5. Cache!Ask(i)
    BY <2>1, <2>3, <2>4 DEF Cache!Ask
  <2> QED
    BY <2>5 DEF Cache!Next
<1>4. ASSUME NEW s \in Sweepers, NEW i \in Ids, SweepJudge(s, i), misread' # misread
      PROVE  Cache!Next
  <2>1. /\ misread' = misread \cup {i}
        /\ UNCHANGED <<now, blob, meta, exp, published, asked, doomed>>
    BY <1>4 DEF SweepJudge, Condemn, Skip, diskVars
  <2>2. \A j \in Ids : Life(j)' = Life(j)
    BY <2>1 DEF Life, Readable, IsExpired
  <2>3. Cache!Misread(i)
    BY <2>1, <2>2 DEF Cache!Misread
  <2> QED
    BY <2>3 DEF Cache!Next
<1> QED
  BY <1>1, <1>2, <1>3, <1>4 DEF SweepStart, SweepReap, SweepJudge, LookupMeta, LookupBlob,
     ExistsBlob, ExistsMeta, diskVars, histVars

(* When time passes, exactly the chunks it expires are no longer served.      *)
LEMMA TickMaps ==
    ASSUME TypeOK, Tick PROVE Cache!Next
<1>1. now' = now + 1 /\ UNCHANGED <<blob, meta, exp, published, asked, doomed, misread>>
  BY DEF Tick, diskVars, histVars
<1>2. ASSUME NEW i \in Ids
      PROVE  Life(i)' = IF Life(i) = "available" /\ exp[i] <= now' THEN "gone" ELSE Life(i)
  <2>1. exp[i] \in Nat /\ now \in Nat
    BY DEF TypeOK
  <2> QED
    BY <1>1, <2>1 DEF Life, Readable, IsExpired
<1>3. Cache!Tick
  BY <1>1, <1>2 DEF Cache!Tick
<1> QED
  BY <1>3 DEF Cache!Next

(* The chunk directory implements the cache's promise, with any number of     *)
(* uploads, sweeps and clients, and through every crash and failure.         *)
THEOREM Refinement == Spec => ImplementsCache
<1>1. Init => Cache!Init
  BY DEF Init, Cache!Init, Life
<1>2. TypeOK /\ StoreInv /\ [Next]_vars => [Cache!Next]_(Cache!vars)
  <2> SUFFICES ASSUME TypeOK, StoreInv, [Next]_vars
               PROVE  Cache!Next \/ UNCHANGED Cache!vars
    OBVIOUS
  <2>0. UploadInv /\ DeleteInv
    BY DEF StoreInv
  <2>1. CASE Crash \/ UNCHANGED vars
    <3>1. UNCHANGED <<now, blob, meta, exp, published, asked, doomed, misread>>
      BY <2>1 DEF Crash, vars, diskVars, histVars
    <3> QED
      BY <3>1, Unseen
  <2>2. CASE Tick
    BY <2>2, TickMaps
  <2>3. ASSUME NEW i \in Ids, UploadReceive(i) \/ UploadFinish(i)
        PROVE  Cache!Next \/ UNCHANGED Cache!vars
    BY <2>0, <2>3, UploadMaps
  <2>4. ASSUME NEW s \in Sweepers, SweepStep(s)
        PROVE  Cache!Next \/ UNCHANGED Cache!vars
    BY <2>0, <2>4, DeleteMaps, LooksMap DEF SweepStep, Procs
  <2>5. ASSUME NEW c \in Clients, ClientStep(c)
        PROVE  Cache!Next \/ UNCHANGED Cache!vars
    BY <2>0, <2>5, DeleteMaps, LooksMap DEF ClientStep, Procs
  <2> QED
    BY <2>1, <2>2, <2>3, <2>4, <2>5 DEF Next
<1> QED
  BY <1>1, <1>2, TypeCorrect, StoreInvariant, PTL DEF Spec, ImplementsCache, Cache!Spec
=============================================================================
