----------------------------- MODULE ChunkStore -----------------------------
(***************************************************************************)
(* pkg/storage: the chunk directory, shared by uploads, owner DELETEs, the  *)
(* expiry sweeper of the serve process and any `gc` run.  None of them      *)
(* takes a lock: what keeps the directory sane is the order of the system   *)
(* calls.  One action is therefore one system call (with the local work     *)
(* around it), and every interleaving of the processes is explored.         *)
(*                                                                         *)
(* A chunk is a blob, a ".json" sidecar that holds its expiry, and, while   *)
(* it is being uploaded, a ".tmp-" file that a rename turns into the blob.  *)
(* Ids are 128 random bits, so an id has one upload, which it names here.   *)
(***************************************************************************)
EXTENDS Naturals, FiniteSets

CONSTANTS
    Ids,            \* chunk ids
    Sweepers,       \* processes running Gc.Sweep: the ticker, `gc` runs
    NoId,           \* the target of a process that works on no chunk
    Clients,        \* requests of a chunk's owner for DELETE /v1/chunks/{id}
    TTLs,           \* the lifetimes ClampTTL hands out
    TempMaxAge,     \* tempMaxAge: age beyond which a temp file is reaped
    MaxDeletes,     \* gc.max_deletes: chunks one sweep may delete
    LastWrite,      \* bound: the last moment at which uploads write
    MaxTime,        \* bound: the clock stops here
    MaxFaults,      \* bound: how many removals, stats and reads of a file may fail
    MaxCrashes      \* bound: how many times the host may crash

Procs == Sweepers \cup Clients

ASSUME ProcsAssumption == Sweepers \cap Clients = {} /\ NoId \notin Ids

ASSUME BoundsAssumption ==
    /\ TTLs \subseteq Nat \ {0}
    /\ TempMaxAge \in Nat
    /\ MaxDeletes \in Nat \ {0}
    /\ LastWrite \in Nat
    /\ MaxTime \in Nat
    /\ MaxFaults \in Nat
    /\ MaxCrashes \in Nat

VARIABLES
    (* the directory *)
    now,            \* wall clock
    temp,           \* temp[i]: the .tmp- file: "none", "part" or "full"
    tempAt,         \* tempAt[i]: its modification time
    blob,           \* blob[i]: the blob: "none", "part" or "full"
    meta,           \* meta[i]: the sidecar: "none", "torn" or "whole"
    exp,            \* exp[i]: the expiry a whole sidecar holds
    (* the uploads, one per id *)
    up,
    (* the processes that look chunks up and remove them *)
    pc,
    target,         \* target[p]: the id p works on, or NoId
    sawBlob,        \* sawBlob[p]: Delete's stat found the blob
    sawMeta,        \* sawMeta[p]: Delete's stat found the sidecar
    blobGone,       \* blobGone[p]: Delete's local of that name
    (* the sweeps *)
    at,             \* at[s]: the moment sweep s started
    todo,           \* todo[s]: listed ids it has not looked at
    count,          \* count[s]: chunks it has deleted
    (* bounds *)
    faults, crashes,
    (* history, read by the properties only *)
    published,      \* ids whose blob was renamed into place
    asked,          \* ids whose owner's DELETE went as far as Store.Delete
    doomed,         \* ids a sweep judged while their upload was in flight
    misread,        \* ids of which a sweep could not read the sidecar after that
    unseen,         \* ids with a file that was there when a stat of it failed
    stuck,          \* ids whose blob could not be removed
    told204,        \* ids whose owner was answered 204
    reclaims        \* reclaims[i]: how many Deletes of i returned true

diskVars == <<temp, tempAt, blob, meta, exp>>
procVars == <<pc, target, sawBlob, sawMeta, blobGone>>
sweepVars == <<at, todo, count>>
histVars == <<published, asked, doomed, misread, unseen, stuck, told204, reclaims>>
boundVars == <<faults, crashes>>
vars == <<now, diskVars, up, procVars, sweepVars, histVars, boundVars>>

-----------------------------------------------------------------------------
(* Where an upload, or a process, can be. *)

\* Before its blob is in place an upload may still create one.
InFlight == {"idle", "copying", "copied", "sidecar", "ready"}

\* Ingest has returned, or will, without creating any file.
Settled == {"undo", "aborting", "failed", "committed", "acked", "dead"}

UploadState == InFlight \cup Settled

DeleteState == {"statBlob", "statMeta", "rmBlob", "rmMeta"}

SweepState == {"idle", "scan"} \cup DeleteState

ClientState == {"idle", "lookup", "existsBlob", "existsMeta"} \cup DeleteState

Deleting(p) == pc[p] \in DeleteState

\* A bug to catch: the comparison is exclusive.
IsExpiredExclusive(i) == exp[i] < now

\* ChunkMeta.IsExpired: inclusive.
IsExpired(i) == exp[i] <= now

\* Store.Meta as one look: what a GET of i would find.
Readable(i) == meta[i] = "whole" /\ ~IsExpired(i) /\ blob[i] # "none"

Init ==
    /\ now = 0
    /\ temp = [i \in Ids |-> "none"]
    /\ tempAt = [i \in Ids |-> 0]
    /\ blob = [i \in Ids |-> "none"]
    /\ meta = [i \in Ids |-> "none"]
    /\ exp = [i \in Ids |-> 0]
    /\ up = [i \in Ids |-> "idle"]
    /\ pc = [p \in Procs |-> "idle"]
    /\ target = [p \in Procs |-> NoId]
    /\ sawBlob = [p \in Procs |-> FALSE]
    /\ sawMeta = [p \in Procs |-> FALSE]
    /\ blobGone = [p \in Procs |-> FALSE]
    /\ at = [s \in Sweepers |-> 0]
    /\ todo = [s \in Sweepers |-> {}]
    /\ count = [s \in Sweepers |-> 0]
    /\ faults = 0
    /\ crashes = 0
    /\ published = {}
    /\ asked = {}
    /\ doomed = {}
    /\ misread = {}
    /\ unseen = {}
    /\ stuck = {}
    /\ told204 = {}
    /\ reclaims = [i \in Ids |-> 0]

-----------------------------------------------------------------------------
(* Store.Ingest. *)

(* newID, ensureDir and the O_EXCL open of the temp file. *)
UploadBegin(i) ==
    /\ up[i] = "idle"
    /\ now <= LastWrite
    /\ up' = [up EXCEPT ![i] = "copying"]
    /\ temp' = [temp EXCEPT ![i] = "part"]
    /\ tempAt' = [tempAt EXCEPT ![i] = now]
    /\ UNCHANGED <<now, blob, meta, exp, procVars, sweepVars, histVars, boundVars>>

(* copyBody writes one more slice.  A temp file the reaper has unlinked is   *)
(* still open, and still takes the bytes.                                   *)
UploadSlice(i) ==
    /\ up[i] = "copying"
    /\ temp[i] # "none"
    /\ tempAt[i] < now /\ now <= LastWrite
    /\ tempAt' = [tempAt EXCEPT ![i] = now]
    /\ UNCHANGED <<now, temp, blob, meta, exp, up, procVars, sweepVars, histVars,
                   boundVars>>

(* copyBody reaches EOF, the length is the declared one, fsync and close     *)
(* succeed.                                                                 *)
UploadCopied(i) ==
    /\ up[i] = "copying"
    /\ up' = [up EXCEPT ![i] = "copied"]
    /\ temp' = [temp EXCEPT ![i] = IF @ = "part" THEN "full" ELSE @]
    /\ UNCHANGED <<now, tempAt, blob, meta, exp, procVars, sweepVars, histVars,
                   boundVars>>

(* The body was empty, too long or cut short, or a write, the fsync or the   *)
(* close failed: Ingest returns, and its deferred cleanup is next.          *)
UploadCut(i) ==
    /\ up[i] = "copying"
    /\ up' = [up EXCEPT ![i] = "aborting"]
    /\ UNCHANGED <<now, diskVars, procVars, sweepVars, histVars, boundVars>>

\* A bug to catch: an error of os.WriteFile is ignored.
SidecarCreateUnchecked(i) ==
    /\ up[i] = "copied"
    /\ \E ttl \in TTLs :
        /\ now <= LastWrite
        /\ exp' = [exp EXCEPT ![i] = now + ttl]
        /\ \/ /\ meta' = [meta EXCEPT ![i] = "torn"]
              /\ up' = [up EXCEPT ![i] = "sidecar"]
           \/ /\ up' = [up EXCEPT ![i] = "ready"]
              /\ UNCHANGED meta
    /\ UNCHANGED <<now, temp, tempAt, blob, procVars, sweepVars, histVars, boundVars>>

(* The expiry is computed, then os.WriteFile creates the sidecar, empty.     *)
SidecarCreate(i) ==
    /\ up[i] = "copied"
    /\ \E ttl \in TTLs :
        /\ now <= LastWrite
        /\ exp' = [exp EXCEPT ![i] = now + ttl]
        /\ \/ /\ meta' = [meta EXCEPT ![i] = "torn"]
              /\ up' = [up EXCEPT ![i] = "sidecar"]
           \/ /\ up' = [up EXCEPT ![i] = "aborting"]
              /\ UNCHANGED meta
    /\ UNCHANGED <<now, temp, tempAt, blob, procVars, sweepVars, histVars, boundVars>>

(* os.WriteFile writes the sidecar, or fails with the file as it is.  If a   *)
(* sweep has unlinked it, the bytes go nowhere and no error is seen.        *)
SidecarWrite(i) ==
    /\ up[i] = "sidecar"
    /\ \/ /\ meta' = [meta EXCEPT ![i] = IF @ = "torn" THEN "whole" ELSE @]
          /\ up' = [up EXCEPT ![i] = "ready"]
       \/ /\ up' = [up EXCEPT ![i] = "aborting"]
          /\ UNCHANGED meta
    /\ UNCHANGED <<now, temp, tempAt, blob, exp, procVars, sweepVars, histVars,
                   boundVars>>

(* The rename that commits the chunk. *)
Rename(i) ==
    /\ up[i] = "ready"
    /\ temp[i] # "none"
    /\ blob' = [blob EXCEPT ![i] = temp[i]]
    /\ temp' = [temp EXCEPT ![i] = "none"]
    /\ up' = [up EXCEPT ![i] = "committed"]
    /\ published' = published \cup {i}
    /\ UNCHANGED <<now, tempAt, meta, exp, procVars, sweepVars, asked, doomed, misread,
                   unseen, stuck, told204, reclaims, boundVars>>

(* The rename fails: on its own, or because the temp file was reaped.        *)
RenameFails(i) ==
    /\ up[i] = "ready"
    /\ up' = [up EXCEPT ![i] = "undo"]
    /\ UNCHANGED <<now, diskVars, procVars, sweepVars, histVars, boundVars>>

(* After a failed rename the sidecar is removed; an error is ignored.        *)
UndoSidecar(i) ==
    /\ up[i] = "undo"
    /\ up' = [up EXCEPT ![i] = "aborting"]
    /\ \/ meta' = [meta EXCEPT ![i] = "none"]
       \/ UNCHANGED meta
    /\ UNCHANGED <<now, temp, tempAt, blob, exp, procVars, sweepVars, histVars,
                   boundVars>>

(* The deferred cleanup of an upload that did not commit; an error is ignored. *)
UploadCleanup(i) ==
    /\ up[i] = "aborting"
    /\ up' = [up EXCEPT ![i] = "failed"]
    /\ \/ temp' = [temp EXCEPT ![i] = "none"]
       \/ UNCHANGED temp
    /\ UNCHANGED <<now, tempAt, blob, meta, exp, procVars, sweepVars, histVars,
                   boundVars>>

(* handleUpload answers 201 with the chunk's URL. *)
Acknowledge(i) ==
    /\ up[i] = "committed"
    /\ up' = [up EXCEPT ![i] = "acked"]
    /\ UNCHANGED <<now, diskVars, procVars, sweepVars, histVars, boundVars>>

-----------------------------------------------------------------------------
(* Store.Delete, one system call at a time, for whoever calls it.            *)

\* p has nothing left to do with its chunk.
Forget(p) ==
    /\ target' = [target EXCEPT ![p] = NoId]
    /\ sawBlob' = [sawBlob EXCEPT ![p] = FALSE]
    /\ sawMeta' = [sawMeta EXCEPT ![p] = FALSE]
    /\ blobGone' = [blobGone EXCEPT ![p] = FALSE]

\* A bug to catch: handleDelete answers 204 whatever Delete returned.
ReturnUnchecked(p, ok) ==
    LET i == target[p] IN
    /\ reclaims' = [reclaims EXCEPT ![i] = IF ok THEN @ + 1 ELSE @]
    /\ Forget(p)
    /\ IF p \in Sweepers
       THEN /\ count' = [count EXCEPT ![p] = IF ok THEN @ + 1 ELSE @]
            /\ pc' = [pc EXCEPT ![p] = "scan"]
            /\ UNCHANGED told204
       ELSE /\ told204' = told204 \cup {i}
            /\ pc' = [pc EXCEPT ![p] = "idle"]
            /\ UNCHANGED count

(* Delete returns ok.  Sweep counts a success and goes on; handleDelete      *)
(* answers 204 to a success, and asks Exists about a failure.               *)
Return(p, ok) ==
    LET i == target[p] IN
    /\ reclaims' = [reclaims EXCEPT ![i] = IF ok THEN @ + 1 ELSE @]
    /\ IF p \in Sweepers
       THEN /\ count' = [count EXCEPT ![p] = IF ok THEN @ + 1 ELSE @]
            /\ pc' = [pc EXCEPT ![p] = "scan"]
            /\ Forget(p)
            /\ UNCHANGED told204
       ELSE /\ UNCHANGED count
            /\ IF ok THEN /\ told204' = told204 \cup {i}
                          /\ pc' = [pc EXCEPT ![p] = "idle"]
                          /\ Forget(p)
                     ELSE /\ pc' = [pc EXCEPT ![p] = "existsBlob"]
                          /\ UNCHANGED <<told204, target, sawBlob, sawMeta, blobGone>>

(* os.Stat of a file of i tells whether it is there; every error, be it of a  *)
(* file that is there, is taken for absence.                                *)
Stat(i, there, seen) ==
    \/ /\ seen = there
       /\ UNCHANGED <<unseen, faults>>
    \/ /\ there /\ ~seen
       /\ faults < MaxFaults
       /\ faults' = faults + 1
       /\ unseen' = unseen \cup {i}

StatBlob(p) ==
    LET i == target[p] IN
    /\ pc[p] = "statBlob"
    /\ \E seen \in BOOLEAN :
        /\ Stat(i, blob[i] # "none", seen)
        /\ sawBlob' = [sawBlob EXCEPT ![p] = seen]
    /\ pc' = [pc EXCEPT ![p] = "statMeta"]
    /\ UNCHANGED <<now, diskVars, up, target, sawMeta, blobGone, sweepVars, published,
                   asked, doomed, misread, stuck, told204, reclaims, crashes>>

(* With neither file seen, Delete returns false.  With no blob, the blob      *)
(* counts as gone and the sidecar is next.                                  *)
StatMeta(p) ==
    LET i == target[p] IN
    /\ pc[p] = "statMeta"
    /\ \E seen \in BOOLEAN :
        /\ Stat(i, meta[i] # "none", seen)
        /\ \/ /\ ~sawBlob[p] /\ ~seen
              /\ Return(p, FALSE)
           \/ /\ sawBlob[p] \/ seen
              /\ sawMeta' = [sawMeta EXCEPT ![p] = seen]
              /\ blobGone' = [blobGone EXCEPT ![p] = ~sawBlob[p]]
              /\ pc' = [pc EXCEPT ![p] = IF sawBlob[p] THEN "rmBlob" ELSE "rmMeta"]
              /\ UNCHANGED <<target, sawBlob, count, told204, reclaims>>
    /\ UNCHANGED <<now, diskVars, up, at, todo, published, asked, doomed, misread, stuck,
                   crashes>>

(* os.Remove of a file: it goes, it was not there, or it cannot be removed.  *)
RemoveOutcome == {"removed", "missing", "refused"}

RemoveBlob(p) ==
    LET i == target[p] IN
    /\ pc[p] = "rmBlob"
    /\ \E outcome \in RemoveOutcome :
        /\ (outcome = "missing") <=> (blob[i] = "none")
        /\ outcome = "refused" => faults < MaxFaults
        /\ blob' = [blob EXCEPT ![i] = IF outcome = "refused" THEN @ ELSE "none"]
        /\ faults' = IF outcome = "refused" THEN faults + 1 ELSE faults
        /\ stuck' = IF outcome = "refused" THEN stuck \cup {i} ELSE stuck
        /\ \/ /\ sawMeta[p]
              /\ blobGone' = [blobGone EXCEPT ![p] = outcome = "removed"]
              /\ pc' = [pc EXCEPT ![p] = "rmMeta"]
              /\ UNCHANGED <<target, sawBlob, sawMeta, count, told204, reclaims>>
           \/ /\ ~sawMeta[p]
              /\ Return(p, outcome = "removed")
    /\ UNCHANGED <<now, temp, tempAt, meta, exp, up, at, todo, published, asked,
                   doomed, misread, unseen, crashes>>

\* A bug to catch: a file that is already gone counts as removed here.
RemoveMetaTolerant(p) ==
    LET i == target[p] IN
    /\ pc[p] = "rmMeta"
    /\ \E outcome \in RemoveOutcome :
        /\ (outcome = "missing") <=> (meta[i] = "none")
        /\ outcome = "refused" => faults < MaxFaults
        /\ meta' = [meta EXCEPT ![i] = IF outcome = "refused" THEN @ ELSE "none"]
        /\ faults' = IF outcome = "refused" THEN faults + 1 ELSE faults
        /\ Return(p, blobGone[p] /\ outcome # "refused")
    /\ UNCHANGED <<now, temp, tempAt, blob, exp, up, at, todo, published, asked,
                   doomed, misread, unseen, stuck, crashes>>

RemoveMeta(p) ==
    LET i == target[p] IN
    /\ pc[p] = "rmMeta"
    /\ \E outcome \in RemoveOutcome :
        /\ (outcome = "missing") <=> (meta[i] = "none")
        /\ outcome = "refused" => faults < MaxFaults
        /\ meta' = [meta EXCEPT ![i] = IF outcome = "refused" THEN @ ELSE "none"]
        /\ faults' = IF outcome = "refused" THEN faults + 1 ELSE faults
        /\ Return(p, blobGone[p] /\ outcome = "removed")
    /\ UNCHANGED <<now, temp, tempAt, blob, exp, up, at, todo, published, asked,
                   doomed, misread, unseen, stuck, crashes>>

-----------------------------------------------------------------------------
(* handleDelete, for a caller that holds the chunk's URL and its owner's key. *)

(* Store.Meta reads the sidecar: one that cannot be read or has expired is a *)
(* 404, and nothing has begun.                                              *)
LookupMeta(c, i) ==
    /\ pc[c] = "idle"
    /\ up[i] = "acked"
    /\ meta[i] = "whole" /\ ~IsExpired(i)
    /\ pc' = [pc EXCEPT ![c] = "lookup"]
    /\ target' = [target EXCEPT ![c] = i]
    /\ UNCHANGED <<now, diskVars, up, sawBlob, sawMeta, blobGone, sweepVars, histVars,
                   boundVars>>

(* Store.Meta stats the blob: a 404, or the owner's Delete begins.  A stat    *)
(* that fails is a 404 as well.                                             *)
LookupBlob(c) ==
    LET there == blob[target[c]] # "none" IN
    /\ pc[c] = "lookup"
    /\ \/ /\ there => faults < MaxFaults
          /\ faults' = IF there THEN faults + 1 ELSE faults
          /\ pc' = [pc EXCEPT ![c] = "idle"]
          /\ target' = [target EXCEPT ![c] = NoId]
          /\ UNCHANGED asked
       \/ /\ there
          /\ pc' = [pc EXCEPT ![c] = "statBlob"]
          /\ asked' = asked \cup {target[c]}
          /\ UNCHANGED <<target, faults>>
    /\ UNCHANGED <<now, diskVars, up, sawBlob, sawMeta, blobGone, sweepVars, published,
                   doomed, misread, unseen, stuck, told204, reclaims, crashes>>

(* Store.Exists stats the blob: seen there is a 500.                         *)
ExistsBlob(c) ==
    LET i == target[c] IN
    /\ pc[c] = "existsBlob"
    /\ \E seen \in BOOLEAN :
        /\ Stat(i, blob[i] # "none", seen)
        /\ \/ /\ ~seen
              /\ pc' = [pc EXCEPT ![c] = "existsMeta"]
              /\ UNCHANGED <<target, sawBlob, sawMeta, blobGone>>
           \/ /\ seen
              /\ pc' = [pc EXCEPT ![c] = "idle"]
              /\ Forget(c)
    /\ UNCHANGED <<now, diskVars, up, sweepVars, published, asked, doomed, misread, stuck,
                   told204, reclaims, crashes>>

(* Store.Exists stats the sidecar: seen there is a 500, else a 204.          *)
ExistsMeta(c) ==
    LET i == target[c] IN
    /\ pc[c] = "existsMeta"
    /\ \E seen \in BOOLEAN :
        /\ Stat(i, meta[i] # "none", seen)
        /\ told204' = IF seen THEN told204 ELSE told204 \cup {i}
    /\ pc' = [pc EXCEPT ![c] = "idle"]
    /\ Forget(c)
    /\ UNCHANGED <<now, diskVars, up, sweepVars, published, asked, doomed, misread, stuck,
                   reclaims, crashes>>

-----------------------------------------------------------------------------
(* Gc.Sweep. *)

(* now is taken once, and AllIDs lists the sidecars.                         *)
SweepStart(s) ==
    /\ pc[s] = "idle"
    /\ pc' = [pc EXCEPT ![s] = "scan"]
    /\ at' = [at EXCEPT ![s] = now]
    /\ todo' = [todo EXCEPT ![s] = {i \in Ids : meta[i] # "none"}]
    /\ UNCHANGED <<now, diskVars, up, target, sawBlob, sawMeta, blobGone, count,
                   histVars, boundVars>>

\* A bug to catch: a chunk that has one second left is taken for expired.
FreshOffByOne(s, i) == meta[i] = "whole" /\ exp[i] > at[s] + 1

\* A bug to catch: a sidecar that cannot be read is left for later.
FreshIfUnreadable(s, i) == meta[i] = "torn" \/ exp[i] > at[s]

\* What RawExpiresAt reads is beyond the sweep's own now.
Fresh(s, i) == meta[i] = "whole" /\ exp[i] > at[s]

(* A chunk is to be deleted if it has expired, if its sidecar does not parse, *)
(* or if the sidecar, whole and fresh, cannot be read: RawExpiresAt does not  *)
(* tell these apart.                                                        *)
Condemn(s, i) ==
    /\ pc' = [pc EXCEPT ![s] = "statBlob"]
    /\ target' = [target EXCEPT ![s] = i]
    /\ doomed' = IF up[i] \in InFlight THEN doomed \cup {i} ELSE doomed
    /\ \/ /\ ~Fresh(s, i)
          /\ UNCHANGED <<misread, faults>>
       \/ /\ Fresh(s, i)
          /\ faults < MaxFaults
          /\ faults' = faults + 1
          /\ misread' = IF up[i] \in InFlight THEN misread ELSE misread \cup {i}

\* The chunk is left alone.
Skip == UNCHANGED <<pc, target, doomed, misread, faults>>

\* A bug to catch: the test of maxDeletes is dropped.
SweepJudgeUncapped(s, i) ==
    /\ pc[s] = "scan"
    /\ i \in todo[s]
    /\ todo' = [todo EXCEPT ![s] = @ \ {i}]
    /\ \/ Fresh(s, i) /\ Skip
       \/ Condemn(s, i)
    /\ UNCHANGED <<now, diskVars, up, sawBlob, sawMeta, blobGone, at, count, published,
                   asked, unseen, stuck, told204, reclaims, crashes>>

(* The loop body up to its call of Delete.                                   *)
SweepJudge(s, i) ==
    /\ pc[s] = "scan"
    /\ i \in todo[s]
    /\ count[s] < MaxDeletes
    /\ todo' = [todo EXCEPT ![s] = @ \ {i}]
    /\ \/ Fresh(s, i) /\ Skip
       \/ Condemn(s, i)
    /\ UNCHANGED <<now, diskVars, up, sawBlob, sawMeta, blobGone, at, count, published,
                   asked, unseen, stuck, told204, reclaims, crashes>>

(* The loop is over, or has deleted its share: the stale temp files go.      *)
SweepReap(s) ==
    /\ pc[s] = "scan"
    /\ todo[s] = {} \/ count[s] >= MaxDeletes
    /\ temp' = [i \in Ids |-> IF at[s] > tempAt[i] + TempMaxAge THEN "none" ELSE temp[i]]
    /\ pc' = [pc EXCEPT ![s] = "idle"]
    /\ at' = [at EXCEPT ![s] = 0]
    /\ todo' = [todo EXCEPT ![s] = {}]
    /\ count' = [count EXCEPT ![s] = 0]
    /\ UNCHANGED <<now, tempAt, blob, meta, exp, up, target, sawBlob, sawMeta, blobGone,
                   histVars, boundVars>>

-----------------------------------------------------------------------------
(* Time, and the end of the world. *)

Tick ==
    /\ now < MaxTime
    /\ now' = now + 1
    /\ UNCHANGED <<diskVars, up, procVars, sweepVars, histVars, boundVars>>

(* Every process is killed.  What the system calls did so far stays; the     *)
(* deferred cleanups do not run.                                            *)
Crash ==
    /\ crashes < MaxCrashes
    /\ crashes' = crashes + 1
    /\ up' = [i \in Ids |-> IF up[i] \in {"idle", "failed", "acked"} THEN up[i] ELSE "dead"]
    /\ pc' = [p \in Procs |-> "idle"]
    /\ target' = [p \in Procs |-> NoId]
    /\ sawBlob' = [p \in Procs |-> FALSE]
    /\ sawMeta' = [p \in Procs |-> FALSE]
    /\ blobGone' = [p \in Procs |-> FALSE]
    /\ at' = [s \in Sweepers |-> 0]
    /\ todo' = [s \in Sweepers |-> {}]
    /\ count' = [s \in Sweepers |-> 0]
    /\ UNCHANGED <<now, diskVars, histVars, faults>>

-----------------------------------------------------------------------------
\* The steps of an upload that wait for its client.
UploadReceive(i) ==
    \/ UploadBegin(i)
    \/ UploadSlice(i)
    \/ UploadCopied(i)
    \/ UploadCut(i)

\* The steps of an upload that wait for nobody.
UploadFinish(i) ==
    \/ SidecarCreate(i)
    \/ SidecarWrite(i)
    \/ Rename(i)
    \/ RenameFails(i)
    \/ UndoSidecar(i)
    \/ UploadCleanup(i)
    \/ Acknowledge(i)

DeleteStep(p) ==
    \/ StatBlob(p)
    \/ StatMeta(p)
    \/ RemoveBlob(p)
    \/ RemoveMeta(p)

SweepStep(s) ==
    \/ SweepStart(s)
    \/ \E i \in Ids : SweepJudge(s, i)
    \/ SweepReap(s)
    \/ DeleteStep(s)

ClientStep(c) ==
    \/ \E i \in Ids : LookupMeta(c, i)
    \/ LookupBlob(c)
    \/ DeleteStep(c)
    \/ ExistsBlob(c)
    \/ ExistsMeta(c)

Next ==
    \/ \E i \in Ids : UploadReceive(i) \/ UploadFinish(i)
    \/ \E s \in Sweepers : SweepStep(s)
    \/ \E c \in Clients : ClientStep(c)
    \/ Tick
    \/ Crash

Spec == Init /\ [][Next]_vars

(* Time passes, the ticker keeps firing and a goroutine that waits for no     *)
(* client is scheduled.  Clients owe nothing: an upload may stall for ever.  *)
Fairness ==
    /\ WF_vars(Tick)
    /\ \A s \in Sweepers : WF_vars(SweepStep(s))
    /\ \A i \in Ids : WF_vars(UploadFinish(i))

FairSpec == Spec /\ Fairness

-----------------------------------------------------------------------------
(* Properties. *)

(* Every variable has its type; a process has a target exactly while it      *)
(* works on a chunk, and a sweep stays within gc.max_deletes.               *)
TypeOK ==
    /\ now \in 0..MaxTime
    /\ temp \in [Ids -> {"none", "part", "full"}]
    /\ tempAt \in [Ids -> Nat]
    /\ blob \in [Ids -> {"none", "part", "full"}]
    /\ meta \in [Ids -> {"none", "torn", "whole"}]
    /\ exp \in [Ids -> Nat]
    /\ up \in [Ids -> UploadState]
    /\ pc \in [Procs -> SweepState \cup ClientState]
    /\ target \in [Procs -> Ids \cup {NoId}]
    /\ \A p \in Procs : target[p] = NoId <=> pc[p] \in {"idle", "scan"}
    /\ \A s \in Sweepers : pc[s] \in SweepState
    /\ \A c \in Clients : pc[c] \in ClientState
    /\ sawBlob \in [Procs -> BOOLEAN]
    /\ sawMeta \in [Procs -> BOOLEAN]
    /\ blobGone \in [Procs -> BOOLEAN]
    /\ at \in [Sweepers -> Nat]
    /\ todo \in [Sweepers -> SUBSET Ids]
    /\ count \in [Sweepers -> 0..MaxDeletes]
    /\ faults \in Nat
    /\ crashes \in Nat
    /\ published \in SUBSET Ids
    /\ asked \in SUBSET Ids
    /\ doomed \in SUBSET Ids
    /\ misread \in SUBSET Ids
    /\ unseen \in SUBSET Ids
    /\ stuck \in SUBSET Ids
    /\ told204 \in SUBSET Ids
    /\ reclaims \in [Ids -> Nat]

(* A published chunk stays whole, blob and sidecar, until it expires or its  *)
(* owner's DELETE begins: no crash, failed removal, failed stat or other     *)
(* request takes it earlier, and a sweep only for one of two reasons.  It    *)
(* judged the chunk before its upload had committed (doomed), or it could    *)
(* not read the sidecar, which store.go takes for expired (misread).         *)
PublishedIsKept ==
    \A i \in published \ (asked \cup doomed \cup misread) :
        ~IsExpired(i) => blob[i] = "full" /\ meta[i] = "whole"

(* "A blob with no sidecar is invisible to every future sweep": none exists, *)
(* except a doomed chunk's, or one whose blob could not be removed or, being *)
(* there, could not be seen.                                                *)
NoOrphanBlob ==
    \A i \in Ids \ (doomed \cup stuck \cup unseen) : blob[i] # "none" => meta[i] # "none"

(* "A 204 guarantees the chunk is gone", both files, and for good, unless a   *)
(* stat failed of a file that was there.                                    *)
DeletedIsGone ==
    \A i \in told204 \ unseen : blob[i] = "none" /\ meta[i] = "none"

(* However many sweeps and DELETEs race for a chunk, at most one of them     *)
(* reports that it reclaimed it, so the counts of expired chunks add up; a   *)
(* doomed chunk, and one that a stat overlooked, may be counted by halves.   *)
ReclaimedOnce ==
    \A i \in Ids \ (doomed \cup unseen) : reclaims[i] <= 1

(* What the comment in Ingest promises without exceptions: writing the       *)
(* sidecar first means that a blob with no sidecar never comes about.       *)
SidecarFirstSuffices ==
    \A i \in Ids : blob[i] # "none" => meta[i] # "none" \/ i \in stuck \cup unseen

(* The chunk cache that the directory implements. *)
Life(i) ==
    IF i \notin published THEN "absent"
    ELSE IF Readable(i) THEN "available" ELSE "gone"

Cache == INSTANCE ChunkCache WITH
    clock <- now,
    life <- [i \in Ids |-> Life(i)],
    deadline <- exp

(* As seen through Store.Meta the directory is a ChunkCache: a chunk         *)
(* appears once, disappears once and for one of the four reasons, and does *)
(* not come back.                                                           *)
ImplementsCache == Cache!Spec

(* Whatever a chunk leaves on the volume, be it a temp file of an upload that *)
(* was cut off, a sidecar without a blob or an expired chunk, sweeps reclaim *)
(* it in the end.  The exceptions are the blobs that NoOrphanBlob excepts.   *)
EverythingIsReclaimed ==
    \A i \in Ids :
        (temp[i] # "none" \/ meta[i] # "none" \/ blob[i] # "none")
        ~> /\ temp[i] = "none"
           /\ meta[i] = "none"
           /\ blob[i] = "none" \/ i \in doomed \cup stuck \cup unseen
=============================================================================
