------------------------------- MODULE Quota -------------------------------
(***************************************************************************)
(* pkg/storage/quota.go: one key's daily upload allowance.  The bytes        *)
(* charged on a UTC day are a number in a file; an upload reserves its       *)
(* length before its body is read and gets it back if the ingest fails.      *)
(* The read-modify-write of the file is guarded twice: by an in-process      *)
(* mutex, the gate, which each Quota object keeps per file and a sweep may   *)
(* forget, and by flock(2) where there is one.                               *)
(*                                                                          *)
(* The module has one key: keys have files of their own and never meet.      *)
(* A limit of 0 (unlimited) touches no file and is left out.                 *)
(***************************************************************************)
EXTENDS Integers

CONSTANTS
    Reqs,           \* upload requests
    Instances,      \* Quota objects: the daemon's, a second process's
    Sweeping,       \* those whose process also runs sweeps
    InstanceOf,     \* which of them a request uses
    SizeOf,         \* the length a request declares
    Limit,          \* quota_bytes_per_day
    LockSupported,  \* whether the platform has flock
    MaxDay,         \* bound: the last UTC day
    MaxMishaps      \* bound: how many file operations fail or processes die

ASSUME QuotaAssumption ==
    /\ InstanceOf \in [Reqs -> Instances]
    /\ Sweeping \subseteq Instances
    /\ SizeOf \in [Reqs -> Nat]
    /\ Limit \in Nat \ {0}
    /\ LockSupported \in BOOLEAN
    /\ MaxDay \in Nat
    /\ MaxMishaps \in Nat

Days == 0..MaxDay

VARIABLES
    day,            \* today, in UTC
    counter,        \* counter[d]: the number in day d's file, 0 if none
    gates,          \* gates[n][d]: the gate n has for day d's file, 0 if none
    made,           \* made[n][d]: how many gates n has made for it
    pc,             \* where a request is
    op,             \* "consume" or "refund": which call it is in
    path,           \* path[r]: the day whose file the call works on
    gate,           \* gate[r]: the gate it was given for that file
    used,           \* used[r]: what it read from the file
    sweepDay,       \* sweepDay[n]: the day n's sweep took as today, or NoSweep
    mishaps,
    (* history, read by the properties only *)
    chargedOn,      \* chargedOn[r]: the day r's reservation was charged to
    inForce,        \* inForce[d]: bytes reserved on d and not given back
    lost,           \* days whose number was lost between truncate and write
    crossed         \* days that were given back bytes of an earlier day

fileVars == <<counter, lost>>
gateVars == <<gates, made>>
callVars == <<path, gate, used>>
reqVars == <<pc, op, callVars>>
histVars == <<chargedOn, inForce, crossed>>
vars == <<day, fileVars, gateVars, reqVars, sweepDay, mishaps, histVars>>

NoSweep == MaxDay + 1

-----------------------------------------------------------------------------
\* Between gate.Lock and its deferred Unlock.
HoldsGate == {"open", "locked", "truncate", "write"}

\* A bug to catch: the file stays locked while the body is read.
HoldsFileLong == {"locked", "truncate", "write", "ingest"}

\* Between lockFile and its deferred unlockFile.
HoldsFile == {"locked", "truncate", "write"}

Answered == {"refused", "stored", "failed"}

ReqState == {"idle", "gate", "ingest", "dead"} \cup HoldsGate \cup Answered

SameGate(r, q) ==
    /\ InstanceOf[r] = InstanceOf[q]
    /\ path[r] = path[q]
    /\ gate[r] = gate[q]

Init ==
    /\ day = 0
    /\ counter = [d \in Days |-> 0]
    /\ gates = [n \in Instances |-> [d \in Days |-> 0]]
    /\ made = [n \in Instances |-> [d \in Days |-> 0]]
    /\ pc = [r \in Reqs |-> "idle"]
    /\ op = [r \in Reqs |-> "consume"]
    /\ path = [r \in Reqs |-> 0]
    /\ gate = [r \in Reqs |-> 0]
    /\ used = [r \in Reqs |-> 0]
    /\ sweepDay = [n \in Sweeping |-> NoSweep]
    /\ mishaps = 0
    /\ chargedOn = [r \in Reqs |-> 0]
    /\ inForce = [d \in Days |-> 0]
    /\ lost = {}
    /\ crossed = {}

-----------------------------------------------------------------------------
(* The start of withLockedCounter: the path is the file of the current day,  *)
(* and gateFor gives the gate this object has for it, made if missing.       *)
TakeGate(r) ==
    LET n == InstanceOf[r] IN
    /\ pc' = [pc EXCEPT ![r] = "gate"]
    /\ path' = [path EXCEPT ![r] = day]
    /\ \/ /\ gates[n][day] # 0
          /\ gate' = [gate EXCEPT ![r] = gates[n][day]]
          /\ UNCHANGED gateVars
       \/ /\ gates[n][day] = 0
          /\ made' = [made EXCEPT ![n][day] = @ + 1]
          /\ gates' = [gates EXCEPT ![n][day] = made[n][day] + 1]
          /\ gate' = [gate EXCEPT ![r] = made[n][day] + 1]

(* handleUpload reserves the declared length before it reads the body.       *)
Consume(r) ==
    /\ pc[r] = "idle"
    /\ TakeGate(r)
    /\ UNCHANGED <<day, fileVars, op, used, sweepDay, mishaps, histVars>>

(* The ingest succeeds: the upload keeps its charge.                         *)
IngestOk(r) ==
    /\ pc[r] = "ingest"
    /\ pc' = [pc EXCEPT ![r] = "stored"]
    /\ chargedOn' = [chargedOn EXCEPT ![r] = 0]
    /\ UNCHANGED <<day, fileVars, gateVars, op, callVars, sweepDay, mishaps, inForce,
                   crossed>>

(* The ingest fails, and Refund takes the file of the day it is by then.     *)
Refund(r) ==
    /\ pc[r] = "ingest"
    /\ op' = [op EXCEPT ![r] = "refund"]
    /\ TakeGate(r)
    /\ UNCHANGED <<day, fileVars, used, sweepDay, mishaps, histVars>>

-----------------------------------------------------------------------------
(* The rest of withLockedCounter, one blocking or failing call at a time.    *)

(* gate.Lock.                                                                *)
LockGate(r) ==
    /\ pc[r] = "gate"
    /\ \A q \in Reqs : SameGate(r, q) => pc[q] \notin HoldsGate
    /\ pc' = [pc EXCEPT ![r] = "open"]
    /\ UNCHANGED <<day, fileVars, gateVars, op, callVars, sweepDay, mishaps,
                   histVars>>

\* A bug to catch: the file is not locked.
LockFileNever(r) ==
    /\ pc[r] = "open"
    /\ pc' = [pc EXCEPT ![r] = "locked"]
    /\ UNCHANGED <<day, fileVars, gateVars, op, callVars, sweepDay, mishaps,
                   histVars>>

(* The open of the file and lockFile, which waits for other holders where    *)
(* the platform has flock and does nothing elsewhere.                        *)
LockFile(r) ==
    /\ pc[r] = "open"
    /\ LockSupported => \A q \in Reqs : path[q] = path[r] => pc[q] \notin HoldsFile
    /\ pc' = [pc EXCEPT ![r] = "locked"]
    /\ UNCHANGED <<day, fileVars, gateVars, op, callVars, sweepDay, mishaps,
                   histVars>>

\* A bug to catch: a refund is not stopped at 0.
NextUsedUnfloored(r) ==
    IF op[r] = "consume" THEN used[r] + SizeOf[r] ELSE used[r] - SizeOf[r]

\* What mutate makes of what was read: a reservation, or a refund that stops at 0.
NextUsed(r) ==
    IF op[r] = "consume" THEN used[r] + SizeOf[r]
    ELSE IF used[r] > SizeOf[r] THEN used[r] - SizeOf[r] ELSE 0

\* The call is over: the locks are released, and its locals go.
Return(r, answer) ==
    /\ pc' = [pc EXCEPT ![r] = answer]
    /\ path' = [path EXCEPT ![r] = 0]
    /\ gate' = [gate EXCEPT ![r] = 0]
    /\ used' = [used EXCEPT ![r] = 0]

\* It returns false: no bytes have been charged, or given back.
ReturnFalse(r) ==
    /\ Return(r, IF op[r] = "consume" THEN "refused" ELSE "failed")
    /\ chargedOn' = [chargedOn EXCEPT ![r] = 0]

\* A bug to catch: the allowance is compared before the bytes are added.
OverLimitBefore(r, n) == op[r] = "consume" /\ n > Limit

\* A reservation that would exceed the limit is refused.
OverLimit(r, n) == op[r] = "consume" /\ n + SizeOf[r] > Limit

(* io.ReadAll of the counter, and the decision mutate takes on it.           *)
ReadCounter(r) ==
    LET n == counter[path[r]] IN
    /\ pc[r] = "locked"
    /\ \/ /\ OverLimit(r, n)
          /\ ReturnFalse(r)
       \/ /\ ~OverLimit(r, n)
          /\ used' = [used EXCEPT ![r] = n]
          /\ pc' = [pc EXCEPT ![r] = "truncate"]
          /\ UNCHANGED <<path, gate, chargedOn>>
    /\ UNCHANGED <<day, fileVars, gateVars, op, sweepDay, mishaps, inForce, crossed>>

(* The open, the lock, the read or the truncation fails: nothing is charged. *)
FailEarly(r) ==
    /\ pc[r] \in {"open", "locked", "truncate"}
    /\ mishaps < MaxMishaps
    /\ mishaps' = mishaps + 1
    /\ ReturnFalse(r)
    /\ UNCHANGED <<day, counter, lost, gateVars, op, sweepDay, inForce, crossed>>

(* Truncate(0): until the write, the file reads as 0.                        *)
Truncate(r) ==
    /\ pc[r] = "truncate"
    /\ counter' = [counter EXCEPT ![path[r]] = 0]
    /\ pc' = [pc EXCEPT ![r] = "write"]
    /\ UNCHANGED <<day, lost, gateVars, op, callVars, sweepDay,
                   mishaps, histVars>>

(* The write succeeds; the locks are released and the call returns true.     *)
Write(r) ==
    LET d == path[r] IN
    /\ pc[r] = "write"
    /\ counter' = [counter EXCEPT ![d] = NextUsed(r)]
    /\ \/ /\ op[r] = "consume"
          /\ Return(r, "ingest")
          /\ chargedOn' = [chargedOn EXCEPT ![r] = d]
          /\ inForce' = [inForce EXCEPT ![d] = @ + SizeOf[r]]
          /\ UNCHANGED crossed
       \/ /\ op[r] = "refund"
          /\ Return(r, "failed")
          /\ chargedOn' = [chargedOn EXCEPT ![r] = 0]
          /\ IF d = chargedOn[r]
             THEN /\ inForce' = [inForce EXCEPT ![d] = @ - SizeOf[r]]
                  /\ UNCHANGED crossed
             ELSE /\ crossed' = crossed \cup {d}
                  /\ UNCHANGED inForce
    /\ UNCHANGED <<day, lost, gateVars, op, sweepDay, mishaps>>

(* The seek or the write fails after the truncation: the day's number is     *)
(* lost, and the call returns false.                                         *)
FailLate(r) ==
    /\ pc[r] = "write"
    /\ mishaps < MaxMishaps
    /\ mishaps' = mishaps + 1
    /\ lost' = lost \cup {path[r]}
    /\ ReturnFalse(r)
    /\ UNCHANGED <<day, counter, gateVars, op, sweepDay, inForce, crossed>>

-----------------------------------------------------------------------------
(* Sweep takes its now ...                                                   *)
SweepBegin(n) ==
    /\ sweepDay[n] = NoSweep
    /\ sweepDay' = [sweepDay EXCEPT ![n] = day]
    /\ UNCHANGED <<day, fileVars, gateVars, reqVars, mishaps, histVars>>

(* ... and, when its work is done, forgets the gates of every other day.     *)
ForgetStaleGates(n) ==
    /\ sweepDay[n] # NoSweep
    /\ gates' = [gates EXCEPT ![n] =
                     [d \in Days |-> IF d = sweepDay[n] THEN gates[n][d] ELSE 0]]
    /\ sweepDay' = [sweepDay EXCEPT ![n] = NoSweep]
    /\ UNCHANGED <<day, fileVars, made, reqVars, mishaps, histVars>>

Midnight ==
    /\ day < MaxDay
    /\ day' = day + 1
    /\ UNCHANGED <<fileVars, gateVars, reqVars, sweepDay, mishaps, histVars>>

(* A process dies.  The kernel drops its locks; a counter it had truncated   *)
(* and not yet written stays empty; its reservations are never given back.   *)
Crash(n) ==
    LET dying == {r \in Reqs : /\ InstanceOf[r] = n
                               /\ pc[r] \in {"gate", "ingest"} \cup HoldsGate} IN
    /\ mishaps < MaxMishaps
    /\ mishaps' = mishaps + 1
    /\ pc' = [r \in Reqs |-> IF r \in dying THEN "dead" ELSE pc[r]]
    /\ path' = [r \in Reqs |-> IF r \in dying THEN 0 ELSE path[r]]
    /\ gate' = [r \in Reqs |-> IF r \in dying THEN 0 ELSE gate[r]]
    /\ used' = [r \in Reqs |-> IF r \in dying THEN 0 ELSE used[r]]
    /\ chargedOn' = [r \in Reqs |-> IF r \in dying THEN 0 ELSE chargedOn[r]]
    /\ lost' = lost \cup {path[r] : r \in {q \in dying : pc[q] = "write"}}
    /\ gates' = [gates EXCEPT ![n] = [d \in Days |-> 0]]
    /\ sweepDay' = [m \in Sweeping |-> IF m = n THEN NoSweep ELSE sweepDay[m]]
    /\ UNCHANGED <<day, counter, made, op, inForce, crossed>>

-----------------------------------------------------------------------------
\* What a request does inside the two calls, waiting for nothing but the locks.
CounterStep(r) ==
    \/ LockGate(r)
    \/ LockFile(r)
    \/ ReadCounter(r)
    \/ FailEarly(r)
    \/ Truncate(r)
    \/ Write(r)
    \/ FailLate(r)

Next ==
    \/ \E r \in Reqs : Consume(r) \/ IngestOk(r) \/ Refund(r) \/ CounterStep(r)
    \/ \E n \in Sweeping : SweepBegin(n) \/ ForgetStaleGates(n)
    \/ \E n \in Instances : Crash(n)
    \/ Midnight

Spec == Init /\ [][Next]_vars

(* The goroutine of a request runs whenever it is not waiting for a lock.    *)
FairSpec == Spec /\ \A r \in Reqs : WF_vars(CounterStep(r))

-----------------------------------------------------------------------------
(* Properties. *)

(* Every variable has its type: no counter goes below 0, and every call works *)
(* on the file of a day that exists.                                         *)
TypeOK ==
    /\ day \in Days
    /\ counter \in [Days -> Nat]
    /\ gates \in [Instances -> [Days -> Nat]]
    /\ made \in [Instances -> [Days -> Nat]]
    /\ pc \in [Reqs -> ReqState]
    /\ op \in [Reqs -> {"consume", "refund"}]
    /\ path \in [Reqs -> Days]
    /\ gate \in [Reqs -> Nat]
    /\ used \in [Reqs -> Nat]
    /\ sweepDay \in [Sweeping -> Days \cup {NoSweep}]
    /\ mishaps \in 0..MaxMishaps
    /\ chargedOn \in [Reqs -> Days]
    /\ inForce \in [Days -> Int]
    /\ lost \in SUBSET Days
    /\ crossed \in SUBSET Days

(* No two requests are between the read and the write of one counter file,   *)
(* whichever process they run in and whatever gates have been forgotten.     *)
OneWriterPerFile ==
    \A r, q \in Reqs :
        /\ r # q
        /\ pc[r] \in HoldsFile
        /\ pc[q] \in HoldsFile
        => path[r] # path[q]

(* Concurrent uploads cannot collectively overshoot the allowance: what is   *)
(* reserved on a day and not given back never exceeds the limit.  Two things *)
(* void the day: its number was lost in the middle of a write, or it was     *)
(* given back bytes reserved on the day before.                              *)
WithinDailyLimit ==
    \A d \in Days \ (lost \cup crossed) : inForce[d] <= Limit

(* No update of a counter is lost: while nobody rewrites it, the file holds  *)
(* exactly what is reserved and not given back, so no key is ever refused an *)
(* allowance it has left.                                                    *)
CounterIsExact ==
    \A d \in Days \ (lost \cup crossed) :
        (\A r \in Reqs : ~(pc[r] = "write" /\ path[r] = d)) => counter[d] = inForce[d]

(* The comment of Consume, without exceptions for the turn of the day: an    *)
(* I/O error apart, uploads cannot collectively overshoot.                   *)
NeverOvershoots ==
    \A d \in Days \ lost : inForce[d] <= Limit

(* The comment in lock_other.go: without flock, the in-process mutex is      *)
(* enough for one daemon on its own, so that today's number undercounts      *)
(* nothing.                                                                  *)
GateIsEnough ==
    day \notin lost \cup crossed =>
        \/ \E r \in Reqs : pc[r] = "write" /\ path[r] = day
        \/ counter[day] >= inForce[day]

(* Every call of Consume or Refund returns: the two locks never deadlock, and *)
(* forgetting a gate strands nobody, so there is always a later moment at     *)
(* which no call is in progress.                                             *)
CallsReturn == []<>(\A r \in Reqs : pc[r] \notin {"gate"} \cup HoldsGate)
=============================================================================
