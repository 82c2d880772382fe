---------------------------- MODULE QuotaProofs ----------------------------
(***************************************************************************)
(* Proofs about Quota, for any requests, processes, lengths and limit, and   *)
(* any number of days, failures and crashes.  Where the platform has flock,  *)
(* concurrent uploads never take a day past its allowance, and a counter     *)
(* never shows less than what is reserved.                                   *)
(***************************************************************************)
EXTENDS Quota, FiniteSetTheorems, TLAPS

(* Between the read and the write of a counter, what was read still covers   *)
(* all that is reserved.                                                     *)
ReadIsCurrent ==
    \A r \in Reqs :
        /\ pc[r] \in {"truncate", "write"}
        /\ path[r] \notin lost \cup crossed
        => inForce[path[r]] <= used[r]

(* A reservation that got as far as truncating the file fits the allowance.  *)
ReservationFits ==
    \A r \in Reqs :
        /\ pc[r] \in {"truncate", "write"}
        /\ op[r] = "consume"
        => used[r] + SizeOf[r] <= Limit

(* Outside a rewrite the counter covers all that is reserved.                *)
NeverUndercounts ==
    \A d \in Days \ (lost \cup crossed) :
        (\A r \in Reqs : ~(pc[r] = "write" /\ path[r] = d)) => inForce[d] <= counter[d]

\* What makes WithinDailyLimit inductive, beside TypeOK and OneWriterPerFile.
LimitInv ==
    /\ ReadIsCurrent
    /\ ReservationFits
    /\ NeverUndercounts
    /\ WithinDailyLimit

-----------------------------------------------------------------------------
\* There is a first day.
LEMMA ZeroIsADay == 0 \in Days
  BY QuotaAssumption DEF Days

(* A refund or a reservation leaves a byte count that is not negative.       *)
LEMMA NextUsedNat ==
    ASSUME TypeOK, NEW r \in Reqs
    PROVE  NextUsed(r) \in Nat
  BY QuotaAssumption DEF TypeOK, NextUsed

(* Whatever gate a call is given, its locals and the gates are well formed.   *)
LEMMA TakeGateTypes ==
    ASSUME TypeOK, NEW r \in Reqs, TakeGate(r)
    PROVE  /\ pc' \in [Reqs -> ReqState]
           /\ path' \in [Reqs -> Days]
           /\ gate' \in [Reqs -> Nat]
           /\ gates' \in [Instances -> [Days -> Nat]]
           /\ made' \in [Instances -> [Days -> Nat]]
<1> DEFINE n == InstanceOf[r]
<1>1. n \in Instances /\ day \in Days
  BY QuotaAssumption DEF TypeOK
<1>2. gates[n][day] \in Nat /\ made[n][day] \in Nat
  BY <1>1 DEF TypeOK
<1>3. pc' \in [Reqs -> ReqState] /\ path' \in [Reqs -> Days]
  BY <1>1 DEF TypeOK, TakeGate, ReqState
<1>4. CASE gates[n][day] # 0
  BY <1>2, <1>3, <1>4 DEF TypeOK, TakeGate, gateVars
<1>5. CASE gates[n][day] = 0
  <2>1. /\ gates' = [gates EXCEPT ![n][day] = made[n][day] + 1]
        /\ made' = [made EXCEPT ![n][day] = made[n][day] + 1]
        /\ gate' = [gate EXCEPT ![r] = made[n][day] + 1]
    BY <1>5 DEF TakeGate
  <2>2. gates' \in [Instances -> [Days -> Nat]] /\ made' \in [Instances -> [Days -> Nat]]
    BY <1>1, <1>2, <2>1 DEF TypeOK
  <2> QED
    BY <1>2, <1>3, <2>1, <2>2 DEF TypeOK
<1> QED
  BY <1>4, <1>5

(* A call that returns leaves well-formed locals behind.                      *)
LEMMA ReturnTypes ==
    ASSUME TypeOK, NEW r \in Reqs, NEW answer \in ReqState, Return(r, answer)
    PROVE  /\ pc' \in [Reqs -> ReqState]
           /\ path' \in [Reqs -> Days]
           /\ gate' \in [Reqs -> Nat]
           /\ used' \in [Reqs -> Nat]
  BY ZeroIsADay DEF TypeOK, Return

(* ... and so does one that returns false.                                    *)
LEMMA ReturnFalseTypes ==
    ASSUME TypeOK, NEW r \in Reqs, ReturnFalse(r)
    PROVE  /\ pc' \in [Reqs -> ReqState]
           /\ path' \in [Reqs -> Days]
           /\ gate' \in [Reqs -> Nat]
           /\ used' \in [Reqs -> Nat]
           /\ chargedOn' \in [Reqs -> Days]
<1>1. {"refused", "failed"} \subseteq ReqState
  BY DEF ReqState, Answered
<1>2. chargedOn' \in [Reqs -> Days]
  BY ZeroIsADay DEF TypeOK, ReturnFalse
<1>3. Return(r, IF op[r] = "consume" THEN "refused" ELSE "failed")
  BY DEF ReturnFalse
<1>4. CASE op[r] = "consume"
  <2>1. Return(r, "refused")
    BY <1>3, <1>4
  <2> QED
    BY <1>1, <1>2, <2>1, ReturnTypes
<1>5. CASE op[r] # "consume"
  <2>1. Return(r, "failed")
    BY <1>3, <1>5
  <2> QED
    BY <1>1, <1>2, <2>1, ReturnTypes
<1> QED
  BY <1>4, <1>5

(* Every variable keeps its type: Consume, Refund and the sweep's forgetting *)
(* of gates never leave a malformed counter, gate or reservation.            *)
THEOREM TypeCorrect == Spec => []TypeOK
<1>1. Init => TypeOK
  BY QuotaAssumption DEF Init, TypeOK, Days, NoSweep, ReqState
<1>2. TypeOK /\ [Next]_vars => TypeOK'
  <2> SUFFICES ASSUME TypeOK, [Next]_vars PROVE TypeOK'
    OBVIOUS
  <2> USE QuotaAssumption
  <2> USE DEF TypeOK, fileVars, gateVars, callVars, histVars, ReqState, HoldsGate, Answered
  <2>1. ASSUME NEW r \in Reqs, Consume(r) PROVE TypeOK'
    BY <2>1, TakeGateTypes DEF Consume
  <2>2. ASSUME NEW r \in Reqs, IngestOk(r) PROVE TypeOK'
    BY <2>2, ZeroIsADay DEF IngestOk
  <2>3. ASSUME NEW r \in Reqs, Refund(r) PROVE TypeOK'
    BY <2>3, TakeGateTypes DEF Refund
  <2>4. ASSUME NEW r \in Reqs, LockGate(r) PROVE TypeOK'
    BY <2>4 DEF LockGate
  <2>5. ASSUME NEW r \in Reqs, LockFile(r) PROVE TypeOK'
    BY <2>5 DEF LockFile
  <2>6. ASSUME NEW r \in Reqs, ReadCounter(r) PROVE TypeOK'
    <3>1. path[r] \in Days /\ counter[path[r]] \in Nat
      OBVIOUS
    <3>2. CASE OverLimit(r, counter[path[r]])
      <4>1. ReturnFalse(r) /\ UNCHANGED <<day, fileVars, gateVars, op, sweepDay,
                                          mishaps, inForce, crossed>>
        BY <2>6, <3>2 DEF ReadCounter
      <4> QED
        BY <4>1, ReturnFalseTypes
    <3>3. CASE ~OverLimit(r, counter[path[r]])
      BY <2>6, <3>1, <3>3 DEF ReadCounter
    <3> QED
      BY <3>2, <3>3
  <2>7. ASSUME NEW r \in Reqs, FailEarly(r) PROVE TypeOK'
    BY <2>7, ReturnFalseTypes DEF FailEarly
  <2>8. ASSUME NEW r \in Reqs, Truncate(r) PROVE TypeOK'
    BY <2>8 DEF Truncate
  <2>9. ASSUME NEW r \in Reqs, Write(r) PROVE TypeOK'
    <3>1. path[r] \in Days /\ NextUsed(r) \in Nat
      BY NextUsedNat
    <3>2. counter' \in [Days -> Nat]
      BY <2>9, <3>1 DEF Write
    <3>3. /\ pc' \in [Reqs -> ReqState]
          /\ path' \in [Reqs -> Days]
          /\ gate' \in [Reqs -> Nat]
          /\ used' \in [Reqs -> Nat]
      <4>1. PICK answer \in ReqState : Return(r, answer)
        BY <2>9 DEF Write
      <4> QED
        BY <4>1, ReturnTypes
    <3>4. chargedOn' \in [Reqs -> Days]
      BY <2>9, ZeroIsADay, <3>1 DEF Write
    <3>5. inForce' \in [Days -> Int] /\ crossed' \in SUBSET Days
      BY <2>9, <3>1 DEF Write
    <3> QED
      BY <2>9, <3>2, <3>3, <3>4, <3>5 DEF Write
  <2>10. ASSUME NEW r \in Reqs, FailLate(r) PROVE TypeOK'
    BY <2>10, ReturnFalseTypes DEF FailLate
  <2>11. ASSUME NEW n \in Sweeping, SweepBegin(n) PROVE TypeOK'
    BY <2>11 DEF SweepBegin, reqVars
  <2>12. ASSUME NEW n \in Sweeping, ForgetStaleGates(n) PROVE TypeOK'
    BY <2>12 DEF ForgetStaleGates, reqVars
  <2>13. ASSUME NEW n \in Instances, Crash(n) PROVE TypeOK'
    <3>1. lost' \subseteq Days
      BY <2>13, ZeroIsADay DEF Crash
    <3>2. pc' \in [Reqs -> ReqState]
      BY <2>13, ZeroIsADay DEF Crash
    <3>3. gates' \in [Instances -> [Days -> Nat]]
      BY <2>13, ZeroIsADay DEF Crash
    <3>4. sweepDay' \in [Sweeping -> Days \cup {NoSweep}]
      BY <2>13, ZeroIsADay DEF Crash
    <3> QED
      BY <2>13, ZeroIsADay, <3>1, <3>2, <3>3, <3>4 DEF Crash
  <2>14. CASE Midnight
    <3>1. day' \in Days
      BY <2>14 DEF Midnight, Days
    <3> QED
      BY <2>14, <3>1 DEF Midnight, reqVars
  <2>15. CASE UNCHANGED vars
    BY <2>15 DEF vars, reqVars
  <2> QED
    BY <2>1, <2>2, <2>3, <2>4, <2>5, <2>6, <2>7, <2>8, <2>9, <2>10, <2>11, <2>12,
       <2>13, <2>14, <2>15 DEF Next, CounterStep
<1> QED
  BY <1>1, <1>2, PTL DEF Spec

-----------------------------------------------------------------------------
(* With flock, no two calls are between the read and the write of one file:  *)
(* not those of two processes, and not those of one whose gate a sweep       *)
(* forgot in between.  The gates play no part in the argument.               *)
THEOREM FlockExcludes ==
    ASSUME LockSupported PROVE Spec => []OneWriterPerFile
<1>1. Init => OneWriterPerFile
  BY DEF Init, OneWriterPerFile, HoldsFile
<1>2. TypeOK /\ OneWriterPerFile /\ [Next]_vars => OneWriterPerFile'
  <2> SUFFICES ASSUME TypeOK, OneWriterPerFile, [Next]_vars,
                      NEW a \in Reqs, NEW b \in Reqs, a # b,
                      pc'[a] \in HoldsFile, pc'[b] \in HoldsFile
               PROVE  path'[a] # path'[b]
    BY DEF OneWriterPerFile
  <2> DEFINE Kept(r) == pc[r] \in HoldsFile /\ path'[r] = path[r]
  \* A call that holds the file held it before, on the same path.
  <2>1. SUFFICES ASSUME ~(Kept(a) /\ Kept(b)) PROVE path'[a] # path'[b]
    BY DEF OneWriterPerFile
  <2>2. ASSUME NEW r \in Reqs, LockFile(r) PROVE path'[a] # path'[b]
    BY <2>2, <2>1 DEF LockFile, callVars, TypeOK, HoldsFile
  <2>3. ASSUME NEW r \in Reqs, Consume(r) \/ Refund(r) PROVE FALSE
    BY <2>3, <2>1 DEF Consume, Refund, TakeGate, TypeOK, HoldsFile
  <2>4. ASSUME NEW r \in Reqs, IngestOk(r) \/ LockGate(r) \/ Truncate(r) PROVE FALSE
    BY <2>4, <2>1 DEF IngestOk, LockGate, Truncate, callVars, TypeOK, HoldsFile
  <2>5. ASSUME NEW r \in Reqs, ReadCounter(r) PROVE FALSE
    BY <2>5, <2>1 DEF ReadCounter, ReturnFalse, Return, TypeOK, HoldsFile
  <2>6. ASSUME NEW r \in Reqs, FailEarly(r) \/ FailLate(r) PROVE FALSE
    BY <2>6, <2>1 DEF FailEarly, FailLate, ReturnFalse, Return, TypeOK, HoldsFile
  <2>7. ASSUME NEW r \in Reqs, Write(r) PROVE FALSE
    BY <2>7, <2>1 DEF Write, Return, TypeOK, HoldsFile
  <2>8. ASSUME NEW n \in Sweeping, SweepBegin(n) \/ ForgetStaleGates(n) PROVE FALSE
    BY <2>8, <2>1 DEF SweepBegin, ForgetStaleGates, reqVars, callVars
  <2>9. ASSUME NEW n \in Instances, Crash(n) PROVE FALSE
    BY <2>9, <2>1 DEF Crash, HoldsFile
  <2>10. CASE Midnight \/ UNCHANGED vars
    BY <2>10, <2>1 DEF Midnight, vars, reqVars, callVars
  <2> QED
    BY <2>2, <2>3, <2>4, <2>5, <2>6, <2>7, <2>8, <2>9, <2>10 DEF Next, CounterStep
<1> QED
  BY <1>1, <1>2, TypeCorrect, PTL DEF Spec

-----------------------------------------------------------------------------
\* r stays where it was with what it read.
Kept(r) ==
    /\ pc'[r] = pc[r]
    /\ path'[r] = path[r]
    /\ used'[r] = used[r]
    /\ op'[r] = op[r]

\* A step that touches no counter and lets no call begin its write.  A call that
\* drops out in the middle of its write voids the day.
Quiet ==
    /\ UNCHANGED <<counter, inForce, crossed>>
    /\ lost \subseteq lost'
    /\ \A r \in Reqs :
        /\ pc'[r] \in {"truncate", "write"} => Kept(r)
        /\ pc[r] = "write" => Kept(r) \/ path[r] \in lost'

(* Taking a gate, a lock, an ingest, a sweep or midnight cannot disturb what  *)
(* the counters account for.                                                 *)
LEMMA QuietKeeps ==
    ASSUME LimitInv, Quiet PROVE LimitInv'
<1>1. ReadIsCurrent'
  BY DEF LimitInv, Quiet, Kept, ReadIsCurrent
<1>2. ReservationFits'
  BY DEF LimitInv, Quiet, Kept, ReservationFits
<1>3. NeverUndercounts'
  BY DEF LimitInv, Quiet, Kept, NeverUndercounts
<1>4. WithinDailyLimit'
  BY DEF LimitInv, Quiet, Kept, WithinDailyLimit
<1> QED
  BY <1>1, <1>2, <1>3, <1>4 DEF LimitInv

(* Which steps are quiet.                                                     *)
LEMMA QuietSteps ==
    ASSUME TypeOK, NEW r \in Reqs,
           \/ Consume(r) \/ Refund(r) \/ IngestOk(r) \/ LockGate(r) \/ LockFile(r)
    PROVE  Quiet
<1>1. CASE Consume(r) \/ Refund(r)
  BY <1>1 DEF Consume, Refund, TakeGate, Quiet, Kept, TypeOK, fileVars, histVars
<1>2. CASE IngestOk(r)
  BY <1>2 DEF IngestOk, Quiet, Kept, TypeOK, fileVars, callVars
<1>3. CASE LockGate(r) \/ LockFile(r)
  BY <1>3 DEF LockGate, LockFile, Quiet, Kept, TypeOK, fileVars, callVars, histVars
<1> QED
  BY <1>1, <1>2, <1>3

(* What was reserved stays within the allowance when a call reads a counter.  *)
LEMMA ReadKeeps ==
    ASSUME TypeOK, OneWriterPerFile, LimitInv, NEW r \in Reqs, ReadCounter(r)
    PROVE  LimitInv'
<1> DEFINE d == path[r]
<1>1. d \in Days /\ counter[d] \in Nat /\ inForce[d] \in Int /\ pc[r] = "locked"
  BY DEF TypeOK, ReadCounter
<1>2. CASE OverLimit(r, counter[d])
  <2>1. pc'[r] \in {"refused", "failed"} /\ pc[r] = "locked"
    BY <1>2 DEF ReadCounter, ReturnFalse, Return, TypeOK
  <2>2. Quiet
    BY <1>2, <2>1 DEF ReadCounter, ReturnFalse, Return, Quiet, Kept, TypeOK, fileVars
  <2> QED
    BY <2>2, QuietKeeps
<1>3. CASE ~OverLimit(r, counter[d])
  <2>1. /\ used' = [used EXCEPT ![r] = counter[d]]
        /\ pc' = [pc EXCEPT ![r] = "truncate"]
        /\ UNCHANGED <<path, op, counter, lost, crossed, inForce>>
    BY <1>3 DEF ReadCounter, fileVars
  <2>2. \A q \in Reqs : ~(pc[q] = "write" /\ path[q] = d)
    BY <1>1 DEF OneWriterPerFile, HoldsFile
  <2>3. ReadIsCurrent'
    <3> SUFFICES ASSUME NEW q \in Reqs, pc'[q] \in {"truncate", "write"},
                        path[q] \notin lost \cup crossed
                 PROVE  inForce[path[q]] <= used'[q]
      BY <2>1 DEF ReadIsCurrent
    <3>1. CASE q = r
      BY <1>1, <2>1, <2>2, <3>1 DEF LimitInv, NeverUndercounts, TypeOK
    <3>2. CASE q # r
      BY <2>1, <3>2 DEF LimitInv, ReadIsCurrent, TypeOK
    <3> QED
      BY <3>1, <3>2
  <2>4. ReservationFits'
    <3> SUFFICES ASSUME NEW q \in Reqs, pc'[q] \in {"truncate", "write"},
                        op[q] = "consume"
                 PROVE  used'[q] + SizeOf[q] <= Limit
      BY <2>1 DEF ReservationFits
    <3>1. CASE q = r
      <4>1. used'[q] = counter[d] /\ SizeOf[q] \in Nat /\ Limit \in Nat
        BY <2>1, <3>1, QuotaAssumption DEF TypeOK
      <4> QED
        BY <1>1, <1>3, <3>1, <4>1 DEF OverLimit
    <3>2. CASE q # r
      BY <2>1, <3>2 DEF LimitInv, ReservationFits, TypeOK
    <3> QED
      BY <3>1, <3>2
  <2>5. NeverUndercounts'
    BY <1>1, <2>1 DEF LimitInv, NeverUndercounts, TypeOK
  <2>6. WithinDailyLimit'
    BY <2>1 DEF LimitInv, WithinDailyLimit
  <2> QED
    BY <2>3, <2>4, <2>5, <2>6 DEF LimitInv
<1> QED
  BY <1>2, <1>3

(* A file that is empty for a moment is not trusted until it is rewritten.    *)
LEMMA TruncateKeeps ==
    ASSUME TypeOK, LimitInv, NEW r \in Reqs, Truncate(r)
    PROVE  LimitInv'
<1>1. /\ pc[r] = "truncate"
      /\ pc' = [pc EXCEPT ![r] = "write"]
      /\ counter' = [counter EXCEPT ![path[r]] = 0]
      /\ UNCHANGED <<path, used, op, lost, crossed, inForce>>
  BY DEF Truncate, callVars, histVars
<1>2. ReadIsCurrent'
  BY <1>1 DEF LimitInv, ReadIsCurrent, TypeOK
<1>3. ReservationFits'
  BY <1>1 DEF LimitInv, ReservationFits, TypeOK
<1>4. NeverUndercounts'
  BY <1>1 DEF LimitInv, NeverUndercounts, TypeOK
<1>5. WithinDailyLimit'
  BY <1>1 DEF LimitInv, WithinDailyLimit
<1> QED
  BY <1>2, <1>3, <1>4, <1>5 DEF LimitInv

(* A write charges or gives back what was decided on a number still current,  *)
(* because nobody else was between its own read and its own write.           *)
LEMMA WriteKeeps ==
    ASSUME TypeOK, OneWriterPerFile, LimitInv, NEW r \in Reqs, Write(r)
    PROVE  LimitInv'
<1> DEFINE d == path[r]
<1>1. /\ d \in Days
      /\ pc[r] = "write"
      /\ used[r] \in Nat
      /\ SizeOf[r] \in Nat
      /\ inForce[d] \in Int
      /\ Limit \in Nat
  BY QuotaAssumption DEF TypeOK, Write
<1>2. /\ counter' = [counter EXCEPT ![d] = NextUsed(r)]
      /\ pc'[r] \notin {"truncate", "write"}
      /\ \A q \in Reqs \ {r} : pc'[q] = pc[q] /\ path'[q] = path[q] /\ used'[q] = used[q]
      /\ UNCHANGED <<op, lost>>
  BY <1>1 DEF Write, Return, TypeOK
<1>3. /\ crossed \subseteq crossed'
      /\ \A e \in Days \ {d} : inForce'[e] = inForce[e]
  BY <1>1 DEF Write, TypeOK
<1>4. ASSUME d \notin lost' \cup crossed'
      PROVE  inForce'[d] <= NextUsed(r) /\ inForce'[d] <= Limit
  <2>1. d \notin lost \cup crossed /\ inForce[d] <= used[r] /\ inForce[d] <= Limit
    BY <1>1, <1>2, <1>3, <1>4 DEF LimitInv, ReadIsCurrent, WithinDailyLimit
  <2>2. CASE op[r] = "consume"
    <3>1. inForce' = [inForce EXCEPT ![d] = @ + SizeOf[r]]
      BY <2>2 DEF Write
    <3>2. used[r] + SizeOf[r] <= Limit
      BY <1>1, <2>2 DEF LimitInv, ReservationFits
    <3>3. inForce'[d] = inForce[d] + SizeOf[r]
      BY <1>1, <3>1 DEF TypeOK
    <3> QED
      BY <1>1, <2>1, <2>2, <3>2, <3>3 DEF NextUsed
  <2>3. CASE op[r] = "refund"
    <3>1. inForce' = [inForce EXCEPT ![d] = @ - SizeOf[r]]
      BY <1>4, <2>3 DEF Write
    <3>2. inForce'[d] = inForce[d] - SizeOf[r]
      BY <1>1, <3>1 DEF TypeOK
    <3> QED
      BY <1>1, <2>1, <2>3, <3>2 DEF NextUsed
  <2> QED
    BY <2>2, <2>3 DEF TypeOK
<1>5. \A q \in Reqs \ {r} : pc[q] \in {"truncate", "write"} => path[q] # d
  BY <1>1 DEF OneWriterPerFile, HoldsFile
<1>6. ReadIsCurrent'
  BY <1>2, <1>3, <1>5 DEF LimitInv, ReadIsCurrent, TypeOK
<1>7. ReservationFits'
  BY <1>2 DEF LimitInv, ReservationFits
<1>8. NeverUndercounts'
  <2> SUFFICES ASSUME NEW e \in Days, e \notin lost' \cup crossed',
                      \A q \in Reqs : ~(pc'[q] = "write" /\ path'[q] = e)
               PROVE  inForce'[e] <= counter'[e]
    BY DEF NeverUndercounts
  <2>1. CASE e = d
    BY <1>1, <1>2, <1>4, <2>1 DEF TypeOK
  <2>2. CASE e # d
    BY <1>2, <1>3, <2>2 DEF LimitInv, NeverUndercounts, TypeOK
  <2> QED
    BY <2>1, <2>2
<1>9. WithinDailyLimit'
  BY <1>2, <1>3, <1>4 DEF LimitInv, WithinDailyLimit
<1> QED
  BY <1>6, <1>7, <1>8, <1>9 DEF LimitInv

(* However many requests run, in whatever processes, and however their        *)
(* failures, crashes, sweeps and midnights fall: the bytes reserved on a day  *)
(* and not given back never exceed the allowance, unless the day was voided.  *)
LEMMA LimitInvariant ==
    ASSUME LockSupported PROVE Spec => []LimitInv
<1>1. Init => LimitInv
  BY QuotaAssumption DEF Init, LimitInv, ReadIsCurrent, ReservationFits, NeverUndercounts,
     WithinDailyLimit
<1>2. TypeOK /\ OneWriterPerFile /\ LimitInv /\ [Next]_vars => LimitInv'
  <2> SUFFICES ASSUME TypeOK, OneWriterPerFile, LimitInv, [Next]_vars PROVE LimitInv'
    OBVIOUS
  <2>1. ASSUME NEW r \in Reqs, Consume(r) \/ Refund(r) \/ IngestOk(r) PROVE LimitInv'
    BY <2>1, QuietSteps, QuietKeeps
  <2>2. ASSUME NEW r \in Reqs, LockGate(r) \/ LockFile(r) PROVE LimitInv'
    BY <2>2, QuietSteps, QuietKeeps
  <2>3. ASSUME NEW r \in Reqs, ReadCounter(r) PROVE LimitInv'
    BY <2>3, ReadKeeps
  <2>4. ASSUME NEW r \in Reqs, FailEarly(r) PROVE LimitInv'
    <3>1. Quiet
      BY <2>4 DEF FailEarly, ReturnFalse, Return, Quiet, Kept, TypeOK
    <3> QED
      BY <3>1, QuietKeeps
  <2>5. ASSUME NEW r \in Reqs, Truncate(r) PROVE LimitInv'
    BY <2>5, TruncateKeeps
  <2>6. ASSUME NEW r \in Reqs, Write(r) PROVE LimitInv'
    BY <2>6, WriteKeeps
  <2>7. ASSUME NEW r \in Reqs, FailLate(r) PROVE LimitInv'
    <3>1. Quiet
      BY <2>7 DEF FailLate, ReturnFalse, Return, Quiet, Kept, TypeOK
    <3> QED
      BY <3>1, QuietKeeps
  <2>8. ASSUME NEW n \in Sweeping, SweepBegin(n) \/ ForgetStaleGates(n) PROVE LimitInv'
    <3>1. Quiet
      BY <2>8 DEF SweepBegin, ForgetStaleGates, Quiet, Kept, fileVars, reqVars, callVars, histVars
    <3> QED
      BY <3>1, QuietKeeps
  <2>9. ASSUME NEW n \in Instances, Crash(n) PROVE LimitInv'
    <3>1. Quiet
      BY <2>9 DEF Crash, Quiet, Kept
    <3> QED
      BY <3>1, QuietKeeps
  <2>10. CASE Midnight \/ UNCHANGED vars
    <3>1. Quiet
      BY <2>10 DEF Midnight, vars, Quiet, Kept, fileVars, reqVars, callVars, histVars
    <3> QED
      BY <3>1, QuietKeeps
  <2> QED
    BY <2>1, <2>2, <2>3, <2>4, <2>5, <2>6, <2>7, <2>8, <2>9, <2>10 DEF Next, CounterStep
<1> QED
  BY <1>1, <1>2, TypeCorrect, FlockExcludes, PTL DEF Spec

(* Concurrent uploads cannot collectively overshoot the daily allowance.      *)
THEOREM LimitHolds ==
    ASSUME LockSupported PROVE Spec => []WithinDailyLimit
<1>1. LimitInv => WithinDailyLimit
  BY DEF LimitInv
<1> QED
  BY <1>1, LimitInvariant, PTL

(* Whenever nobody rewrites it, a counter covers all that is reserved.        *)
THEOREM CounterCovers ==
    ASSUME LockSupported PROVE Spec => []NeverUndercounts
<1>1. LimitInv => NeverUndercounts
  BY DEF LimitInv
<1> QED
  BY <1>1, LimitInvariant, PTL

-----------------------------------------------------------------------------
(* That a counter is exact needs more: a refund subtracts what it finds        *)
(* there, and stops at 0.  It must never have to stop, so a refund's own bytes *)
(* must be among those reserved.  A ledger of the bytes, each of them a pair   *)
(* of its request and its number, says that without a sum.                    *)

\* Between the read and the write of a counter, what was read is still the number.
ReadIsExact ==
    \A r \in Reqs :
        /\ pc[r] \in {"truncate", "write"}
        /\ path[r] \notin lost \cup crossed
        => used[r] = inForce[path[r]]

\* What a request reserves, byte by byte.
Bytes(r) == {r} \X (1..SizeOf[r])

\* A request that has reserved nothing yet, and one whose reservation stands.
Unreserved(r) == op[r] = "consume" /\ pc[r] \in {"idle", "gate"} \cup HoldsGate
Outstanding(r) ==
    pc[r] = "ingest" \/ (op[r] = "refund" /\ pc[r] \in {"gate"} \cup HoldsGate)

\* held[d] are the bytes in force on day d.
Ledger(held) ==
    /\ \A d \in Days : IsFiniteSet(held[d]) /\ Cardinality(held[d]) = inForce[d]
    /\ \A r \in Reqs : Outstanding(r) => Bytes(r) \subseteq held[chargedOn[r]]
    /\ \A r \in Reqs, d \in Days : Unreserved(r) => Bytes(r) \cap held[d] = {}

\* A request begins with a reservation.
BeginsWithConsume == \A r \in Reqs : pc[r] = "idle" => op[r] = "consume"

Books == [Days -> SUBSET (Reqs \X Nat)]

ExactInv ==
    /\ BeginsWithConsume
    /\ ReadIsExact
    /\ CounterIsExact
    /\ \E held \in Books : Ledger(held)

(* A request's bytes are as many as its length, and nobody else's.           *)
LEMMA BytesAreMany ==
    ASSUME NEW r \in Reqs
    PROVE  /\ IsFiniteSet(Bytes(r)) /\ Cardinality(Bytes(r)) = SizeOf[r]
           /\ Bytes(r) \subseteq Reqs \X Nat
           /\ \A q \in Reqs : q # r => Bytes(q) \cap Bytes(r) = {}
<1>1. SizeOf[r] \in Nat
  BY QuotaAssumption
<1>2. IsFiniteSet(1..SizeOf[r]) /\ Cardinality(1..SizeOf[r]) = SizeOf[r]
  BY <1>1, FS_Interval
<1>3. IsFiniteSet({r}) /\ Cardinality({r}) = 1
  BY FS_Singleton
<1>4. IsFiniteSet(Bytes(r)) /\ Cardinality(Bytes(r)) = Cardinality({r}) * Cardinality(1..SizeOf[r])
  BY <1>2, <1>3, FS_Product DEF Bytes
<1>5. Bytes(r) \subseteq Reqs \X Nat
  BY <1>1 DEF Bytes
<1>6. \A q \in Reqs : q # r => Bytes(q) \cap Bytes(r) = {}
  BY DEF Bytes
<1> QED
  BY <1>1, <1>2, <1>3, <1>4, <1>5, <1>6

(* Where no number changes and no reservation begins, the ledger stands.     *)
LEMMA LedgerStands ==
    ASSUME \E held \in Books : Ledger(held), inForce' = inForce,
           \A r \in Reqs : /\ Unreserved(r)' => Unreserved(r)
                           /\ Outstanding(r)' => Outstanding(r) /\ chargedOn'[r] = chargedOn[r]
    PROVE  (\E held \in Books : Ledger(held))'
<1>1. PICK held \in Books : Ledger(held)
  OBVIOUS
<1>2. Ledger(held)'
  BY <1>1 DEF Ledger
<1> QED
  BY <1>2 DEF Books

\* A step on which no reservation depends, and no number of a day.
Idle ==
    /\ Quiet
    /\ \A r \in Reqs : /\ pc'[r] = "idle" => pc[r] = "idle" /\ op'[r] = op[r]
                       /\ Unreserved(r)' => Unreserved(r)
                       /\ Outstanding(r)' => Outstanding(r) /\ chargedOn'[r] = chargedOn[r]

LEMMA IdleKeeps ==
    ASSUME ExactInv, Idle PROVE ExactInv'
<1>0. BeginsWithConsume'
  BY DEF ExactInv, Idle, BeginsWithConsume
<1>1. ReadIsExact'
  BY DEF ExactInv, Idle, Quiet, Kept, ReadIsExact
<1>2. CounterIsExact'
  BY DEF ExactInv, Idle, Quiet, Kept, CounterIsExact
<1>3. (\E held \in Books : Ledger(held))'
  BY LedgerStands DEF ExactInv, Idle, Quiet
<1> QED
  BY <1>0, <1>1, <1>2, <1>3 DEF ExactInv

(* Every step but a successful read, a truncation and a write is idle.       *)
LEMMA IdleSteps ==
    ASSUME TypeOK, BeginsWithConsume, NEW r \in Reqs,
           \/ Consume(r) \/ Refund(r) \/ IngestOk(r) \/ LockGate(r) \/ LockFile(r)
           \/ FailEarly(r) \/ FailLate(r)
           \/ ReadCounter(r) /\ OverLimit(r, counter[path[r]])
    PROVE  Idle
<1> USE DEF TypeOK, Unreserved, Outstanding, HoldsGate, Idle
<1>1. CASE Consume(r) \/ Refund(r)
  <2>1. Quiet
    BY <1>1, QuietSteps
  <2>2. /\ pc'[r] = "gate" /\ chargedOn' = chargedOn
        /\ \/ pc[r] = "idle" /\ op[r] = "consume" /\ op'[r] = op[r]
           \/ pc[r] = "ingest" /\ op'[r] = "refund"
        /\ \A q \in Reqs \ {r} : pc'[q] = pc[q] /\ op'[q] = op[q]
    BY <1>1 DEF Consume, Refund, TakeGate, histVars, BeginsWithConsume
  <2>3. \A q \in Reqs : /\ Unreserved(q)' => Unreserved(q)
                        /\ Outstanding(q)' => Outstanding(q)
    BY <2>2
  <2> QED
    BY <2>1, <2>2, <2>3
<1>2. CASE IngestOk(r)
  BY <1>2, QuietSteps DEF IngestOk, fileVars, callVars
<1>3. CASE LockGate(r) \/ LockFile(r)
  BY <1>3, QuietSteps DEF LockGate, LockFile, fileVars, callVars, histVars
<1>4. CASE FailEarly(r) \/ FailLate(r)
  <2>1. Quiet
    BY <1>4 DEF FailEarly, FailLate, ReturnFalse, Return, Quiet, Kept
  <2> QED
    BY <1>4, <2>1 DEF FailEarly, FailLate, ReturnFalse, Return
<1>5. CASE ReadCounter(r) /\ OverLimit(r, counter[path[r]])
  <2>1. /\ pc'[r] \in {"refused", "failed"} /\ pc[r] = "locked"
        /\ \A q \in Reqs \ {r} : pc'[q] = pc[q] /\ path'[q] = path[q]
                                 /\ used'[q] = used[q] /\ chargedOn'[q] = chargedOn[q]
        /\ UNCHANGED <<fileVars, op, inForce, crossed>>
    BY <1>5 DEF ReadCounter, ReturnFalse, Return
  <2>2. Quiet
    BY <2>1 DEF Quiet, Kept, fileVars
  <2> QED
    BY <2>1, <2>2
<1> QED
  BY <1>1, <1>2, <1>3, <1>4, <1>5

LEMMA ReadIsExactAfter ==
    ASSUME TypeOK, OneWriterPerFile, ExactInv, NEW r \in Reqs, ReadCounter(r)
    PROVE  ExactInv'
<1> DEFINE d == path[r]
<1>1. CASE OverLimit(r, counter[d])
  BY <1>1, IdleSteps, IdleKeeps DEF ExactInv
<1>2. CASE ~OverLimit(r, counter[d])
  <2>1. /\ pc[r] = "locked" /\ d \in Days
        /\ used' = [used EXCEPT ![r] = counter[d]]
        /\ pc' = [pc EXCEPT ![r] = "truncate"]
        /\ UNCHANGED <<path, op, counter, lost, crossed, inForce, chargedOn>>
    BY <1>2 DEF ReadCounter, fileVars, TypeOK
  <2>2. \A q \in Reqs : ~(pc[q] = "write" /\ path[q] = d)
    BY <2>1 DEF OneWriterPerFile, HoldsFile
  <2>3. d \notin lost \cup crossed => counter[d] = inForce[d]
    BY <2>1, <2>2 DEF ExactInv, CounterIsExact
  <2>4. ReadIsExact'
    BY <2>1, <2>3 DEF ExactInv, ReadIsExact, TypeOK
  <2>5. CounterIsExact'
    BY <2>1 DEF ExactInv, CounterIsExact, TypeOK
  <2>6. (\E held \in Books : Ledger(held))'
    <3>1. \A q \in Reqs : /\ Unreserved(q)' => Unreserved(q)
                          /\ Outstanding(q)' => Outstanding(q)
      BY <2>1 DEF TypeOK, Unreserved, Outstanding, HoldsGate
    <3> QED
      BY <2>1, <3>1, LedgerStands DEF ExactInv
  <2>7. BeginsWithConsume'
    BY <2>1 DEF ExactInv, BeginsWithConsume, TypeOK
  <2> QED
    BY <2>4, <2>5, <2>6, <2>7 DEF ExactInv
<1> QED
  BY <1>1, <1>2

LEMMA TruncateIsExact ==
    ASSUME TypeOK, ExactInv, NEW r \in Reqs, Truncate(r)
    PROVE  ExactInv'
<1>1. /\ pc[r] = "truncate"
      /\ pc' = [pc EXCEPT ![r] = "write"]
      /\ counter' = [counter EXCEPT ![path[r]] = 0]
      /\ UNCHANGED <<path, used, op, lost, crossed, inForce, chargedOn>>
  BY DEF Truncate, callVars, histVars
<1>2. ReadIsExact'
  BY <1>1 DEF ExactInv, ReadIsExact, TypeOK
<1>3. CounterIsExact'
  BY <1>1 DEF ExactInv, CounterIsExact, TypeOK
<1>4. (\E held \in Books : Ledger(held))'
  <2>1. \A q \in Reqs : /\ Unreserved(q)' => Unreserved(q)
                        /\ Outstanding(q)' => Outstanding(q)
    BY <1>1 DEF TypeOK, Unreserved, Outstanding, HoldsGate
  <2> QED
    BY <1>1, <2>1, LedgerStands DEF ExactInv
<1>5. BeginsWithConsume'
  BY <1>1 DEF ExactInv, BeginsWithConsume, TypeOK
<1> QED
  BY <1>2, <1>3, <1>4, <1>5 DEF ExactInv

(* A reservation enters its bytes in the ledger of its day.                  *)
LEMMA ReserveEnters ==
    ASSUME TypeOK, NEW r \in Reqs, Write(r), op[r] = "consume",
           NEW held \in Books, Ledger(held)
    PROVE  (\E h \in Books : Ledger(h))'
<1>0. PICK d \in Days : d = path[r]
  BY DEF TypeOK
<1>1. /\ pc[r] = "write" /\ Unreserved(r)
      /\ pc' = [pc EXCEPT ![r] = "ingest"] /\ op' = op
      /\ chargedOn' = [chargedOn EXCEPT ![r] = d]
      /\ inForce' = [inForce EXCEPT ![d] = @ + SizeOf[r]]
  BY <1>0 DEF Write, Return, TypeOK, Unreserved, HoldsGate
<1>2. /\ IsFiniteSet(Bytes(r)) /\ Cardinality(Bytes(r)) = SizeOf[r]
      /\ Bytes(r) \subseteq Reqs \X Nat
      /\ \A q \in Reqs : q # r => Bytes(q) \cap Bytes(r) = {}
      /\ SizeOf[r] \in Nat
  BY BytesAreMany, QuotaAssumption
<1>3. /\ IsFiniteSet(held[d]) /\ Cardinality(held[d]) = inForce[d]
      /\ Bytes(r) \cap held[d] = {}
  BY <1>1 DEF Ledger
<1>4. /\ IsFiniteSet(held[d] \cup Bytes(r))
      /\ Cardinality(held[d] \cup Bytes(r)) = inForce[d] + SizeOf[r]
  <2>1. Cardinality(held[d] \cap Bytes(r)) = 0
    BY <1>3, FS_EmptySet
  <2>2. /\ IsFiniteSet(held[d] \cup Bytes(r))
        /\ Cardinality(held[d] \cup Bytes(r)) =
              Cardinality(held[d]) + Cardinality(Bytes(r)) - Cardinality(held[d] \cap Bytes(r))
    BY <1>2, <1>3, FS_Union
  <2> QED
    BY <1>1, <1>2, <1>3, <2>1, <2>2 DEF TypeOK
<1>5. [held EXCEPT ![d] = @ \cup Bytes(r)] \in Books
  BY <1>2 DEF Books
<1>6. PICK entered \in Books : entered = [held EXCEPT ![d] = @ \cup Bytes(r)]
  BY <1>5
<1>7. \A e \in Days : entered[e] = IF e = d THEN held[d] \cup Bytes(r) ELSE held[e]
  BY <1>6 DEF Books
<1>8. \A e \in Days : IsFiniteSet(entered[e]) /\ Cardinality(entered[e]) = inForce'[e]
  <2> SUFFICES ASSUME NEW e \in Days
               PROVE  IsFiniteSet(entered[e]) /\ Cardinality(entered[e]) = inForce'[e]
    OBVIOUS
  <2>1. CASE e = d
    <3>1. entered[e] = held[d] \cup Bytes(r) /\ inForce'[e] = inForce[d] + SizeOf[r]
      BY <1>1, <1>7, <2>1 DEF TypeOK
    <3> QED
      BY <1>4, <3>1
  <2>2. CASE e # d
    <3>1. entered[e] = held[e] /\ inForce'[e] = inForce[e]
      BY <1>1, <1>7, <2>2 DEF TypeOK
    <3> QED
      BY <3>1 DEF Ledger
  <2> QED
    BY <2>1, <2>2
<1>9. ASSUME NEW q \in Reqs, Outstanding(q)'
      PROVE  Bytes(q) \subseteq entered[chargedOn'[q]]
  <2>1. CASE q = r
    BY <1>1, <1>7, <2>1 DEF TypeOK
  <2>2. CASE q # r
    <3>1. Outstanding(q) /\ chargedOn'[q] = chargedOn[q] /\ chargedOn[q] \in Days
      BY <1>1, <1>9, <2>2 DEF TypeOK, Outstanding
    <3> QED
      BY <1>7, <3>1 DEF Ledger
  <2> QED
    BY <2>1, <2>2
<1>10. ASSUME NEW q \in Reqs, NEW e \in Days, Unreserved(q)'
      PROVE  Bytes(q) \cap entered[e] = {}
  <2>1. q # r /\ Unreserved(q)
    BY <1>1, <1>10 DEF TypeOK, Unreserved, HoldsGate
  <2> QED
    BY <1>2, <1>7, <2>1 DEF Ledger
<1>11. Ledger(entered)'
  BY <1>8, <1>9, <1>10 DEF Ledger
<1> QED
  BY <1>11 DEF Books

(* A refund to the day of its reservation takes its bytes out again: they     *)
(* are there, so it never stops at 0.                                        *)
LEMMA RefundLeaves ==
    ASSUME TypeOK, NEW r \in Reqs, Write(r), op[r] = "refund", path[r] = chargedOn[r],
           NEW held \in Books, Ledger(held)
    PROVE  /\ (\E h \in Books : Ledger(h))'
           /\ SizeOf[r] <= inForce[path[r]]
<1>0. PICK d \in Days : d = path[r]
  BY DEF TypeOK
<1>1. /\ pc[r] = "write" /\ Outstanding(r) /\ chargedOn[r] = d
      /\ pc' = [pc EXCEPT ![r] = "failed"] /\ op' = op
      /\ chargedOn' = [chargedOn EXCEPT ![r] = 0]
      /\ inForce' = [inForce EXCEPT ![d] = @ - SizeOf[r]]
  BY <1>0 DEF Write, Return, TypeOK, Outstanding, HoldsGate
<1>2. /\ IsFiniteSet(Bytes(r)) /\ Cardinality(Bytes(r)) = SizeOf[r]
      /\ \A q \in Reqs : q # r => Bytes(q) \cap Bytes(r) = {}
      /\ SizeOf[r] \in Nat
  BY BytesAreMany, QuotaAssumption
<1>3. /\ IsFiniteSet(held[d]) /\ Cardinality(held[d]) = inForce[d]
      /\ Bytes(r) \subseteq held[d]
  BY <1>1 DEF Ledger
<1>4. /\ IsFiniteSet(held[d] \ Bytes(r))
      /\ Cardinality(held[d] \ Bytes(r)) = inForce[d] - SizeOf[r]
  <2>1. held[d] \cap Bytes(r) = Bytes(r)
    BY <1>3
  <2>2. /\ IsFiniteSet(held[d] \ Bytes(r))
        /\ Cardinality(held[d] \ Bytes(r)) =
              Cardinality(held[d]) - Cardinality(held[d] \cap Bytes(r))
    BY <1>3, FS_Difference
  <2> QED
    BY <1>2, <1>3, <2>1, <2>2
<1>5. SizeOf[r] <= inForce[path[r]]
  BY <1>0, <1>2, <1>3, FS_Subset
<1>6. [held EXCEPT ![d] = @ \ Bytes(r)] \in Books
  BY DEF Books
<1>7. PICK left \in Books : left = [held EXCEPT ![d] = @ \ Bytes(r)]
  BY <1>6
<1>8. \A e \in Days : left[e] = IF e = d THEN held[d] \ Bytes(r) ELSE held[e]
  BY <1>7 DEF Books
<1>9. \A e \in Days : IsFiniteSet(left[e]) /\ Cardinality(left[e]) = inForce'[e]
  <2> SUFFICES ASSUME NEW e \in Days
               PROVE  IsFiniteSet(left[e]) /\ Cardinality(left[e]) = inForce'[e]
    OBVIOUS
  <2>1. CASE e = d
    <3>1. left[e] = held[d] \ Bytes(r) /\ inForce'[e] = inForce[d] - SizeOf[r]
      BY <1>1, <1>8, <2>1 DEF TypeOK
    <3> QED
      BY <1>4, <3>1
  <2>2. CASE e # d
    <3>1. left[e] = held[e] /\ inForce'[e] = inForce[e]
      BY <1>1, <1>8, <2>2 DEF TypeOK
    <3> QED
      BY <3>1 DEF Ledger
  <2> QED
    BY <2>1, <2>2
<1>10. ASSUME NEW q \in Reqs, Outstanding(q)'
       PROVE  Bytes(q) \subseteq left[chargedOn'[q]]
  <2>1. q # r /\ Outstanding(q) /\ chargedOn'[q] = chargedOn[q] /\ chargedOn[q] \in Days
    BY <1>1, <1>10 DEF TypeOK, Outstanding, HoldsGate
  <2> QED
    BY <1>2, <1>8, <2>1 DEF Ledger
<1>11. ASSUME NEW q \in Reqs, NEW e \in Days, Unreserved(q)'
       PROVE  Bytes(q) \cap left[e] = {}
  <2>1. Unreserved(q)
    BY <1>1, <1>11 DEF TypeOK, Unreserved, HoldsGate
  <2> QED
    BY <1>8, <2>1 DEF Ledger
<1>12. Ledger(left)'
  BY <1>9, <1>10, <1>11 DEF Ledger
<1> QED
  BY <1>5, <1>12 DEF Books

(* A write leaves what it should, because what it read was exact.            *)
LEMMA WriteIsExact ==
    ASSUME TypeOK, OneWriterPerFile, ExactInv, NEW r \in Reqs, Write(r)
    PROVE  ExactInv'
<1> DEFINE d == path[r]
<1>1. /\ d \in Days /\ pc[r] = "write" /\ used[r] \in Nat /\ SizeOf[r] \in Nat
      /\ op[r] \in {"consume", "refund"} /\ inForce[d] \in Int
  BY QuotaAssumption DEF TypeOK, Write
<1>2. /\ counter' = [counter EXCEPT ![d] = NextUsed(r)]
      /\ pc'[r] \notin {"truncate", "write", "idle"}
      /\ \A q \in Reqs \ {r} : pc'[q] = pc[q] /\ path'[q] = path[q] /\ used'[q] = used[q]
                               /\ chargedOn'[q] = chargedOn[q]
      /\ UNCHANGED <<op, lost>>
  BY <1>1 DEF Write, Return, TypeOK
<1>3. /\ crossed \subseteq crossed'
      /\ \A e \in Days \ {d} : inForce'[e] = inForce[e]
  BY <1>1 DEF Write, TypeOK
<1>4. \A q \in Reqs \ {r} : pc[q] \in {"truncate", "write"} => path[q] # d
  BY <1>1 DEF OneWriterPerFile, HoldsFile
<1>5. PICK held \in Books : Ledger(held)
  BY DEF ExactInv
<1>6. d \notin lost \cup crossed => used[r] = inForce[d]
  BY <1>1 DEF ExactInv, ReadIsExact
<1>7. /\ (\E h \in Books : Ledger(h))'
      /\ d \notin lost' \cup crossed' => inForce'[d] = NextUsed(r)
  <2>1. CASE op[r] = "consume"
    <3>1. inForce'[d] = inForce[d] + SizeOf[r]
      BY <1>1, <2>1 DEF Write, TypeOK
    <3> QED
      BY <1>1, <1>2, <1>3, <1>5, <1>6, <2>1, <3>1, ReserveEnters DEF NextUsed
  <2>2. CASE op[r] = "refund" /\ d = chargedOn[r]
    <3>1. inForce'[d] = inForce[d] - SizeOf[r]
      BY <1>1, <2>2 DEF Write, TypeOK
    <3>2. (\E h \in Books : Ledger(h))' /\ SizeOf[r] <= inForce[d]
      BY <1>5, <2>2, RefundLeaves
    <3> QED
      BY <1>1, <1>2, <1>3, <1>6, <2>2, <3>1, <3>2 DEF NextUsed
  <2>3. CASE op[r] = "refund" /\ d # chargedOn[r]
    <3>1. inForce' = inForce /\ d \in crossed' /\ pc'[r] = "failed"
      BY <1>1, <2>3 DEF Write, Return, TypeOK
    <3>2. \A q \in Reqs : /\ Unreserved(q)' => Unreserved(q)
                          /\ Outstanding(q)' => Outstanding(q) /\ chargedOn'[q] = chargedOn[q]
      BY <1>2, <3>1 DEF Unreserved, Outstanding, HoldsGate
    <3> QED
      BY <1>5, <3>1, <3>2, LedgerStands
  <2> QED
    BY <1>1, <2>1, <2>2, <2>3
<1>8. ReadIsExact'
  BY <1>2, <1>3, <1>4 DEF ExactInv, ReadIsExact, TypeOK
<1>9. CounterIsExact'
  <2> SUFFICES ASSUME NEW e \in Days, e \notin lost' \cup crossed',
                      \A q \in Reqs : ~(pc'[q] = "write" /\ path'[q] = e)
               PROVE  counter'[e] = inForce'[e]
    BY DEF CounterIsExact
  <2>1. CASE e = d
    BY <1>1, <1>2, <1>7, <2>1 DEF TypeOK
  <2>2. CASE e # d
    BY <1>2, <1>3, <2>2 DEF ExactInv, CounterIsExact, TypeOK
  <2> QED
    BY <2>1, <2>2
<1>10. BeginsWithConsume'
  BY <1>2 DEF ExactInv, BeginsWithConsume
<1> QED
  BY <1>7, <1>8, <1>9, <1>10 DEF ExactInv

LEMMA ExactInvariant ==
    ASSUME LockSupported PROVE Spec => []ExactInv
<1>1. Init => ExactInv
  <2> SUFFICES ASSUME Init PROVE ExactInv
    OBVIOUS
  <2>1. BeginsWithConsume /\ ReadIsExact /\ CounterIsExact
    BY DEF Init, BeginsWithConsume, ReadIsExact, CounterIsExact
  <2>2. [d \in Days |-> {}] \in Books
    BY DEF Books
  <2>3. Ledger([d \in Days |-> {}])
    BY FS_EmptySet DEF Init, Ledger, Outstanding
  <2> QED
    BY <2>1, <2>2, <2>3 DEF ExactInv
<1>2. TypeOK /\ OneWriterPerFile /\ ExactInv /\ [Next]_vars => ExactInv'
  <2> SUFFICES ASSUME TypeOK, OneWriterPerFile, ExactInv, [Next]_vars PROVE ExactInv'
    OBVIOUS
  <2>1. ASSUME NEW r \in Reqs,
               \/ Consume(r) \/ Refund(r) \/ IngestOk(r) \/ LockGate(r) \/ LockFile(r)
               \/ FailEarly(r) \/ FailLate(r)
        PROVE  ExactInv'
    BY <2>1, IdleSteps, IdleKeeps DEF ExactInv
  <2>2. ASSUME NEW r \in Reqs, ReadCounter(r) PROVE ExactInv'
    BY <2>2, ReadIsExactAfter
  <2>3. ASSUME NEW r \in Reqs, Truncate(r) PROVE ExactInv'
    BY <2>3, TruncateIsExact
  <2>4. ASSUME NEW r \in Reqs, Write(r) PROVE ExactInv'
    BY <2>4, WriteIsExact
  <2>5. ASSUME NEW n \in Sweeping, SweepBegin(n) \/ ForgetStaleGates(n) PROVE ExactInv'
    <3>1. UNCHANGED <<fileVars, reqVars, histVars>>
      BY <2>5 DEF SweepBegin, ForgetStaleGates
    <3>2. Idle
      BY <3>1 DEF Idle, Quiet, Kept, Unreserved, Outstanding, fileVars, reqVars, callVars, histVars
    <3> QED
      BY <3>2, IdleKeeps
  <2>6. ASSUME NEW n \in Instances, Crash(n) PROVE ExactInv'
    <3>1. Quiet
      BY <2>6 DEF Crash, Quiet, Kept
    <3>2. /\ UNCHANGED op
          /\ \A q \in Reqs : pc'[q] = "dead" \/ (pc'[q] = pc[q] /\ chargedOn'[q] = chargedOn[q])
      BY <2>6 DEF Crash
    <3>3. Idle
      BY <3>1, <3>2 DEF Idle, Unreserved, Outstanding, HoldsGate
    <3> QED
      BY <3>3, IdleKeeps
  <2>7. CASE Midnight \/ UNCHANGED vars
    <3>1. UNCHANGED <<fileVars, reqVars, histVars>>
      BY <2>7 DEF Midnight, vars
    <3>2. Idle
      BY <3>1 DEF Idle, Quiet, Kept, Unreserved, Outstanding, fileVars, reqVars, callVars, histVars
    <3> QED
      BY <3>2, IdleKeeps
  <2> QED
    BY <2>1, <2>2, <2>3, <2>4, <2>5, <2>6, <2>7 DEF Next, CounterStep
<1> QED
  BY <1>1, <1>2, TypeCorrect, FlockExcludes, PTL DEF Spec

(* While nobody rewrites it, a counter holds exactly what is reserved and not *)
(* given back: no update is lost, and no refund goes missing (quota.go).     *)
THEOREM CounterExact ==
    ASSUME LockSupported PROVE Spec => []CounterIsExact
<1>1. ExactInv => CounterIsExact
  BY DEF ExactInv
<1> QED
  BY <1>1, ExactInvariant, PTL
-----------------------------------------------------------------------------
(* With flock, the calls of any processes are what Allowance says one at a     *)
(* time.  A reservation and a refund take effect when the file is written, a  *)
(* refusal when it is read; a day's number is what its file holds, or what    *)
(* the call that has emptied the file had read.                              *)

Writing(d) == {r \in Reqs : pc[r] = "write" /\ path[r] = d}

Number(d) == IF Writing(d) = {} THEN counter[d] ELSE used[CHOOSE r \in Writing(d) : TRUE]

ClaimOf(r) ==
    IF pc[r] \in Answered \cup {"dead"} THEN "over"
    ELSE IF Outstanding(r) THEN "granted" ELSE "none"

Daily == INSTANCE Allowance WITH
            reserved <- [d \in Days |-> Number(d)], claim <- [r \in Reqs |-> ClaimOf(r)]

\* Until a call empties the file, what it has read is in it; and the file is that
\* of a day that has begun.
ReadStands ==
    /\ \A r \in Reqs : pc[r] = "truncate" => used[r] = counter[path[r]]
    /\ \A r \in Reqs : pc[r] = "write" => counter[path[r]] = 0
    /\ \A r \in Reqs : path[r] <= day

\* A step of r that changes its locals alone.
Alone(r) ==
    \A q \in Reqs \ {r} :
        pc'[q] = pc[q] /\ path'[q] = path[q] /\ used'[q] = used[q] /\ op'[q] = op[q]

LEMMA EachAlone ==
    ASSUME TypeOK, NEW r \in Reqs,
           \/ Consume(r) \/ IngestOk(r) \/ Refund(r) \/ CounterStep(r)
    PROVE  Alone(r)
<1> USE DEF Alone, TypeOK
<1>1. CASE Consume(r) \/ Refund(r)
  BY <1>1 DEF Consume, Refund, TakeGate
<1>2. CASE IngestOk(r) \/ LockGate(r) \/ LockFile(r) \/ Truncate(r)
  BY <1>2 DEF IngestOk, LockGate, LockFile, Truncate, callVars
<1>3. CASE ReadCounter(r) \/ FailEarly(r) \/ FailLate(r) \/ Write(r)
  BY <1>3 DEF ReadCounter, FailEarly, FailLate, Write, ReturnFalse, Return
<1> QED
  BY <1>1, <1>2, <1>3 DEF CounterStep

LEMMA ReadStandsInvariant ==
    ASSUME LockSupported PROVE Spec => []ReadStands
<1>1. Init => ReadStands
  BY QuotaAssumption DEF Init, ReadStands, Days
<1>2. TypeOK /\ OneWriterPerFile /\ ReadStands /\ [Next]_vars => ReadStands'
  <2> SUFFICES ASSUME TypeOK, OneWriterPerFile, ReadStands, [Next]_vars PROVE ReadStands'
    OBVIOUS
  <2> USE DEF ReadStands, fileVars
  <2>0. day \in Nat /\ day' \in Nat /\ day <= day' /\ \A r \in Reqs : path[r] \in Nat
    <3>1. day \in Nat /\ \A r \in Reqs : path[r] \in Nat
      BY QuotaAssumption DEF TypeOK, Days
    <3>2. day' = day \/ day' = day + 1
      BY DEF Next, Consume, IngestOk, Refund, CounterStep, LockGate, LockFile, ReadCounter,
         FailEarly, Truncate, Write, FailLate, SweepBegin, ForgetStaleGates, Crash, Midnight, vars
    <3> QED
      BY <3>1, <3>2
  <2>1. ASSUME NEW r \in Reqs, Alone(r), path'[r] \in {path[r], 0, day},
               pc'[r] = "truncate" => used'[r] = counter[path[r]] /\ path'[r] = path[r],
               pc'[r] = "write" => counter'[path'[r]] = 0,
               counter' # counter => /\ pc[r] \in HoldsFile /\ pc'[r] # "truncate"
                                     /\ \A d \in Days \ {path[r]} : counter'[d] = counter[d]
        PROVE  ReadStands'
    <3>1. \A q \in Reqs : path'[q] <= day'
      BY <2>0, <2>1 DEF Alone
    <3>2. ASSUME NEW q \in Reqs, pc'[q] = "truncate" PROVE used'[q] = counter'[path'[q]]
      <4>1. CASE counter' = counter
        BY <2>1, <3>2, <4>1 DEF Alone
      <4>2. CASE counter' # counter
        <5>1. q # r /\ pc[q] = "truncate" /\ pc[r] \in HoldsFile
          BY <2>1, <3>2, <4>2 DEF Alone
        <5>2. path[q] # path[r] /\ path[q] \in Days
          BY <5>1 DEF OneWriterPerFile, HoldsFile, TypeOK
        <5> QED
          BY <2>1, <4>2, <5>1, <5>2 DEF Alone
      <4> QED
        BY <4>1, <4>2
    <3>3. ASSUME NEW q \in Reqs, q # r, pc'[q] = "write" PROVE counter'[path'[q]] = 0
      <4>1. pc[q] = "write" /\ path'[q] = path[q] /\ counter[path[q]] = 0
        BY <2>1, <3>3 DEF Alone
      <4>2. CASE counter' = counter
        BY <4>1, <4>2
      <4>3. CASE counter' # counter
        <5>1. path[q] # path[r] /\ path[q] \in Days
          BY <2>1, <3>3, <4>1, <4>3 DEF OneWriterPerFile, HoldsFile, TypeOK
        <5> QED
          BY <2>1, <4>1, <4>3, <5>1
      <4> QED
        BY <4>2, <4>3
    <3> QED
      BY <2>1, <3>1, <3>2, <3>3
  <2>2. ASSUME NEW r \in Reqs,
               \/ Consume(r) \/ IngestOk(r) \/ Refund(r) \/ CounterStep(r)
        PROVE  ReadStands'
    <3>1. Alone(r)
      BY <2>2, EachAlone
    <3>2. CASE Consume(r) \/ Refund(r)
      BY <2>1, <3>1, <3>2 DEF Consume, Refund, TakeGate, TypeOK
    <3>3. CASE IngestOk(r) \/ LockGate(r) \/ LockFile(r)
      BY <2>1, <3>1, <3>3 DEF IngestOk, LockGate, LockFile, callVars, TypeOK
    <3>4. CASE ReadCounter(r) \/ FailEarly(r) \/ FailLate(r)
      <4>1. /\ counter' = counter
            /\ path'[r] \in {path[r], 0, day}
            /\ pc'[r] # "write"
            /\ pc'[r] = "truncate" => used'[r] = counter[path[r]] /\ path'[r] = path[r]
        BY <3>4 DEF ReadCounter, FailEarly, FailLate, ReturnFalse, Return, TypeOK
      <4> QED
        BY <2>1, <3>1, <4>1
    <3>5. CASE Truncate(r) \/ Write(r)
      <4>1. /\ pc[r] \in HoldsFile /\ pc'[r] # "truncate" /\ path'[r] \in {path[r], 0}
            /\ \A d \in Days \ {path[r]} : counter'[d] = counter[d]
            /\ pc'[r] = "write" => counter'[path'[r]] = 0
        BY <3>5 DEF Truncate, Write, Return, callVars, TypeOK, HoldsFile
      <4> QED
        BY <2>1, <3>1, <4>1
    <3> QED
      BY <2>2, <3>2, <3>3, <3>4, <3>5 DEF CounterStep
  <2>3. ASSUME NEW n \in Instances, Crash(n) PROVE ReadStands'
    <3>1. /\ counter' = counter
          /\ \A q \in Reqs : path'[q] \in {path[q], 0}
          /\ \A q \in Reqs : pc'[q] \in {"truncate", "write"} =>
                pc'[q] = pc[q] /\ path'[q] = path[q] /\ used'[q] = used[q]
      BY <2>3 DEF Crash, HoldsGate
    <3> QED
      BY <2>0, <3>1
  <2>4. CASE (\E n \in Sweeping : SweepBegin(n) \/ ForgetStaleGates(n))
             \/ Midnight \/ UNCHANGED vars
    <3>1. UNCHANGED <<counter, pc, path, used>>
      BY <2>4 DEF SweepBegin, ForgetStaleGates, Midnight, vars, reqVars, callVars
    <3> QED
      BY <2>0, <3>1
  <2> QED
    BY <2>2, <2>3, <2>4 DEF Next
<1> QED
  BY <1>1, <1>2, TypeCorrect, FlockExcludes, PTL DEF Spec

\* One call at most is writing a file, and it knows the number.
LEMMA NumberIs ==
    ASSUME OneWriterPerFile, NEW r \in Reqs, pc[r] \in HoldsFile
    PROVE  /\ pc[r] = "write" => Number(path[r]) = used[r]
           /\ pc[r] # "write" => Number(path[r]) = counter[path[r]]
<1>1. \A q \in Writing(path[r]) : q = r
  BY DEF Writing, OneWriterPerFile, HoldsFile
<1>2. CASE pc[r] = "write"
  <2>1. Writing(path[r]) = {r}
    BY <1>1, <1>2 DEF Writing
  <2>2. (CHOOSE q \in {r} : TRUE) = r
    OBVIOUS
  <2> QED
    BY <1>2, <2>1, <2>2 DEF Number
<1>3. CASE pc[r] # "write"
  <2>1. Writing(path[r]) = {}
    BY <1>1, <1>3 DEF Writing
  <2> QED
    BY <1>3, <2>1 DEF Number
<1> QED
  BY <1>2, <1>3

\* A number is its file's, or its writer's.
LEMMA SameNumber ==
    ASSUME NEW d, counter'[d] = counter[d], Writing(d)' = Writing(d),
           \A q \in Writing(d) : used'[q] = used[q]
    PROVE  Number(d)' = Number(d)
<1>1. PICK S : S = Writing(d)
  OBVIOUS
<1>2. S = Writing(d)'
  BY <1>1
<1>3. CASE S = {}
  BY <1>1, <1>2, <1>3 DEF Number
<1>4. CASE S # {}
  <2>1. PICK q : q = CHOOSE x \in S : TRUE
    OBVIOUS
  <2>2. q \in S
    BY <1>4, <2>1
  <2>3. used'[q] = used[q]
    BY <1>1, <2>2
  <2>4. Number(d) = used[q]
    <3> HIDE DEF Writing
    <3> QED
      BY <1>1, <1>4, <2>1 DEF Number
  <2>5. Number(d)' = used'[q]
    <3> HIDE DEF Writing
    <3> QED
      BY <1>2, <1>4, <2>1 DEF Number
  <2> QED
    BY <2>3, <2>4, <2>5
<1> QED
  BY <1>3, <1>4

\* The number of a day that r does not write is what it was.
LEMMA OtherNumbers ==
    ASSUME NEW r \in Reqs, Alone(r), NEW d, counter'[d] = counter[d],
           ~ (pc[r] = "write" /\ path[r] = d), ~ (pc'[r] = "write" /\ path'[r] = d)
    PROVE  Number(d)' = Number(d)
<1>1. Writing(d)' = Writing(d) /\ \A q \in Writing(d) : used'[q] = used[q]
  BY DEF Alone, Writing
<1> QED
  BY <1>1, SameNumber

\* A request's claim is its own.
LEMMA OtherClaims ==
    ASSUME NEW r \in Reqs, Alone(r)
    PROVE  \A q \in Reqs \ {r} : ClaimOf(q)' = ClaimOf(q)
BY DEF Alone, ClaimOf, Outstanding

\* What changes neither a number nor a claim.
LEMMA NothingIsClaimed ==
    ASSUME UNCHANGED <<day, mishaps>>, \A d \in Days : Number(d)' = Number(d),
           \A r \in Reqs : ClaimOf(r)' = ClaimOf(r)
    PROVE  UNCHANGED Daily!vars
BY DEF Daily!vars

\* What a call does before it reads the counter, and what follows a stored upload.
LEMMA CallMaps ==
    ASSUME TypeOK, BeginsWithConsume, NEW r \in Reqs,
           \/ Consume(r) \/ Refund(r) \/ LockGate(r) \/ LockFile(r) \/ IngestOk(r)
    PROVE  Daily!Next \/ UNCHANGED Daily!vars
<1> USE DEF TypeOK, fileVars, callVars, histVars
<1>1. Alone(r)
  BY EachAlone DEF CounterStep
<1>2. /\ pc[r] # "write" /\ pc'[r] # "write" /\ UNCHANGED <<day, counter, mishaps>>
      /\ pc'[r] # pc[r]
  BY DEF Consume, Refund, LockGate, LockFile, IngestOk, TakeGate
<1>3. \A d \in Days : Number(d)' = Number(d)
  BY <1>1, <1>2, OtherNumbers
<1>4. CASE ~IngestOk(r)
  <2>1. ClaimOf(r)' = ClaimOf(r)
    <3>1. CASE Consume(r)
      <4>1. pc[r] = "idle" /\ op[r] = "consume" /\ pc'[r] = "gate" /\ op'[r] = "consume"
        BY <3>1 DEF Consume, TakeGate, BeginsWithConsume
      <4> QED
        BY <4>1 DEF ClaimOf, Outstanding, Answered
    <3>2. CASE Refund(r)
      <4>1. pc[r] = "ingest" /\ pc'[r] = "gate" /\ op'[r] = "refund"
        BY <3>2 DEF Refund, TakeGate
      <4> QED
        BY <4>1 DEF ClaimOf, Outstanding, Answered
    <3>3. CASE LockGate(r) \/ LockFile(r)
      <4>1. pc[r] \in {"gate", "open"} /\ pc'[r] \in {"open", "locked"} /\ op'[r] = op[r]
        BY <3>3 DEF LockGate, LockFile
      <4> QED
        BY <4>1 DEF ClaimOf, Outstanding, Answered, HoldsGate
    <3> QED
      BY <1>4, <3>1, <3>2, <3>3
  <2> QED
    BY <1>1, <1>2, <1>3, <2>1, OtherClaims, NothingIsClaimed
<1>5. CASE IngestOk(r)
  <2>1. ClaimOf(r) = "granted" /\ ClaimOf(r)' = "over"
    BY <1>5 DEF IngestOk, ClaimOf, Outstanding, Answered
  <2>2. Daily!Keep(r)
    BY <1>1, <1>2, <1>3, <2>1, OtherClaims DEF Daily!Keep
  <2> QED
    BY <2>2 DEF Daily!Next
<1> QED
  BY <1>4, <1>5

\* A call that fails ends the claim, as a call that dies does.
LEMMA MishapMaps ==
    ASSUME NEW requests \in SUBSET Reqs, NEW days \in SUBSET Days,
           day' = day, mishaps' = mishaps + 1,
           \A r \in requests : ClaimOf(r) # "over" /\ ClaimOf(r)' = "over",
           \A r \in Reqs \ requests : ClaimOf(r)' = ClaimOf(r),
           \A d \in days : Number(d)' = 0,
           \A d \in Days \ days : Number(d)' = Number(d)
    PROVE  Daily!Next
<1>1. Daily!Mishap(requests, days)
  BY DEF Daily!Mishap
<1> QED
  BY <1>1 DEF Daily!Next

\* What a call reads decides, and the file is what was read until it is written.
LEMMA ReadMaps ==
    ASSUME TypeOK, OneWriterPerFile, ReadStands, NEW r \in Reqs, ReadCounter(r) \/ Truncate(r)
    PROVE  Daily!Next \/ UNCHANGED Daily!vars
<1> USE DEF TypeOK, fileVars, callVars, histVars
<1>0. PICK d \in Days : d = path[r]
  OBVIOUS
<1>1. Alone(r) /\ UNCHANGED <<day, mishaps>>
  BY EachAlone DEF CounterStep, ReadCounter, Truncate
<1>2. CASE ReadCounter(r)
  <2>1. pc[r] = "locked" /\ counter' = counter /\ op' = op /\ pc'[r] # "write"
    BY <1>2 DEF ReadCounter, ReturnFalse, Return
  <2>2. \A e \in Days : Number(e)' = Number(e)
    BY <1>1, <2>1, OtherNumbers
  <2>3. CASE OverLimit(r, counter[d])
    <3>1. pc'[r] = "refused" /\ op[r] = "consume"
      BY <1>0, <1>2, <2>3 DEF ReadCounter, ReturnFalse, Return, OverLimit
    <3>2. ClaimOf(r) = "none" /\ ClaimOf(r)' = "over"
      BY <2>1, <3>1 DEF ClaimOf, Outstanding, Answered
    <3>3. Number(d) = counter[d]
      BY <1>0, <2>1, NumberIs DEF HoldsFile
    <3>4. Daily!Refuse(r, d)
      BY <1>0, <1>1, <2>2, <2>3, <3>2, <3>3, OtherClaims DEF Daily!Refuse, OverLimit, ReadStands
    <3> QED
      BY <3>4 DEF Daily!Next
  <2>4. CASE ~OverLimit(r, counter[d])
    <3>1. pc'[r] = "truncate"
      BY <1>0, <1>2, <2>4 DEF ReadCounter
    <3>2. ClaimOf(r)' = ClaimOf(r)
      BY <2>1, <3>1 DEF ClaimOf, Outstanding, Answered, HoldsGate
    <3> QED
      BY <1>1, <2>2, <3>2, OtherClaims, NothingIsClaimed
  <2> QED
    BY <2>3, <2>4
<1>3. CASE Truncate(r)
  <2>1. /\ pc[r] = "truncate" /\ pc'[r] = "write" /\ UNCHANGED <<op, path, used>>
        /\ \A e \in Days \ {d} : counter'[e] = counter[e]
    BY <1>0, <1>3 DEF Truncate
  <2>2. OneWriterPerFile'
    BY <1>1, <2>1 DEF OneWriterPerFile, Alone, HoldsFile
  <2>3. Number(d)' = used[r]
    <3>1. \A q \in Writing(d)' : q = r
      BY <1>0, <2>1, <2>2 DEF Writing, OneWriterPerFile, HoldsFile
    <3>2. Writing(d)' = {r}
      BY <1>0, <2>1, <3>1 DEF Writing
    <3>3. (CHOOSE q \in {r} : TRUE) = r
      OBVIOUS
    <3> QED
      BY <2>1, <3>2, <3>3 DEF Number
  <2>4. Number(d) = counter[d] /\ used[r] = counter[d]
    BY <1>0, <2>1, NumberIs DEF HoldsFile, ReadStands
  <2>5. \A e \in Days \ {d} : Number(e)' = Number(e)
    BY <1>0, <1>1, <2>1, OtherNumbers
  <2>6. ClaimOf(r)' = ClaimOf(r)
    BY <2>1 DEF ClaimOf, Outstanding, Answered, HoldsGate
  <2> QED
    BY <1>1, <2>3, <2>4, <2>5, <2>6, OtherClaims, NothingIsClaimed
<1> QED
  BY <1>2, <1>3

\* The write is where a reservation is entered or given back.
LEMMA WriteMaps ==
    ASSUME TypeOK, OneWriterPerFile, ReadStands, LimitInv, NEW r \in Reqs, Write(r)
    PROVE  Daily!Next
<1> USE DEF TypeOK
<1>0. PICK d \in Days : d = path[r]
  OBVIOUS
<1>1. Alone(r) /\ UNCHANGED <<day, mishaps, op>>
  BY EachAlone DEF CounterStep, Write
<1>2. /\ pc[r] = "write" /\ pc'[r] \in {"ingest", "failed"}
      /\ counter' = [counter EXCEPT ![d] = NextUsed(r)]
      /\ op[r] = "consume" => pc'[r] = "ingest"
      /\ op[r] = "refund" => pc'[r] = "failed"
  BY <1>0 DEF Write, Return
<1>3. Number(d) = used[r]
  BY <1>0, <1>2, NumberIs DEF HoldsFile
<1>4. Number(d)' = NextUsed(r)
  <2>1. \A q \in Reqs \ {r} : ~ (pc[q] = "write" /\ path[q] = d)
    BY <1>0, <1>2 DEF OneWriterPerFile, HoldsFile
  <2>2. Writing(d)' = {}
    BY <1>1, <1>2, <2>1 DEF Writing, Alone
  <2> QED
    BY <1>2, <2>2 DEF Number
<1>5. \A e \in Days \ {d} : Number(e)' = Number(e)
  BY <1>0, <1>1, <1>2, OtherNumbers
<1>6. d <= day
  BY <1>0 DEF ReadStands
<1>7. CASE op[r] = "consume"
  <2>1. ClaimOf(r) = "none" /\ ClaimOf(r)' = "granted"
    BY <1>2, <1>7 DEF ClaimOf, Outstanding, Answered
  <2>2. used[r] + SizeOf[r] <= Limit
    BY <1>2, <1>7 DEF LimitInv, ReservationFits
  <2>3. Number(d)' = Number(d) + SizeOf[r]
    BY <1>3, <1>4, <1>7 DEF NextUsed
  <2>4. Daily!Grant(r, d)
    BY <1>1, <1>3, <1>5, <1>6, <2>1, <2>2, <2>3, OtherClaims DEF Daily!Grant
  <2> QED
    BY <2>4 DEF Daily!Next
<1>8. CASE op[r] = "refund"
  <2>1. ClaimOf(r) = "granted" /\ ClaimOf(r)' = "over"
    BY <1>2, <1>8 DEF ClaimOf, Outstanding, Answered, HoldsGate
  <2>2. Number(d)' = IF Number(d) > SizeOf[r] THEN Number(d) - SizeOf[r] ELSE 0
    BY <1>3, <1>4, <1>8 DEF NextUsed
  <2>3. Daily!GiveBack(r, d)
    BY <1>1, <1>5, <1>6, <2>1, <2>2, OtherClaims DEF Daily!GiveBack
  <2> QED
    BY <2>3 DEF Daily!Next
<1> QED
  BY <1>7, <1>8

\* A failure after the file was emptied loses its number.
LEMMA FailMaps ==
    ASSUME TypeOK, OneWriterPerFile, ReadStands, NEW r \in Reqs, FailEarly(r) \/ FailLate(r)
    PROVE  Daily!Next
<1> USE DEF TypeOK
<1>0. PICK d \in Days : d = path[r]
  OBVIOUS
<1>1. Alone(r) /\ UNCHANGED <<day, counter, op>> /\ mishaps' = mishaps + 1
  BY EachAlone DEF CounterStep, FailEarly, FailLate
<1>2. pc[r] \in {"open", "locked", "truncate", "write"} /\ pc'[r] \in {"refused", "failed"}
  BY DEF FailEarly, FailLate, ReturnFalse, Return
<1>3. ClaimOf(r) # "over" /\ ClaimOf(r)' = "over"
  BY <1>2 DEF ClaimOf, Answered
<1>4. \A q \in Reqs \ {r} : ClaimOf(q)' = ClaimOf(q)
  BY <1>1, OtherClaims
<1>5. \A e \in Days \ {d} : Number(e)' = Number(e)
  BY <1>0, <1>1, <1>2, OtherNumbers
<1>6. CASE pc[r] # "write"
  <2>1. Number(d)' = Number(d)
    BY <1>1, <1>2, <1>6, OtherNumbers
  <2> QED
    BY <1>1, <1>3, <1>4, <1>5, <2>1, MishapMaps, {r} \in SUBSET Reqs, {} \in SUBSET Days
<1>7. CASE pc[r] = "write"
  <2>1. \A q \in Reqs \ {r} : ~ (pc[q] = "write" /\ path[q] = d)
    BY <1>0, <1>7 DEF OneWriterPerFile, HoldsFile
  <2>2. Writing(d)' = {}
    BY <1>1, <1>2, <2>1 DEF Writing, Alone
  <2>3. Number(d)' = 0
    BY <1>0, <1>1, <1>7, <2>2 DEF Number, ReadStands
  <2> QED
    BY <1>1, <1>3, <1>4, <1>5, <2>3, MishapMaps, {r} \in SUBSET Reqs, {d} \in SUBSET Days
<1> QED
  BY <1>6, <1>7

\* So does the death of a process.
LEMMA CrashMaps ==
    ASSUME TypeOK, OneWriterPerFile, ReadStands, NEW n \in Instances, Crash(n)
    PROVE  Daily!Next
<1> USE DEF TypeOK
<1>0. PICK dying \in SUBSET Reqs :
         dying = {r \in Reqs : InstanceOf[r] = n /\ pc[r] \in {"gate", "ingest"} \cup HoldsGate}
  OBVIOUS
<1>1. PICK days \in SUBSET Days :
         days = {d \in Days : \E r \in dying : pc[r] = "write" /\ path[r] = d}
  OBVIOUS
<1>2. /\ UNCHANGED <<day, counter, op>> /\ mishaps' = mishaps + 1
      /\ \A r \in Reqs : pc'[r] = IF r \in dying THEN "dead" ELSE pc[r]
      /\ \A r \in Reqs \ dying : path'[r] = path[r] /\ used'[r] = used[r]
  BY <1>0 DEF Crash
<1>3. \A r \in dying : ClaimOf(r) # "over" /\ ClaimOf(r)' = "over"
  BY <1>0, <1>2 DEF ClaimOf, Answered, HoldsGate
<1>4. \A r \in Reqs \ dying : ClaimOf(r)' = ClaimOf(r)
  BY <1>2 DEF ClaimOf, Outstanding
<1>5. ASSUME NEW d \in days PROVE Number(d)' = 0
  <2>1. PICK r \in dying : pc[r] = "write" /\ path[r] = d
    BY <1>1
  <2>2. \A q \in Reqs : pc[q] = "write" /\ path[q] = d => q = r
    BY <2>1 DEF OneWriterPerFile, HoldsFile
  <2>3. Writing(d)' = {}
    BY <1>2, <2>1, <2>2 DEF Writing
  <2> QED
    BY <1>2, <2>1, <2>3 DEF Number, ReadStands
<1>6. ASSUME NEW d \in Days \ days PROVE Number(d)' = Number(d)
  <2>1. Writing(d)' = Writing(d) /\ \A q \in Writing(d) : used'[q] = used[q]
    BY <1>1, <1>2, <1>6 DEF Writing
  <2> QED
    BY <1>2, <2>1, SameNumber
<1> QED
  BY <1>2, <1>3, <1>4, <1>5, <1>6, MishapMaps

(* Where flock works, the read-modify-write of a counter by any number of      *)
(* requests in any number of processes is one step: a reservation is granted   *)
(* if and only if it fits what the day has left at one moment of its call, or  *)
(* an operation fails, and a refund takes off just once what was granted.      *)
THEOREM CallsAreAtomic ==
    ASSUME LockSupported PROVE Spec => Daily!Spec
<1>1. Init => Daily!Init
  <2> SUFFICES ASSUME Init PROVE Daily!Init
    OBVIOUS
  <2>1. \A r \in Reqs : ClaimOf(r) = "none"
    BY DEF Init, ClaimOf, Outstanding, Answered
  <2>2. \A d \in Days : Number(d) = 0
    BY DEF Init, Number, Writing
  <2> QED
    BY <2>1, <2>2 DEF Init, Daily!Init
<1>2. TypeOK /\ OneWriterPerFile /\ ReadStands /\ LimitInv /\ ExactInv
      /\ [Next]_vars => [Daily!Next]_(Daily!vars)
  <2> SUFFICES ASSUME TypeOK, OneWriterPerFile, ReadStands, LimitInv,
                      ExactInv, [Next]_vars
               PROVE  Daily!Next \/ UNCHANGED Daily!vars
    OBVIOUS
  <2>0. BeginsWithConsume
    BY DEF ExactInv
  <2>1. ASSUME NEW r \in Reqs, Consume(r) \/ IngestOk(r) \/ Refund(r) \/ CounterStep(r)
        PROVE  Daily!Next \/ UNCHANGED Daily!vars
    BY <2>0, <2>1, CallMaps, ReadMaps, WriteMaps, FailMaps DEF CounterStep
  <2>2. ASSUME NEW n \in Instances, Crash(n) PROVE Daily!Next
    BY <2>2, CrashMaps
  <2>3. CASE Midnight
    <3>1. day' = day + 1 /\ UNCHANGED <<counter, pc, path, used, op, mishaps>>
      BY <2>3 DEF Midnight, fileVars, reqVars, callVars
    <3>2. /\ \A d \in Days : Number(d)' = Number(d)
          /\ \A r \in Reqs : ClaimOf(r)' = ClaimOf(r)
      BY <3>1 DEF Number, Writing, ClaimOf, Outstanding
    <3>3. Daily!Midnight
      BY <3>1, <3>2 DEF Daily!Midnight
    <3> QED
      BY <3>3 DEF Daily!Next
  <2>4. CASE (\E n \in Sweeping : SweepBegin(n) \/ ForgetStaleGates(n)) \/ UNCHANGED vars
    <3>1. UNCHANGED <<day, counter, pc, path, used, op, mishaps>>
      BY <2>4 DEF SweepBegin, ForgetStaleGates, vars, fileVars, reqVars, callVars
    <3>2. /\ \A d \in Days : Number(d)' = Number(d)
          /\ \A r \in Reqs : ClaimOf(r)' = ClaimOf(r)
      BY <3>1 DEF Number, Writing, ClaimOf, Outstanding
    <3> QED
      BY <3>1, <3>2, NothingIsClaimed
  <2> QED
    BY <2>1, <2>2, <2>3, <2>4 DEF Next
<1> QED
  BY <1>1, <1>2, TypeCorrect, FlockExcludes, LimitInvariant, ExactInvariant, ReadStandsInvariant,
     PTL DEF Spec, Daily!Spec
=============================================================================
