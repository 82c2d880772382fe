------------------------------- MODULE Traffic -------------------------------
(***************************************************************************)
(* internal/traffic: the counters behind /v1/stats.  Each figure is a total  *)
(* and a sliding window of hourly slots; a slot is reused windowHours later  *)
(* and cleared only then.  A call reads the wall clock first and takes the   *)
(* recorder's lock afterwards, so it may count for an hour that has passed.  *)
(*                                                                          *)
(* A counter of this module is the set of the calls it has counted: Window's *)
(* number is the sum of what they count, and the registers of a sketch are a *)
(* function of the set of their callers, which Merge turns into a union.     *)
(***************************************************************************)
EXTENDS Integers, Sequences

CONSTANTS
    Calls,          \* the calls of the recorder
    Figures,        \* its windows
    Batches,        \* the figures that one request may count in, in order
    windowHours,    \* 25 in the code
    MaxHour         \* bound: the clock's last hour

ASSUME TrafficAssumption ==
    /\ Batches \subseteq Seq(Figures)
    /\ windowHours \in Nat \ {0}
    /\ MaxHour \in Nat

Slots == 0..(windowHours - 1)

VARIABLES
    slots,          \* slots[f][s]: the calls that slot s of figure f holds
    hours,          \* hours[f][s]: the hour that slot currently holds
    total,          \* total[f]: every call that f has counted
    pending,        \* pending[c]: the figures c has still to be counted in
    calledAt,       \* calledAt[c]: the hour that c read off the clock
    late            \* figures that counted a call windowHours behind another

windowVars == <<slots, hours, total>>
trafficVars == <<windowVars, pending, calledAt, late>>

-----------------------------------------------------------------------------
slotOf(h) == h % windowHours

\* A bug to catch: the hour whose slot is reused next no longer counts.
InWindowTooShort(h, current) == h <= current /\ current - h < windowHours - 1

inWindow(h, current) == h <= current /\ current - h < windowHours

\* A bug to catch: a slot that is reused keeps what it held.
KeptOnReuse(f, h) == slots[f][slotOf(h)]

\* A slot that holds another hour is cleared.
Kept(f, h) == IF hours[f][slotOf(h)] = h THEN slots[f][slotOf(h)] ELSE {}

Init ==
    /\ slots = [f \in Figures |-> [s \in Slots |-> {}]]
    /\ hours = [f \in Figures |-> [s \in Slots |-> 0]]
    /\ total = [f \in Figures |-> {}]
    /\ pending = [c \in Calls |-> <<>>]
    /\ calledAt = [c \in Calls |-> 0]
    /\ late = {}

(* trafficRecorder reads the clock once for all that it has to count.  The    *)
(* wall clock may stand at any hour: it goes on, and it may be set back.     *)
Call(c, figures) ==
    /\ pending[c] = <<>>
    /\ \A f \in Figures : c \notin total[f]
    /\ pending' = [pending EXCEPT ![c] = figures]
    /\ \E hour \in 0..MaxHour : calledAt' = [calledAt EXCEPT ![c] = hour]
    /\ UNCHANGED <<windowVars, late>>

(* Window.Add and sketchWindow.add, under the recorder's lock.               *)
Add(f, c) ==
    LET h == calledAt[c] IN
    /\ slots' = [slots EXCEPT ![f][slotOf(h)] = Kept(f, h) \cup {c}]
    /\ hours' = [hours EXCEPT ![f][slotOf(h)] = h]
    /\ total' = [total EXCEPT ![f] = @ \cup {c}]
    /\ late' = IF \E d \in total[f] : h + windowHours <= calledAt[d]
               THEN late \cup {f} ELSE late

Count(c) ==
    /\ pending[c] # <<>>
    /\ Add(Head(pending[c]), c)
    /\ pending' = [pending EXCEPT ![c] = Tail(@)]
    /\ UNCHANGED calledAt

Next == \E c \in Calls : Count(c) \/ \E batch \in Batches : Call(c, batch)

Spec == Init /\ [][Next]_trafficVars

\* What Snapshot(now) reports of figure f beside its total.
Last24h(f, now) == UNION {slots[f][s] : s \in {t \in Slots : inWindow(hours[f][t], now)}}

-----------------------------------------------------------------------------
(* Properties. *)

TrafficTypeOK ==
    /\ slots \in [Figures -> [Slots -> SUBSET Calls]]
    /\ hours \in [Figures -> [Slots -> Nat]]
    /\ total \in [Figures -> SUBSET Calls]
    /\ pending \in [Calls -> Seq(Figures)]
    /\ calledAt \in [Calls -> Nat]
    /\ late \in SUBSET Figures

(* The last-day figure counts nothing that is older than the window or in    *)
(* the future, whatever the clock does and in whatever order calls arrive:   *)
(* "what it held before must not leak into the new hour".                    *)
NothingOld ==
    \A f \in Figures, now \in 0..MaxHour : \A c \in Last24h(f, now) :
        c \in total[f] /\ calledAt[c] <= now /\ now < calledAt[c] + windowHours

(* It misses nothing in the window, unless a call a whole window behind      *)
(* another had been counted.  A Snapshot whose own clock reading has been    *)
(* overtaken by a call of a later hour may miss what that call's slot held.  *)
NothingMissed ==
    \A f \in Figures \ late, now \in 0..MaxHour : \A c \in total[f] :
        /\ calledAt[c] <= now /\ now < calledAt[c] + windowHours
        /\ \A d \in total[f] : calledAt[d] < calledAt[c] + windowHours
        => c \in Last24h(f, now)
\* Every figure keeps its own slots in step with the hours they hold.
SlotsAreDated ==
    \A f \in Figures, s \in Slots : \A c \in slots[f][s] :
        c \in total[f] /\ calledAt[c] = hours[f][s] /\ slotOf(calledAt[c]) = s

\* A call leaves its slot only for one that is a whole window later.
SlotsAreKept ==
    \A f \in Figures \ late : \A c \in total[f] :
        \/ c \in slots[f][slotOf(calledAt[c])]
        \/ \E d \in total[f] : calledAt[c] + windowHours <= calledAt[d]

\* What makes NothingOld and NothingMissed inductive.
TrafficInv == TrafficTypeOK /\ SlotsAreDated /\ SlotsAreKept
=============================================================================
