----------------------------- MODULE Allowance -----------------------------
(***************************************************************************)
(* What a key's daily allowance promises to its uploads, with no files and   *)
(* no locks in it: reservations are granted, refused and given back one at a *)
(* time, each at one moment between the call and its return.  Quota, where a *)
(* call reads, truncates and rewrites a file that other processes use, is    *)
(* shown to implement this module wherever the platform has flock.           *)
(***************************************************************************)
EXTENDS Integers

CONSTANTS
    Reqs,           \* upload requests
    SizeOf,         \* the length a request declares
    Limit,          \* the allowance of a day
    Days

VARIABLES
    day,            \* today
    reserved,       \* reserved[d]: bytes taken from d's allowance
    claim,          \* claim[r]: "none", then "granted", then "over"
    mishaps         \* how many file operations failed or processes died

vars == <<day, reserved, claim, mishaps>>

Init ==
    /\ day = 0
    /\ reserved = [d \in Days |-> 0]
    /\ claim = [r \in Reqs |-> "none"]
    /\ mishaps = 0

(* A reservation that fits is entered on a day that has begun.               *)
Grant(r, d) ==
    /\ claim[r] = "none"
    /\ d <= day
    /\ reserved[d] + SizeOf[r] <= Limit
    /\ reserved' = [reserved EXCEPT ![d] = @ + SizeOf[r]]
    /\ claim' = [claim EXCEPT ![r] = "granted"]
    /\ UNCHANGED <<day, mishaps>>

(* One that does not fit is refused, and no other.                           *)
Refuse(r, d) ==
    /\ claim[r] = "none"
    /\ d <= day
    /\ reserved[d] + SizeOf[r] > Limit
    /\ claim' = [claim EXCEPT ![r] = "over"]
    /\ UNCHANGED <<day, reserved, mishaps>>

(* The upload is stored, and keeps what it was granted.                      *)
Keep(r) ==
    /\ claim[r] = "granted"
    /\ claim' = [claim EXCEPT ![r] = "over"]
    /\ UNCHANGED <<day, reserved, mishaps>>

(* The upload failed: its bytes are given back, to the day it is by then.    *)
GiveBack(r, d) ==
    /\ claim[r] = "granted"
    /\ d <= day
    /\ reserved' = [reserved EXCEPT ![d] = IF @ > SizeOf[r] THEN @ - SizeOf[r] ELSE 0]
    /\ claim' = [claim EXCEPT ![r] = "over"]
    /\ UNCHANGED <<day, mishaps>>

(* A file operation fails, or a process dies.  Its requests end, with what    *)
(* they were granted; the number of a day may be lost, and starts from 0.     *)
Mishap(requests, days) ==
    /\ \A r \in requests : claim[r] # "over"
    /\ mishaps' = mishaps + 1
    /\ claim' = [r \in Reqs |-> IF r \in requests THEN "over" ELSE claim[r]]
    /\ reserved' = [d \in Days |-> IF d \in days THEN 0 ELSE reserved[d]]
    /\ UNCHANGED day

Midnight ==
    /\ day' = day + 1
    /\ UNCHANGED <<reserved, claim, mishaps>>

Next ==
    \/ \E r \in Reqs : \/ Keep(r)
                       \/ \E d \in Days : Grant(r, d) \/ Refuse(r, d) \/ GiveBack(r, d)
    \/ \E requests \in SUBSET Reqs, days \in SUBSET Days : Mishap(requests, days)
    \/ Midnight

Spec == Init /\ [][Next]_vars
=============================================================================
