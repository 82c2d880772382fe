----------------------------- MODULE ChunkCache -----------------------------
(***************************************************************************)
(* What the chunk cache promises to the clients of its HTTP interface, with *)
(* no files in it: a chunk is published once, is downloadable from then on, *)
(* and stops being downloadable once, for a reason.  ChunkStore, where a    *)
(* chunk is two files that several processes create and remove one system   *)
(* call at a time, is shown to implement this module.                       *)
(***************************************************************************)
EXTENDS Naturals

CONSTANT Ids        \* the chunk ids, one per upload

VARIABLES
    clock,          \* the server's clock
    life,           \* life[i]: "absent", then "available", then "gone"
    deadline,       \* deadline[i]: when i expires, once that is decided
    asked,          \* the chunks whose owner's DELETE has been accepted
    doomed,         \* the chunks a sweep condemned before they were published
    misread         \* the chunks whose expiry a sweep could not read

vars == <<clock, life, deadline, asked, doomed, misread>>

Expired(i) == deadline[i] <= clock

\* The only four reasons for which a published chunk may disappear.
MayGo(i) == Expired(i) \/ i \in asked \/ i \in doomed \/ i \in misread

Init ==
    /\ clock = 0
    /\ life = [i \in Ids |-> "absent"]
    /\ deadline = [i \in Ids |-> 0]
    /\ asked = {}
    /\ doomed = {}
    /\ misread = {}

(* An upload fixes the expiry of its chunk before the chunk can be seen. *)
SetDeadline(i) ==
    /\ life[i] = "absent"
    /\ deadline'[i] \in Nat
    /\ deadline' = [deadline EXCEPT ![i] = deadline'[i]]
    /\ UNCHANGED <<clock, life, asked, doomed, misread>>

(* An upload commits.  The chunk is available, unless there is already a    *)
(* reason for it to be gone.                                                *)
Publish(i) ==
    /\ life[i] = "absent"
    /\ \/ life' = [life EXCEPT ![i] = "available"]
       \/ MayGo(i) /\ life' = [life EXCEPT ![i] = "gone"]
    /\ UNCHANGED <<clock, deadline, asked, doomed, misread>>

(* The owner's DELETE found the chunk and goes ahead. *)
Ask(i) ==
    /\ life[i] # "absent"
    /\ asked' = asked \cup {i}
    /\ UNCHANGED <<clock, life, deadline, doomed, misread>>

(* A sweep condemns a chunk whose upload has not committed. *)
Doom(i) ==
    /\ life[i] = "absent"
    /\ doomed' = doomed \cup {i}
    /\ UNCHANGED <<clock, life, deadline, asked, misread>>

(* A sweep fails to read when a chunk expires, and condemns it.             *)
Misread(i) ==
    /\ misread' = misread \cup {i}
    /\ UNCHANGED <<clock, life, deadline, asked, doomed>>

(* A chunk's files go. *)
Go(i) ==
    /\ life[i] = "available"
    /\ MayGo(i)
    /\ life' = [life EXCEPT ![i] = "gone"]
    /\ UNCHANGED <<clock, deadline, asked, doomed, misread>>

(* Time passes, and every available chunk it expires stops being served. *)
Tick ==
    /\ clock' = clock + 1
    /\ life' = [i \in Ids |-> IF life[i] = "available" /\ deadline[i] <= clock'
                              THEN "gone" ELSE life[i]]
    /\ UNCHANGED <<deadline, asked, doomed, misread>>

Next ==
    \/ Tick
    \/ \E i \in Ids : \/ SetDeadline(i)
                      \/ Publish(i)
                      \/ Ask(i)
                      \/ Doom(i)
                      \/ Misread(i)
                      \/ Go(i)

Spec == Init /\ [][Next]_vars
=============================================================================
