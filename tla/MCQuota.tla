------------------------------ MODULE MCQuota ------------------------------
(* Quota for TLC: three uploads, which run in one daemon or in two processes. *)
EXTENDS Quota, TLC

CONSTANTS r1, r2, r3, daemon, other

OneDaemon == [r \in Reqs |-> daemon]

TwoProcesses == [r \in Reqs |-> IF r = r3 THEN other ELSE daemon]
Lengths == [r \in Reqs |-> IF r = r2 THEN 2 ELSE 1]
=============================================================================
