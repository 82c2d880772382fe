----------------------------- MODULE MCInstall -----------------------------
(* Install for TLC: an install, and a second request of any kind. *)
EXTENDS Install, TLC

CONSTANTS r1, r2

OneInstalls == [r \in Reqs |-> IF r = r1 THEN {"POST", "init"}
                               ELSE {"GET", "HEAD", "POST", "init"}]
=============================================================================
