----------------------------- MODULE MCDownload -----------------------------
(* Download for TLC: one request with every Range header, a second whose      *)
(* headers are few; a window of two hours.                                   *)
EXTENDS Download, TLC

CONSTANTS r1, r2

AnyHeader == [r \in Reqs |-> IF r = r1 THEN Headers ELSE {Ignored}]
=============================================================================
