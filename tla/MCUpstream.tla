----------------------------- MODULE MCUpstream -----------------------------
(* Five requests, and limits that are raised, lowered and lifted, the      *)
(* negative one meaning no limit like 0.                                   *)
EXTENDS Upstream

CONSTANTS r1, r2, r3, r4, r5

MCRequest == {r1, r2, r3, r4, r5}

MCLimits == {-1, 0, 1, 2, 3}
=============================================================================
