---------------------------- MODULE MCThrottler ----------------------------
(* A few requests; throttling is changed, disabled and enabled again.      *)
EXTENDS Throttler

CONSTANTS r1, r2

MCRequest == {r1, r2}
=============================================================================
