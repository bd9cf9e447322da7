---------------------------- MODULE MCHotRestart ----------------------------
(* One connection, and two children, so that a second SIGHUP can overlap   *)
(* the first restart.  No symmetry: the run checks liveness.               *)
EXTENDS HotRestart

CONSTANTS c1, k1, k2

MCConn == {c1}

MCChild == {k1, k2}
=============================================================================
