---------------------------- MODULE MCBufferPool ----------------------------
(* Two connections, the second of which gets what the first has left, and  *)
(* three requests with bodies, the last two of which can share an entry    *)
(* that the first has returned twice.  Bodies reach the limit, exceed it,  *)
(* and have a NUL at their end and before it.                              *)
EXTENDS BufferPool, TLC

CONSTANTS c1, c2, p1, p2, p3

MCConnection == {c1, c2}

MCPost == {p1, p2, p3}

MCBodies == {<<"x", "x">>, <<"x", "x", "x">>, <<"x", "nul">>, <<"nul", "x">>}

MCStreams == {<<"get", "get">>, <<"post", "body", "get">>}

Symmetry == Permutations(MCConnection) \cup Permutations(MCPost)
=============================================================================
