------------------------------ MODULE MCServer ------------------------------
(* Two interchangeable connections.                                        *)
EXTENDS Server, TLC

CONSTANTS c1, c2

MCConn == {c1, c2}

Symmetry == Permutations(MCConn)
=============================================================================
