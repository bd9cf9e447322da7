----------------------------- MODULE MCPipeline -----------------------------
(* Three pipelines: every upstream list of up to two entries in the outer   *)
(* one, a choice of lists in the two that are nested in it.                 *)
EXTENDS Pipeline

\* The lists of up to n members of a set.
Lists(set, n) == UNION {[1..k -> set] : k \in 0..n}

Outer == Lists({RequestFilter, Router, Other, 1, 2}, 2)

Middle == {<<>>, <<RequestFilter>>, <<Other, RequestFilter>>, <<2, RequestFilter>>, <<Router>>}

Inner == {<<RequestFilter>>, <<Router, RequestFilter>>}

OuterDown == {<<ResponseFilter, ResponseFilter>>, <<ResponseFilter, Other, ResponseFilter>>}

MiddleDown == {<<>>, <<ResponseFilter>>, <<Other, ResponseFilter>>}

InnerDown == {<<ResponseFilter>>}

Three(a, b, c) == [p \in 0..2 |-> IF p = 0 THEN a ELSE IF p = 1 THEN b ELSE c]

MCConfigs ==
  {[upstream |-> Three(up[1], up[2], up[3]), downstream |-> Three(down[1], down[2], down[3])] :
     up \in Outer \X Middle \X Inner, down \in OuterDown \X MiddleDown \X InnerDown}
=============================================================================
