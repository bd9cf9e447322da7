--------------------------- MODULE MCUpstreamPool ---------------------------
(* Two entries, of which one is pinged.  One request, which is enough for  *)
(* Shutdown and the pings to meet one under way; two where Shutdown hangs. *)
EXTENDS UpstreamPool

CONSTANTS r1, r2

MCRequest == {r1, r2}

MCOneRequest == {r1}

MCPingable == {0}

MCWeights == {-1, 0, 1}
=============================================================================
