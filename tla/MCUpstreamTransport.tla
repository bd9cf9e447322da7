------------------------ MODULE MCUpstreamTransport ------------------------
(* Two connections, so that lookups overlap each other, the use of a       *)
(* cached address and its expiry; the upstream moves once.                 *)
EXTENDS UpstreamTransport

CONSTANTS c1, c2

MCConn == {c1, c2}
=============================================================================
