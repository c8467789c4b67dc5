---------------------------- MODULE MCTunnelConn ----------------------------
(* TunnelConn on small instances: model values for the ids.                  *)
EXTENDS SessionRefinement

CONSTANTS r1, r2, s1

NoRequest   == {}
OneRequest  == {r1}
NoSession   == {}
OneSession  == {s1}
=============================================================================
