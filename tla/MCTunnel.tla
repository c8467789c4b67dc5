------------------------------ MODULE MCTunnel ------------------------------
(* Tunnel on small instances: model values for the ids.                      *)
EXTENDS Tunnel

CONSTANTS r1, r2, s1

OneRequest  == {r1}
NoSession   == {}
=============================================================================
