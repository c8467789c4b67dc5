---------------------------- MODULE MCTunnelLock ----------------------------
(* TunnelLock with three invocations and an account that owns lab and dev.   *)
EXTENDS LeaseRefinement, TLC

CONSTANTS p1, p2, p3

ThreeProcs == {p1, p2, p3}
SomeLabels == {"lab", "dev", "local", "talk", "other"}
TwoNames == << <<"lab">>, <<"dev">> >>

\* One name in full, a nested one in full, one that only looks full, one not owned.
SomeTyped == { <<"lab", "local", "dev">>, <<"talk", "dev", "local", "dev">>, <<"local", "dev">>,
               <<"dev", "other">> }

ProcSymmetry == Permutations(ThreeProcs)
=============================================================================
