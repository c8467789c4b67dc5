------------------------------ MODULE CloseCode ------------------------------
(***************************************************************************)
(* The close code local_write_task (tunnel.rs) writes to the local         *)
(* application's WebSocket for the code of a browser's ws-close, which any *)
(* u16 may be, or none at all.                                             *)
(***************************************************************************)
EXTENDS Integers

CONSTANT NoCode   \* the ws-close carries no code

\* What a u16 holds.
U16 == 0..65535

ASSUME NoCodeAssumption == NoCode \notin U16

Codes == U16 \cup {NoCode}

\* Mutant: the markers 1005, 1006 and 1015 are left to the ranges.
SafeCode_Ranges(code) ==
  IF code \in ((1000..1014) \ {1004}) \cup 3000..4999 THEN code ELSE 1011

SafeCode(code) ==
  IF code \in {1005, 1006, 1015} THEN 1011
  ELSE IF code \in ((1000..1014) \ {1004}) \cup 3000..4999 THEN code
  ELSE 1011

\* RFC 6455, 7.4.1 and 7.4.2: the codes an endpoint may put into a Close frame:
\* the defined ones and those left to libraries and applications, but no marker
\* and no reserved value.
Defined(code) == code \in 1000..1015 \/ code \in 3000..4999
Markers == {1005, 1006, 1015}
Reserved == {1004}
Sendable(code) == Defined(code) /\ code \notin Markers \cup Reserved

\* What reaches the local WebSocket may be sent, and is the browser's own code
\* whenever that may be sent (tunnel.rs:535-548).
CloseCodeKept(code) ==
  /\ Sendable(SafeCode(code))
  /\ code \in U16 /\ Sendable(code) => SafeCode(code) = code
=============================================================================
