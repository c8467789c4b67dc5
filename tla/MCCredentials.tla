--------------------------- MODULE MCCredentials ---------------------------
(* Credentials with two invocations. The initial files are those any        *)
(* earlier ones can have left, so a third would add an overlap only.        *)
EXTENDS Credentials

CONSTANTS p1, p2

TwoProcs == {p1, p2}
=============================================================================
