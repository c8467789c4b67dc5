---------------------------- MODULE TunnelProofs ----------------------------
(***************************************************************************)
(* The tunnel as a whole: the composition implements the reconnection loop *)
(* and adds nothing to a connection's tasks, so what is proved of the two  *)
(* apart holds of the tunnel, at any moment of any number of redials.      *)
(***************************************************************************)
EXTENDS Tunnel, SessionRefinementProofs, ReconnectProofs

\* A step of the tunnel is a step of the loop, or one the loop does not see.
LEMMA LoopSimulation == [TunnelNext]_tunnelVars => [LoopNext]_loopVars
<1> SUFFICES ASSUME [TunnelNext]_tunnelVars PROVE [LoopNext]_loopVars OBVIOUS
<1>1. CASE Establish BY <1>1 DEF Establish, LoopNext, Cli
<1>2. CASE Leave BY <1>2 DEF Leave, LoopNext, Cli
<1>3. CASE Redial BY <1>3 DEF Redial, LoopNext, Cli
<1>4. CASE Task(Next) BY <1>4 DEF Task
<1>5. CASE UNCHANGED tunnelVars BY <1>5 DEF tunnelVars
<1> QED BY <1>1, <1>2, <1>3, <1>4, <1>5 DEF TunnelNext

\* A step of the tunnel is a step of the connection's tasks, or leaves them alone.
LEMMA TaskSimulation == [TunnelNext]_tunnelVars => [Next]_vars
<1> SUFFICES ASSUME [TunnelNext]_tunnelVars PROVE [Next]_vars OBVIOUS
<1>1. CASE Establish BY <1>1 DEF Establish
<1>2. CASE Leave BY <1>2 DEF Leave
<1>3. CASE Redial BY <1>3 DEF Redial
<1>4. CASE Task(Next) BY <1>4 DEF Task
<1>5. CASE UNCHANGED tunnelVars BY <1>5 DEF tunnelVars
<1> QED BY <1>1, <1>2, <1>3, <1>4, <1>5 DEF TunnelNext

\* The tunnel, with its connections in detail, does what the reconnection loop
\* alone is specified to do (tunnel.rs:121-173).
THEOREM TunnelImplementsLoop == TunnelSpec => LoopSpec
<1>1. TunnelInit => LoopInit BY Zenon DEF TunnelInit
<1> QED BY <1>1, LoopSimulation, PTL DEF TunnelSpec, LoopSpec

\* The tasks of a connection, while it is up and after the loop has left it for
\* another, do what they are specified to do (tunnel.rs:239-616).
THEOREM TunnelImplementsConn == TunnelSpec => Spec
<1>1. TunnelInit => Init BY Zenon DEF TunnelInit
<1> QED BY <1>1, TaskSimulation, PTL DEF TunnelSpec, Spec

\* Whatever the tasks of a connection do, the tunnel redials MaxAttempts times
\* in a row, no more and no fewer, before it gives up (tunnel.rs:131, 147-152).
THEOREM TunnelGivesUp == TunnelSpec => []GivesUpAfterMaxRedials
BY TunnelImplementsLoop, GivesUpCorrect

\* No request is answered twice, and none is dropped unless the writer died,
\* also when the connection it came in on has been replaced (tunnel.rs:394-419).
THEOREM TunnelAnswersOnce == TunnelSpec => []AnsweredOnce
BY TunnelImplementsConn, AnsweredOnceCorrect

\* The counter, the delay and both bounded channels stay within their limits
\* through any number of redials (tunnel.rs:131-165, 240, 512).
THEOREM TunnelTypeCorrect == TunnelSpec => [](TypeOK /\ LoopTypeOK)
<1>1. TunnelSpec => []TypeOK BY TunnelImplementsConn, TypeCorrect
<1>2. TunnelSpec => []LoopTypeOK BY TunnelImplementsLoop, LoopTypeCorrect
<1> QED BY <1>1, <1>2, PTL

\* Every outage of the running tunnel starts at one second again, and grows as
\* the loop alone would have it: what abandoned tasks do in the meantime does not
\* disturb it (tunnel.rs:165, 227).
THEOREM TunnelBacksOff == TunnelSpec => BackoffRestartsAndGrows
BY TunnelImplementsLoop, BackoffCorrect

\* Every connection the running tunnel makes is announced as the outage before it
\* calls for (tunnel.rs:208-237).
THEOREM TunnelGreets == TunnelSpec => BannerFollowsOutage
BY TunnelImplementsLoop, BannerCorrect

\* The writer of a connection stops by itself only with nothing left to send, on
\* an abandoned connection as on a current one (tunnel.rs:244-250, 364, 376).
THEOREM TunnelWriterStopsLast == TunnelSpec => []WriterStopsLast
BY TunnelImplementsConn, WriterStopsLastCorrect

\* The WebSocket sessions of a connection keep their promises also when the loop
\* has left it and dials again (tunnel.rs:272-283, 332-349, 429-611).
THEOREM TunnelRelaysSessions == TunnelSpec => SessionsRelayed
BY TunnelImplementsConn, SessionsRelayedCorrect
=============================================================================
