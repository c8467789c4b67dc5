-------------------------- MODULE SessionRefinement --------------------------
(***************************************************************************)
(* Every WebSocket session of TunnelConn implements Session: the mapping   *)
(* reads what the two ends see out of the log, the table and the channels. *)
(***************************************************************************)
EXTENDS TunnelConn, FiniteSets

Logged(m) == \E i \in 1..Len(log) : log[i] = m

\* How often an element occurs in a sequence.
Times(e, q) == Cardinality({i \in 1..Len(q) : q[i] = e})

View(s) ==
  IF session[s] = "idle" THEN "unasked"
  ELSE IF Logged(OpenFailed(s)) THEN "refused"
  ELSE IF Logged(WsClose(s)) THEN "closed"
  ELSE IF Logged(OpenOk(s)) THEN "open"
  ELSE "asked"

\* The read loop is delivering a frame of this session.
Pushing(s) == push = [id |-> s, event |-> "msg"]

Sent(s) == IF Pushing(s) THEN down[s] - 1 ELSE down[s]

Registered(s) == session[s] \notin {"idle", "dial", "nack", "ack", "register"}

\* The session's channel has a sender, in the table or in the read loop's hand,
\* and its receiver.
Stage(s) ==
  IF session[s] = "ended" THEN "over"
  ELSE IF ~Registered(s) THEN "before"
  ELSE IF local[s] \in {"recv", "write", "close"} /\ (s \in table \/ Pushing(s)) THEN "now"
  ELSE "past"

Parting(s) ==
  CASE app[s] = "left" -> "orderly" [] app[s] = "gone" -> "abrupt" [] OTHER -> "not"

Relayed(s) == INSTANCE Session WITH
  view      <- View(s),
  stage     <- Stage(s),
  sent      <- Sent(s),
  delivered <- Times("msg", fed[s]),
  produced  <- up[s],
  relayed   <- Times(WsMsg(s), log),
  parting   <- Parting(s),
  hung      <- s \in hungup,
  cut       <- WriterGone

\* Each session keeps the promises of Session: no frame is lost in the middle,
\* in either direction, by the races between the read loop, the session's two
\* tasks and the writer (tunnel.rs:332-349, 510-609).
SessionsRelayed ==
  /\ \A s \in Sessions : Relayed(s)!Init
  /\ [][\A s \in Sessions : [Relayed(s)!Next]_(Relayed(s)!sessionVars)]_vars
=============================================================================
