------------------------------- MODULE Tunnel -------------------------------
(***************************************************************************)
(* The running tunnel (tunnel.rs): the reconnection loop of Reconnect and  *)
(* one of the connections it makes, with the tasks of TunnelConn. The loop *)
(* makes any number of connections; `watch` says whether the one followed  *)
(* in detail is still to come, is up, or was left. The tasks of a          *)
(* connection outlive the call of connect_and_run that spawned them: they  *)
(* keep stepping beside the loop's later dials until the process exits.    *)
(* Connections other than the one followed are a single state of the loop. *)
(***************************************************************************)
EXTENDS TunnelConn, Reconnect

VARIABLE watch    \* the connection followed: "before", "now" or "after"

tunnelVars == <<vars, loopVars, watch>>

TunnelInit == Init /\ LoopInit /\ watch = "before"

-----------------------------------------------------------------------------
\* connect_async returned a socket: the tasks start, or this connection is not
\* the one followed.
Establish ==
  /\ Connects
  /\ watch' \in (IF watch = "before" THEN {"before", "now"} ELSE {watch})
  /\ UNCHANGED vars

\* connect_and_run returns to run_tunnel; what it spawned is not awaited, and
\* not aborted.
Leave ==
  \/ /\ watch = "now" /\ reader = "returned" /\ watch' = "after"
     /\ \/ result = "err" /\ ConnectionLost
        \/ result = "ok" /\ ConnectionClosed
     /\ UNCHANGED vars
  \/ /\ watch # "now" /\ (ConnectionLost \/ ConnectionClosed)
     /\ UNCHANGED <<vars, watch>>

\* The other steps of the loop, and what the server answers to a dial.
Redial ==
  /\ ConnectFails \/ Rejected \/ OverQuota \/ Wakes \/ ServerChanges
  /\ UNCHANGED <<vars, watch>>

\* The tasks live from the upgrade on; main's return takes the runtime with it.
Alive == watch # "before" /\ pc # "returned"

Task(A) == Alive /\ A /\ UNCHANGED <<loopVars, watch>>

TunnelNext == Establish \/ Leave \/ Redial \/ Task(Next)

TunnelSpec == TunnelInit /\ [][TunnelNext]_tunnelVars

-----------------------------------------------------------------------------
\* The tasks are scheduled as in TunnelConn.
TasksRun ==
  /\ WF_tunnelVars(Task(WriterWaits)) /\ WF_tunnelVars(Task(WriterWrites))
  /\ WF_tunnelVars(Task(ReaderWaits)) /\ WF_tunnelVars(Task(ReaderLeaves))
  /\ \A r \in Requests : WF_tunnelVars(Task(HandleRequest(r)))
  /\ \A s \in Sessions :
       /\ WF_tunnelVars(Task(SessionSteps(s)))
       /\ WF_tunnelVars(Task(LocalReceives(s)))
       /\ WF_tunnelVars(Task(AppOver(s) /\ LocalWrites(s)))

\* A server that is gone takes the link with it, and the kernel gives up on
\* bytes that a dead peer never acknowledges.
LinkDies ==
  /\ WF_tunnelVars(Task(server = "down" /\ link = "up" /\ (LinkFallsSilent \/ LinkCloses)))
  /\ WF_tunnelVars(Task(writer = "send" /\ link = "silent" /\ LinkCloses))

\* The sleep ends, connect_and_run's return is acted on; nothing is assumed of a
\* dial. Of the connections not followed, what is shown of the one that is.
LoopRuns ==
  /\ WF_tunnelVars(Redial /\ (FailsAtHome \/ Wakes))
  /\ WF_tunnelVars(Leave /\ (watch = "now" \/ server = "down"))

TunnelFairSpec == TunnelSpec /\ TasksRun /\ LinkDies /\ LoopRuns

-----------------------------------------------------------------------------
\* What a connection leaves running when the silence timer or a read error ends
\* it (tunnel.rs:272-283) comes to its own end beside the connections that
\* follow, unless a WebSocket session keeps it: no writer or request task is
\* piled up by a link that keeps dying.
AbandonedEnds ==
  (watch = "after" /\ \A s \in Sessions : session[s] \in {"idle", "ended"})
    ~> \/ WriterGone /\ \A r \in Requests : request[r] \in {"idle", "done"}
       \/ pc = "returned"
=============================================================================
