----------------------------- MODULE TunnelConn -----------------------------
(***************************************************************************)
(* One tunnel connection of the dodev CLI: connect_and_run after a         *)
(* successful upgrade (tunnel.rs), with the tasks it spawns.               *)
(*                                                                         *)
(*   - the read loop, which dispatches the frames the server sends;        *)
(*   - the writer task, which drains the bounded channel `tx` into the WS; *)
(*   - one handle_request task per HTTP request;                           *)
(*   - one handle_ws_open task per browser WebSocket, which owns the read  *)
(*     side of the local WebSocket, and the local_write_task it spawns,    *)
(*     which owns its write side.                                          *)
(*                                                                         *)
(* Both channels are kept as the log of everything ever accepted and a     *)
(* cursor for what the receiver took: the queue is what lies between.      *)
(* A frame that changes nothing (malformed, response, heartbeat-ack,       *)
(* ws-open-ack, binary, pong) is not an action.                            *)
(***************************************************************************)
EXTENDS Naturals, Sequences

CONSTANTS
  Requests,     \* ids of the "request" envelopes the server may send
  Sessions,     \* ids of the "ws-open" envelopes the server may send
  TxCap,        \* capacity of the channel to the writer task (256 in the code)
  SessCap,      \* capacity of a session's channel (256 in the code)
  MaxBeats,     \* bound: heartbeats and pings the server sends
  MaxDown,      \* bound: ws-msg envelopes the server sends in one session
  MaxUp         \* bound: frames a local application sends in one session

ASSUME CapAssumption == TxCap \in Nat \ {0} /\ SessCap \in Nat \ {0}
ASSUME BoundAssumption == MaxBeats \in Nat /\ MaxDown \in Nat /\ MaxUp \in Nat
ASSUME NoneAssumption == "none" \notin Sessions

VARIABLES
  reader,    \* where the read loop is
  push,      \* the session event the read loop is delivering, or NoPush
  result,    \* what connect_and_run returns, once decided
  link,      \* the WebSocket to the server: "up", "silent" (dead, no FIN), "closed"
  beats,     \* heartbeats and pings read so far
  writer,    \* where the writer task is
  log,       \* every message the channel tx accepted, oldest first
  taken,     \* how many of them the writer received
  request,   \* where each handle_request task is
  session,   \* where each handle_ws_open task is
  local,     \* where each local_write_task is
  table,     \* ws_sessions: the ids that have an entry
  fed,       \* per session, every event its channel accepted, oldest first
  eaten,     \* per session, how many of them its local_write_task received
  app,       \* the local application's end of each local WebSocket
  down,      \* per session, ws-msg envelopes read from the server
  up,        \* per session, frames read from the local application
  hungup     \* sessions whose ws-close was read from the server

connVars == <<reader, push, result, link, beats>>
txVars   == <<writer, log, taken>>
wsVars   == <<session, local, table, fed, eaten, app, down, up, hungup>>
vars     == <<connVars, txVars, request, wsVars>>

-----------------------------------------------------------------------------
(* Messages, events and program counters *)

Response(r)   == [type |-> "response", id |-> r]
OpenOk(s)     == [type |-> "ws-open-ack", id |-> s, ok |-> TRUE]
OpenFailed(s) == [type |-> "ws-open-ack", id |-> s, ok |-> FALSE]
WsMsg(s)      == [type |-> "ws-msg", id |-> s]
WsClose(s)    == [type |-> "ws-close", id |-> s]
HeartbeatAck  == [type |-> "heartbeat-ack"]
Pong          == [type |-> "pong"]

Message ==
  {Response(r) : r \in Requests} \cup {HeartbeatAck, Pong}
    \cup UNION {{OpenOk(s), OpenFailed(s), WsMsg(s), WsClose(s)} : s \in Sessions}

Event == {"msg", "close"}
NoPush == [id |-> "none", event |-> "none"]

TypeOK ==
  /\ reader \in {"next", "ack", "pong", "push", "drain", "returned"}
  /\ push \in [id : Sessions, event : Event] \cup {NoPush}
  /\ (reader = "push") <=> (push # NoPush)
  /\ result \in {"none", "ok", "err"}
  /\ link \in {"up", "silent", "closed"}
  /\ beats \in 0..MaxBeats
  /\ writer \in {"recv", "send", "failed", "done"}
  /\ log \in Seq(Message)
  /\ taken \in 0..Len(log) /\ Len(log) - taken <= TxCap
  /\ request \in [Requests -> {"idle", "proxy", "reply", "done"}]
  /\ session \in [Sessions -> {"idle", "dial", "nack", "ack", "register", "read",
                               "msg", "close", "remove", "join", "ended"}]
  /\ local \in [Sessions -> {"none", "recv", "write", "close", "ended"}]
  /\ table \in SUBSET Sessions
  /\ fed \in [Sessions -> Seq(Event)]
  /\ eaten \in [Sessions -> Nat]
  /\ \A s \in Sessions : eaten[s] <= Len(fed[s]) /\ Len(fed[s]) - eaten[s] <= SessCap
  /\ app \in [Sessions -> {"none", "open", "told", "left", "gone"}]
  /\ down \in [Sessions -> 0..MaxDown]
  /\ up \in [Sessions -> 0..MaxUp]
  /\ hungup \in SUBSET Sessions

Init ==
  /\ reader = "next" /\ push = NoPush /\ result = "none"
  /\ link = "up" /\ beats = 0
  /\ writer = "recv" /\ log = <<>> /\ taken = 0
  /\ request = [r \in Requests |-> "idle"]
  /\ session = [s \in Sessions |-> "idle"]
  /\ local = [s \in Sessions |-> "none"]
  /\ table = {}
  /\ fed = [s \in Sessions |-> <<>>]
  /\ eaten = [s \in Sessions |-> 0]
  /\ app = [s \in Sessions |-> "none"]
  /\ down = [s \in Sessions |-> 0]
  /\ up = [s \in Sessions |-> 0]
  /\ hungup = {}

-----------------------------------------------------------------------------
(* The channel to the writer task *)

WriterGone == writer \in {"failed", "done"}

\* Mutant: one message too many fits in the channel.
Send_OffByOne(m) ==
  \/ WriterGone /\ log' = log
  \/ ~WriterGone /\ Len(log) - taken <= TxCap /\ log' = Append(log, m)

\* tx.send(m).await: waits for room; once the receiver is dropped it fails,
\* and every caller but the pong branch ignores the failure.
Send(m) ==
  \/ WriterGone /\ log' = log
  \/ ~WriterGone /\ Len(log) - taken < TxCap /\ log' = Append(log, m)

\* Mutant: drop(tx) is missing before the writer is awaited.
ReaderHoldsTx_NoDrop == reader \in {"next", "ack", "pong", "push", "drain"}

\* Mutant: the loop's sender outlives the call, as one made in run_tunnel would.
ReaderHoldsTx_Outlives == reader # "drain"

\* The reader, each handle_request and each handle_ws_open own a clone of tx
\* until they return (the reader drops its own before it awaits the writer).
ReaderHoldsTx == reader \in {"next", "ack", "pong", "push"}
RequestHoldsTx(r) == request[r] \in {"proxy", "reply"}
SessionHoldsTx(s) == session[s] \notin {"idle", "ended"}
TxHeld == \/ ReaderHoldsTx
          \/ \E r \in Requests : RequestHoldsTx(r)
          \/ \E s \in Sessions : SessionHoldsTx(s)

\* Messages the writer handed to the socket with success.
Written ==
  {log[i] : i \in {j \in 1..Len(log) :
                     j <= taken /\ ~(j = taken /\ writer \in {"send", "failed"})}}

WriterReceives ==
  /\ writer = "recv" /\ taken < Len(log)
  /\ taken' = taken + 1 /\ writer' = "send"
  /\ UNCHANGED <<connVars, log, request, wsVars>>

\* A dead peer's socket still accepts bytes for a while; once the read half saw
\* a Close frame the library refuses every write.
WriterSends ==
  /\ writer = "send" /\ result # "ok"
  /\ writer' = "recv"
  /\ UNCHANGED <<connVars, log, taken, request, wsVars>>

WriterFails ==
  /\ writer = "send" /\ link = "closed"
  /\ writer' = "failed"
  /\ UNCHANGED <<connVars, log, taken, request, wsVars>>

\* Mutant: the writer stops whenever the channel is empty.
WriterEnds_WhenEmpty ==
  /\ writer = "recv" /\ taken = Len(log)
  /\ writer' = "done"
  /\ UNCHANGED <<connVars, log, taken, request, wsVars>>

\* recv() returns None: the channel is empty and every clone of tx is gone.
WriterEnds ==
  /\ writer = "recv" /\ taken = Len(log) /\ ~TxHeld
  /\ writer' = "done"
  /\ UNCHANGED <<connVars, log, taken, request, wsVars>>

-----------------------------------------------------------------------------
(* The read loop. Frames sent before a close are still read after it. *)

CanRead == reader = "next" /\ link \in {"up", "closed"}

ReadRequest(r) ==
  /\ CanRead /\ request[r] = "idle"
  /\ request' = [request EXCEPT ![r] = "proxy"]
  /\ UNCHANGED <<connVars, txVars, wsVars>>

ReadHeartbeat ==
  /\ CanRead /\ beats < MaxBeats
  /\ beats' = beats + 1 /\ reader' = "ack"
  /\ UNCHANGED <<push, result, link, txVars, request, wsVars>>

SendHeartbeatAck ==
  /\ reader = "ack" /\ Send(HeartbeatAck)
  /\ reader' = "next"
  /\ UNCHANGED <<push, result, link, beats, writer, taken, request, wsVars>>

ReadPing ==
  /\ CanRead /\ beats < MaxBeats
  /\ beats' = beats + 1 /\ reader' = "pong"
  /\ UNCHANGED <<push, result, link, txVars, request, wsVars>>

SendPong ==
  /\ reader = "pong" /\ ~WriterGone /\ Send(Pong)
  /\ reader' = "next"
  /\ UNCHANGED <<push, result, link, beats, writer, taken, request, wsVars>>

\* The writer is gone: leave the loop.
PongFails ==
  /\ reader = "pong" /\ WriterGone
  /\ reader' = "drain" /\ result' = "err"
  /\ UNCHANGED <<push, link, beats, txVars, request, wsVars>>

ReadWsOpen(s) ==
  /\ CanRead /\ session[s] = "idle"
  /\ session' = [session EXCEPT ![s] = "dial"]
  /\ UNCHANGED <<connVars, txVars, request, local, table, fed, eaten, app, down, up, hungup>>

\* The server relays frames of the browser once it has seen the ack. One that
\* arrives late, after a ws-close, is allowed too.
ReadWsMsg(s) ==
  /\ CanRead /\ OpenOk(s) \in Written /\ down[s] < MaxDown
  /\ down' = [down EXCEPT ![s] = @ + 1]
  /\ IF s \in table
     THEN reader' = "push" /\ push' = [id |-> s, event |-> "msg"]
     ELSE UNCHANGED <<reader, push>>
  /\ UNCHANGED <<result, link, beats, txVars, request,
                 session, local, table, fed, eaten, app, up, hungup>>

\* Mutant: the entry is looked up, not removed.
ReadWsClose_KeepsEntry(s) ==
  /\ CanRead /\ session[s] # "idle" /\ s \notin hungup
  /\ hungup' = hungup \cup {s}
  /\ IF s \in table
     THEN reader' = "push" /\ push' = [id |-> s, event |-> "close"]
     ELSE UNCHANGED <<reader, push>>
  /\ UNCHANGED <<result, link, beats, txVars, request,
                 session, local, table, fed, eaten, app, down, up>>

\* The browser may hang up at any time after it asked for the WebSocket.
ReadWsClose(s) ==
  /\ CanRead /\ session[s] # "idle" /\ s \notin hungup
  /\ hungup' = hungup \cup {s}
  /\ table' = table \ {s}
  /\ IF s \in table
     THEN reader' = "push" /\ push' = [id |-> s, event |-> "close"]
     ELSE UNCHANGED <<reader, push>>
  /\ UNCHANGED <<result, link, beats, txVars, request,
                 session, local, fed, eaten, app, down, up>>

\* Mutant: try_send, a frame that finds the session's channel full is dropped.
Push_TrySend ==
  /\ reader = "push"
  /\ LET s == push.id IN
       fed' = IF local[s] # "ended" /\ Len(fed[s]) - eaten[s] < SessCap
              THEN [fed EXCEPT ![s] = Append(@, push.event)] ELSE fed
  /\ reader' = "next" /\ push' = NoPush
  /\ UNCHANGED <<result, link, beats, txVars, request,
                 session, local, table, eaten, app, down, up, hungup>>

\* sender.send(event).await: waits for room in the session's channel; fails,
\* and is ignored, once the local_write_task has dropped its receiver.
Push ==
  /\ reader = "push"
  /\ LET s == push.id IN
       \/ /\ local[s] = "ended" /\ fed' = fed
       \/ /\ local[s] # "ended" /\ Len(fed[s]) - eaten[s] < SessCap
          /\ fed' = [fed EXCEPT ![s] = Append(@, push.event)]
  /\ reader' = "next" /\ push' = NoPush
  /\ UNCHANGED <<result, link, beats, txVars, request,
                 session, local, table, eaten, app, down, up, hungup>>

\* A Close frame: drop(tx), await the writer, Ok.
ReadClose ==
  /\ reader = "next" /\ link = "closed"
  /\ reader' = "drain" /\ result' = "ok"
  /\ UNCHANGED <<push, link, beats, txVars, request, wsVars>>

\* End of the stream: leave the loop, drop(tx), await the writer, Err.
ReadEnd ==
  /\ reader = "next" /\ link = "closed"
  /\ reader' = "drain" /\ result' = "err"
  /\ UNCHANGED <<push, link, beats, txVars, request, wsVars>>

\* A read error: returned at once, the writer is left running.
ReadError ==
  /\ reader = "next" /\ link = "closed"
  /\ reader' = "returned" /\ result' = "err"
  /\ UNCHANGED <<push, link, beats, txVars, request, wsVars>>

\* Mutant: no timer around the read.
ReadTimeout_Untimed ==
  /\ reader = "next" /\ link = "closed"
  /\ reader' = "returned" /\ result' = "err"
  /\ UNCHANGED <<push, link, beats, txVars, request, wsVars>>

\* No frame in SERVER_SILENCE_TIMEOUT; the timer runs only in ws_read.next().
ReadTimeout ==
  /\ reader = "next" /\ link = "silent"
  /\ reader' = "returned" /\ result' = "err"
  /\ UNCHANGED <<push, link, beats, txVars, request, wsVars>>

Drained ==
  /\ reader = "drain" /\ WriterGone
  /\ reader' = "returned"
  /\ UNCHANGED <<push, result, link, beats, txVars, request, wsVars>>

-----------------------------------------------------------------------------
(* handle_request *)

\* Mutant: a failed request returns without an answer.
ProxyAnswers_Silent(r) ==
  /\ request[r] = "proxy"
  /\ request' = [request EXCEPT ![r] = "done"]
  /\ UNCHANGED <<connVars, txVars, wsVars>>

\* proxy_request always yields a response: the application's, or 4xx/5xx;
\* the client's timeout bounds the wait.
ProxyAnswers(r) ==
  /\ request[r] = "proxy"
  /\ request' = [request EXCEPT ![r] = "reply"]
  /\ UNCHANGED <<connVars, txVars, wsVars>>

\* Mutant: try_send, a response that finds the channel full is dropped.
SendResponse_TrySend(r) ==
  /\ request[r] = "reply"
  /\ log' = IF ~WriterGone /\ Len(log) - taken < TxCap THEN Append(log, Response(r)) ELSE log
  /\ request' = [request EXCEPT ![r] = "done"]
  /\ UNCHANGED <<connVars, writer, taken, wsVars>>

SendResponse(r) ==
  /\ request[r] = "reply" /\ Send(Response(r))
  /\ request' = [request EXCEPT ![r] = "done"]
  /\ UNCHANGED <<connVars, writer, taken, wsVars>>

-----------------------------------------------------------------------------
(* handle_ws_open *)

Goto(s, from, to) ==
  /\ session[s] = from
  /\ session' = [session EXCEPT ![s] = to]

DialSucceeds(s) ==
  /\ Goto(s, "dial", "ack")
  /\ app' = [app EXCEPT ![s] = "open"]
  /\ UNCHANGED <<connVars, txVars, request, local, table, fed, eaten, down, up, hungup>>

\* An invalid URL or a refused dial.
DialFails(s) ==
  /\ Goto(s, "dial", "nack")
  /\ UNCHANGED <<connVars, txVars, request, local, table, fed, eaten, app, down, up, hungup>>

SendNack(s) ==
  /\ Goto(s, "nack", "ended") /\ Send(OpenFailed(s))
  /\ UNCHANGED <<connVars, writer, taken, request,
                 local, table, fed, eaten, app, down, up, hungup>>

SendAck(s) ==
  /\ Goto(s, "ack", "register") /\ Send(OpenOk(s))
  /\ UNCHANGED <<connVars, writer, taken, request,
                 local, table, fed, eaten, app, down, up, hungup>>

\* The channel is created, its sender inserted, the local_write_task spawned.
Register(s) ==
  /\ Goto(s, "register", "read")
  /\ table' = table \cup {s}
  /\ local' = [local EXCEPT ![s] = "recv"]
  /\ UNCHANGED <<connVars, txVars, request, fed, eaten, app, down, up, hungup>>

\* What an application sent before it left can be read still.
ReadLocalFrame(s) ==
  /\ Goto(s, "read", "msg")
  /\ app[s] # "none" /\ up[s] < MaxUp
  /\ up' = [up EXCEPT ![s] = @ + 1]
  /\ UNCHANGED <<connVars, txVars, request, local, table, fed, eaten, app, down, hungup>>

SendWsMsg(s) ==
  /\ Goto(s, "msg", "read") /\ Send(WsMsg(s))
  /\ UNCHANGED <<connVars, writer, taken, request,
                 local, table, fed, eaten, app, down, up, hungup>>

\* Mutant: a Close frame is handled like a read error.
ReadLocalClose_Unreported(s) ==
  /\ Goto(s, "read", "remove") /\ app[s] = "left"
  /\ UNCHANGED <<connVars, txVars, request, local, table, fed, eaten, app, down, up, hungup>>

ReadLocalClose(s) ==
  /\ Goto(s, "read", "close") /\ app[s] = "left"
  /\ UNCHANGED <<connVars, txVars, request, local, table, fed, eaten, app, down, up, hungup>>

\* Mutant: the break after the ws-close is missing.
SendWsClose_NoBreak(s) ==
  /\ Goto(s, "close", "read") /\ Send(WsClose(s))
  /\ UNCHANGED <<connVars, writer, taken, request,
                 local, table, fed, eaten, app, down, up, hungup>>

SendWsClose(s) ==
  /\ Goto(s, "close", "remove") /\ Send(WsClose(s))
  /\ UNCHANGED <<connVars, writer, taken, request,
                 local, table, fed, eaten, app, down, up, hungup>>

\* A read error or an end without Close frame: nothing is sent upstream.
ReadLocalError(s) ==
  /\ Goto(s, "read", "remove") /\ app[s] = "gone"
  /\ UNCHANGED <<connVars, txVars, request, local, table, fed, eaten, app, down, up, hungup>>

\* Mutant: the entry stays in the table.
RemoveSession_Forgets(s) ==
  /\ Goto(s, "remove", "join")
  /\ UNCHANGED <<connVars, txVars, request, local, table, fed, eaten, app, down, up, hungup>>

RemoveSession(s) ==
  /\ Goto(s, "remove", "join")
  /\ table' = table \ {s}
  /\ UNCHANGED <<connVars, txVars, request, local, fed, eaten, app, down, up, hungup>>

\* Mutant: the local_write_task is not awaited.
JoinLocalWriter_Detached(s) ==
  /\ Goto(s, "join", "ended")
  /\ UNCHANGED <<connVars, txVars, request, local, table, fed, eaten, app, down, up, hungup>>

JoinLocalWriter(s) ==
  /\ Goto(s, "join", "ended") /\ local[s] = "ended"
  /\ UNCHANGED <<connVars, txVars, request, local, table, fed, eaten, app, down, up, hungup>>

-----------------------------------------------------------------------------
(* local_write_task *)

Receive(s, event, to) ==
  /\ local[s] = "recv" /\ eaten[s] < Len(fed[s]) /\ fed[s][eaten[s] + 1] = event
  /\ eaten' = [eaten EXCEPT ![s] = @ + 1]
  /\ local' = [local EXCEPT ![s] = to]
  /\ UNCHANGED <<connVars, txVars, request, session, table, fed, app, down, up, hungup>>

ReceiveMsg(s) == Receive(s, "msg", "write")

\* A binary message that is not valid base64 is skipped.
SkipUndecodable(s) == Receive(s, "msg", "recv")

ReceiveClose(s) == Receive(s, "close", "close")

\* Blocks while the application does not read.
WriteLocal(s) ==
  /\ local[s] = "write" /\ app[s] # "gone"
  /\ local' = [local EXCEPT ![s] = "recv"]
  /\ UNCHANGED <<connVars, txVars, request, session, table, fed, eaten, app, down, up, hungup>>

WriteLocalFails(s) ==
  /\ local[s] = "write" /\ app[s] \in {"left", "gone"}
  /\ local' = [local EXCEPT ![s] = "ended"]
  /\ UNCHANGED <<connVars, txVars, request, session, table, fed, eaten, app, down, up, hungup>>

\* Mutant: the task breaks without writing the Close frame.
WriteLocalClose_Unwritten(s) ==
  /\ local[s] = "close"
  /\ local' = [local EXCEPT ![s] = "ended"]
  /\ UNCHANGED <<connVars, txVars, request, session, table, fed, eaten, app, down, up, hungup>>

\* The Close frame is written, or fails; the task ends either way.
WriteLocalClose(s) ==
  /\ local[s] = "close"
  /\ local' = [local EXCEPT ![s] = "ended"]
  /\ app' = [app EXCEPT ![s] = IF @ = "open" THEN "told" ELSE @]
  /\ UNCHANGED <<connVars, txVars, request, session, table, fed, eaten, down, up, hungup>>

\* recv() returns None: the channel is empty and its senders are dropped. They
\* are the table's entry and the clone the read loop is pushing with.
LocalWriterEnds(s) ==
  /\ local[s] = "recv" /\ eaten[s] = Len(fed[s])
  /\ s \notin table /\ push.id # s
  /\ local' = [local EXCEPT ![s] = "ended"]
  /\ UNCHANGED <<connVars, txVars, request, session, table, fed, eaten, app, down, up, hungup>>

-----------------------------------------------------------------------------
(* The environment: the link to the server and the local applications *)

LinkFallsSilent ==
  /\ link = "up" /\ link' = "silent"
  /\ UNCHANGED <<reader, push, result, beats, txVars, request, wsVars>>

LinkCloses ==
  /\ link # "closed" /\ link' = "closed"
  /\ UNCHANGED <<reader, push, result, beats, txVars, request, wsVars>>

\* The application sends a Close frame, on its own or in answer to ours.
AppLeaves(s) ==
  /\ app[s] \in {"open", "told"}
  /\ app' = [app EXCEPT ![s] = "left"]
  /\ UNCHANGED <<connVars, txVars, request, session, local, table, fed, eaten, down, up, hungup>>

\* It is gone without one, or a reset overtakes the one it sent. (Once that was
\* read, a reset makes no difference.)
AppVanishes(s) ==
  /\ \/ app[s] \in {"open", "told"}
     \/ app[s] = "left" /\ session[s] \notin {"close", "remove", "join", "ended"}
  /\ app' = [app EXCEPT ![s] = "gone"]
  /\ UNCHANGED <<connVars, txVars, request, session, local, table, fed, eaten, down, up, hungup>>

-----------------------------------------------------------------------------
Writer == WriterReceives \/ WriterSends \/ WriterFails \/ WriterEnds

Reader ==
  \/ ReadHeartbeat \/ SendHeartbeatAck \/ ReadPing \/ SendPong \/ PongFails
  \/ Push \/ ReadClose \/ ReadEnd \/ ReadError \/ ReadTimeout \/ Drained
  \/ \E r \in Requests : ReadRequest(r)
  \/ \E s \in Sessions : ReadWsOpen(s) \/ ReadWsMsg(s) \/ ReadWsClose(s)

HandleRequest(r) == ProxyAnswers(r) \/ SendResponse(r)

HandleWsOpen(s) ==
  \/ DialSucceeds(s) \/ DialFails(s) \/ SendNack(s) \/ SendAck(s) \/ Register(s)
  \/ ReadLocalFrame(s) \/ SendWsMsg(s) \/ ReadLocalClose(s) \/ SendWsClose(s)
  \/ ReadLocalError(s) \/ RemoveSession(s) \/ JoinLocalWriter(s)

LocalWriteTask(s) ==
  \/ ReceiveMsg(s) \/ SkipUndecodable(s) \/ ReceiveClose(s)
  \/ WriteLocal(s) \/ WriteLocalFails(s) \/ WriteLocalClose(s) \/ LocalWriterEnds(s)

App(s) == AppLeaves(s) \/ AppVanishes(s)

Next ==
  \/ Writer \/ Reader \/ LinkFallsSilent \/ LinkCloses
  \/ \E r \in Requests : HandleRequest(r)
  \/ \E s \in Sessions : HandleWsOpen(s) \/ LocalWriteTask(s) \/ App(s)

Spec == Init /\ [][Next]_vars

-----------------------------------------------------------------------------
(* Safety *)

Acks(s) == {OpenOk(s), OpenFailed(s)}

Live(s) == session[s] \in {"read", "msg", "close", "remove"}

\* Each request is answered at most once, and a request whose task is over
\* was answered unless the writer died first: handle_request has no path that
\* returns without sending (tunnel.rs:394-419).
AnsweredOnce ==
  /\ \A i, j \in 1..Len(log) : log[i] = log[j] /\ log[i].type = "response" => i = j
  /\ \A r \in Requests : request[r] = "done" /\ ~WriterGone =>
       \E i \in 1..Len(log) : log[i] = Response(r)

\* What the server sees of one session: a refusal and nothing else, or an
\* ok ack, then any number of ws-msg, then at most one ws-close. The envelopes
\* come from one task that awaits each send (tunnel.rs:493-609).
SessionProtocol ==
  \A s \in Sessions :
    /\ \A i \in 1..Len(log) : log[i] \in {WsMsg(s), WsClose(s)} =>
         \E j \in 1..(i - 1) : log[j] = OpenOk(s)
    /\ \A i, j \in 1..Len(log) : log[i] \in Acks(s) /\ log[j] \in Acks(s) => i = j
    /\ \A i, j \in 1..Len(log) : log[i] = WsClose(s) /\ log[j] \in {WsMsg(s), WsClose(s)} => j <= i
    /\ \A i \in 1..Len(log) : log[i] = OpenFailed(s) => session[s] = "ended"

\* The table holds running sessions only, and a running session is missing
\* from it only because its ws-close was taken off the wire and is delivered
\* or on its way (tunnel.rs:341-349, 514, 608).
TableMatchesSessions ==
  \A s \in Sessions :
    /\ s \in table => Live(s)
    /\ Live(s) /\ s \notin table =>
         \/ push = [id |-> s, event |-> "close"]
         \/ \E i \in 1..Len(fed[s]) : fed[s][i] = "close"
         \/ local[s] = "ended"

\* A Close event is the last event a session's channel ever accepts: the entry
\* is removed before the event is pushed, so the frames before it are written
\* to the application and none after it (tunnel.rs:341-349).
CloseIsLastEvent ==
  \A s \in Sessions : \A i \in 1..Len(fed[s]) :
    fed[s][i] = "close" => i = Len(fed[s]) /\ s \notin table /\ push.id # s

\* The writer task stops by itself only when nobody can send any more, and
\* nobody gets a sender afterwards: no response is lost to an early stop
\* (tunnel.rs:244-250, 364, 376).
WriterStopsLast == writer = "done" => ~TxHeld /\ taken = Len(log)

\* An application that closes its WebSocket in order, no reset overtaking its Close
\* frame, is reported upstream: once its session is over the ws-close was queued
\* (tunnel.rs:592-603).
OrderlyEndReported ==
  \A s \in Sessions :
    session[s] \in {"remove", "join", "ended"} /\ app[s] = "left" /\ ~WriterGone =>
      \E i \in 1..Len(log) : log[i] = WsClose(s)

\* A session is over only when both of its tasks are: none keeps a half of the
\* local WebSocket behind (tunnel.rs:608-609).
NoTaskLeftBehind ==
  \A s \in Sessions :
    session[s] = "ended" => local[s] \in {"none", "ended"} /\ s \notin table

-----------------------------------------------------------------------------
(* Fairness *)

\* The writer's wait for a message, and its write: to a server that is there, or
\* known to be gone.
WriterWaits == WriterReceives \/ WriterEnds
WriterWrites == link # "silent" /\ (WriterSends \/ WriterFails)

\* The read loop's waits on channels and on the writer, and its reads of a dead link.
ReaderWaits == SendHeartbeatAck \/ SendPong \/ PongFails \/ Push \/ Drained
ReaderLeaves == ReadClose \/ ReadEnd \/ ReadError \/ ReadTimeout

SessionSteps(s) ==
  \/ SendNack(s) \/ SendAck(s) \/ Register(s) \/ SendWsMsg(s) \/ ReadLocalClose(s)
  \/ SendWsClose(s) \/ ReadLocalError(s) \/ RemoveSession(s) \/ JoinLocalWriter(s)

LocalReceives(s) == ReceiveMsg(s) \/ SkipUndecodable(s) \/ ReceiveClose(s) \/ LocalWriterEnds(s)

AppOver(s) == app[s] \in {"left", "gone"}

LocalWrites(s) == WriteLocal(s) \/ WriteLocalFails(s) \/ WriteLocalClose(s)

\* What the runtime and the kernel give: a ready task is polled, a write to a
\* server that is there (or known to be gone) returns, so does one to an
\* application that is over, the HTTP client and the read timer expire.
TaskFairness ==
  /\ WF_vars(WriterWaits) /\ WF_vars(WriterWrites)
  /\ WF_vars(ReaderWaits) /\ WF_vars(ReaderLeaves)
  /\ \A r \in Requests : WF_vars(HandleRequest(r))
  /\ \A s \in Sessions :
       /\ WF_vars(SessionSteps(s))
       /\ WF_vars(LocalReceives(s))
       /\ WF_vars(AppOver(s) /\ LocalWrites(s))

\* A well-behaved application completes the handshake, reads its socket, and
\* answers a Close frame.
AppFairness ==
  \A s \in Sessions :
    /\ WF_vars(DialSucceeds(s) \/ DialFails(s))
    /\ WF_vars(LocalWrites(s))
    /\ WF_vars(app[s] = "told" /\ App(s))

FairSpec == Spec /\ TaskFairness
ResponsiveSpec == FairSpec /\ AppFairness

-----------------------------------------------------------------------------
(* Liveness *)

\* A request read while the link is up gets its response on the wire, whatever
\* the WebSocket sessions, the read loop and the applications do.
RequestsAnswered ==
  \A r \in Requests :
    request[r] = "proxy" ~> (Response(r) \in Written \/ link # "up")

\* When the application ends a registered session, both its tasks end, even
\* while the read loop is pushing to it.
SessionEndsWithApp ==
  \A s \in Sessions : Live(s) /\ AppOver(s) ~> (session[s] = "ended" \/ link = "silent")

\* With no WebSocket session alive, a closed connection is left: the responses
\* in flight are bounded by the client's timeout.
DrainsWithoutSessions ==
  (reader = "drain" /\ \A s \in Sessions : session[s] \in {"idle", "ended"})
    ~> reader = "returned"

\* With a well-behaved application, a ws-close that found its session in the
\* table ends it.
DeliveredCloseEndsSession ==
  AppFairness => \A s \in Sessions :
    (push = [id |-> s, event |-> "close"]) ~> (session[s] = "ended" \/ link = "silent")

-----------------------------------------------------------------------------
(* What the comments say, and the code does not do *)

\* tunnel.rs:429-430 "then shuttle frames in both directions until either side
\* closes": a session whose browser hung up ends.
BrowserCloseEndsSession ==
  \A s \in Sessions : s \in hungup ~> (session[s] = "ended" \/ link # "up")

\* tunnel.rs:261-266: a connection that died silently is left, instead of a
\* read loop that hangs while "connected" is on display.
SilenceDetected == (link = "silent") ~> (reader = "returned" \/ link = "closed")

\* The same of a connection the server closed.
DrainReturns == (reader = "drain") ~> (reader = "returned")
=============================================================================
