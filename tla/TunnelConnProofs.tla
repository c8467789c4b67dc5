-------------------------- MODULE TunnelConnProofs --------------------------
(***************************************************************************)
(* Proofs about TunnelConn, for every set of requests and sessions and     *)
(* every capacity of the channels.                                         *)
(***************************************************************************)
EXTENDS TunnelConn, TLAPS

USE DEF connVars, txVars, wsVars

-----------------------------------------------------------------------------
(* Messages and the channel *)

\* Every message the tasks send is a Message.
LEMMA MessageMembers ==
  /\ \A r \in Requests : Response(r) \in Message
  /\ \A s \in Sessions : {OpenOk(s), OpenFailed(s), WsMsg(s), WsClose(s)} \subseteq Message
  /\ HeartbeatAck \in Message /\ Pong \in Message
BY DEF Message

\* A send keeps the channel within its capacity.
LEMMA SendType ==
  ASSUME TypeOK, NEW m \in Message, Send(m), taken' = taken
  PROVE  /\ log' \in Seq(Message)
         /\ taken' \in 0..Len(log') /\ Len(log') - taken' <= TxCap
<1>1. CASE log' = log
  BY <1>1 DEF TypeOK
<1>2. CASE log' = Append(log, m) /\ Len(log) - taken < TxCap
  <2>1. Len(log') = Len(log) + 1 /\ log' \in Seq(Message) /\ Len(log) \in Nat
    BY <1>2 DEF TypeOK
  <2> QED BY <1>2, <2>1, CapAssumption DEF TypeOK
<1> QED BY <1>1, <1>2 DEF Send

-----------------------------------------------------------------------------
(* The type invariant *)

LEMMA TypeInit == Init => TypeOK
BY CapAssumption, BoundAssumption DEF Init, TypeOK, NoPush

LEMMA TypeWriter == TypeOK /\ Writer => TypeOK'
<1> SUFFICES ASSUME TypeOK, Writer PROVE TypeOK' OBVIOUS
<1>1. CASE WriterReceives
  <2>1. Len(log) \in Nat /\ taken \in Nat BY DEF TypeOK
  <2>2. taken' \in 0..Len(log') /\ Len(log') - taken' <= TxCap
    BY <1>1, <2>1, CapAssumption DEF WriterReceives, TypeOK
  <2> QED BY <1>1, <2>2 DEF WriterReceives, TypeOK
<1>2. CASE WriterSends BY <1>2 DEF WriterSends, TypeOK
<1>3. CASE WriterFails BY <1>3 DEF WriterFails, TypeOK
<1>4. CASE WriterEnds BY <1>4 DEF WriterEnds, TypeOK
<1> QED BY <1>1, <1>2, <1>3, <1>4 DEF Writer

LEMMA TypeReader == TypeOK /\ Reader => TypeOK'
<1> SUFFICES ASSUME TypeOK, Reader PROVE TypeOK' OBVIOUS
<1>1. CASE ReadHeartbeat BY <1>1, BoundAssumption DEF ReadHeartbeat, CanRead, TypeOK
<1>2. CASE SendHeartbeatAck
  BY <1>2, SendType, MessageMembers DEF SendHeartbeatAck, TypeOK
<1>3. CASE ReadPing BY <1>3, BoundAssumption DEF ReadPing, CanRead, TypeOK
<1>4. CASE SendPong BY <1>4, SendType, MessageMembers DEF SendPong, TypeOK
<1>5. CASE PongFails BY <1>5 DEF PongFails, TypeOK
<1>6. CASE Push
  <2>1. push.id \in Sessions /\ push.event \in Event
    BY <1>6 DEF Push, TypeOK
  <2>2. CASE fed' = fed BY <1>6, <2>2 DEF Push, TypeOK
  <2>3. CASE /\ Len(fed[push.id]) - eaten[push.id] < SessCap
             /\ fed' = [fed EXCEPT ![push.id] = Append(@, push.event)]
    <3>1. fed' \in [Sessions -> Seq(Event)] BY <2>1, <2>3 DEF TypeOK
    <3>2. \A s \in Sessions : eaten[s] <= Len(fed'[s]) /\ Len(fed'[s]) - eaten[s] <= SessCap
      <4> TAKE s \in Sessions
      <4>1. CASE s # push.id BY <2>3, <4>1 DEF TypeOK
      <4>2. CASE s = push.id
        <5>1. fed'[s] = Append(fed[s], push.event) BY <2>3, <4>2 DEF TypeOK
        <5>2. Len(fed'[s]) = Len(fed[s]) + 1 /\ Len(fed[s]) \in Nat /\ eaten[s] \in Nat
          BY <5>1, <2>1 DEF TypeOK
        <5> QED BY <5>2, <2>3, <4>2, CapAssumption DEF TypeOK
      <4> QED BY <4>1, <4>2
    <3> QED BY <1>6, <3>1, <3>2 DEF Push, TypeOK
  <2> QED BY <1>6, <2>2, <2>3 DEF Push
<1>7. CASE ReadClose BY <1>7 DEF ReadClose, TypeOK
<1>8. CASE ReadEnd BY <1>8 DEF ReadEnd, TypeOK
<1>9. CASE ReadError BY <1>9 DEF ReadError, TypeOK
<1>10. CASE ReadTimeout BY <1>10 DEF ReadTimeout, TypeOK
<1>11. CASE Drained BY <1>11 DEF Drained, TypeOK
<1>12. ASSUME NEW r \in Requests, ReadRequest(r) PROVE TypeOK'
  BY <1>12 DEF ReadRequest, TypeOK
<1>13. ASSUME NEW s \in Sessions, ReadWsOpen(s) PROVE TypeOK'
  BY <1>13 DEF ReadWsOpen, TypeOK
<1>14. ASSUME NEW s \in Sessions, ReadWsMsg(s) PROVE TypeOK'
  <2>1. down' \in [Sessions -> 0..MaxDown]
    BY <1>14, BoundAssumption DEF ReadWsMsg, TypeOK
  <2>2. CASE s \in table
    BY <1>14, <2>1, <2>2 DEF ReadWsMsg, TypeOK, Event, NoPush
  <2>3. CASE s \notin table
    BY <1>14, <2>1, <2>3 DEF ReadWsMsg, TypeOK
  <2> QED BY <2>2, <2>3
<1>15. ASSUME NEW s \in Sessions, ReadWsClose(s) PROVE TypeOK'
  <2>2. CASE s \in table
    BY <1>15, <2>2 DEF ReadWsClose, TypeOK, Event, NoPush
  <2>3. CASE s \notin table
    BY <1>15, <2>3 DEF ReadWsClose, TypeOK
  <2> QED BY <2>2, <2>3
<1> QED
  BY <1>1, <1>2, <1>3, <1>4, <1>5, <1>6, <1>7, <1>8, <1>9, <1>10, <1>11,
     <1>12, <1>13, <1>14, <1>15 DEF Reader

LEMMA TypeRequest == ASSUME TypeOK, NEW r \in Requests, HandleRequest(r) PROVE TypeOK'
<1>1. CASE ProxyAnswers(r) BY <1>1 DEF ProxyAnswers, TypeOK
<1>2. CASE SendResponse(r)
  BY <1>2, SendType, MessageMembers DEF SendResponse, TypeOK
<1> QED BY <1>1, <1>2 DEF HandleRequest

\* The steps of a session that send, or change no more than its counters.
LEMMA TypeSession == ASSUME TypeOK, NEW s \in Sessions, HandleWsOpen(s) PROVE TypeOK'
<1>1. CASE DialSucceeds(s) BY <1>1 DEF DialSucceeds, Goto, TypeOK
<1>2. CASE DialFails(s) BY <1>2 DEF DialFails, Goto, TypeOK
<1>3. CASE SendNack(s) BY <1>3, SendType, MessageMembers DEF SendNack, Goto, TypeOK
<1>4. CASE SendAck(s) BY <1>4, SendType, MessageMembers DEF SendAck, Goto, TypeOK
<1>5. CASE Register(s) BY <1>5 DEF Register, Goto, TypeOK
<1>6. CASE ReadLocalFrame(s)
  BY <1>6, BoundAssumption DEF ReadLocalFrame, Goto, TypeOK
<1>7. CASE SendWsMsg(s) BY <1>7, SendType, MessageMembers DEF SendWsMsg, Goto, TypeOK
<1>8. CASE ReadLocalClose(s) BY <1>8 DEF ReadLocalClose, Goto, TypeOK
<1>9. CASE SendWsClose(s) BY <1>9, SendType, MessageMembers DEF SendWsClose, Goto, TypeOK
<1>10. CASE ReadLocalError(s) BY <1>10 DEF ReadLocalError, Goto, TypeOK
<1>11. CASE RemoveSession(s) BY <1>11 DEF RemoveSession, Goto, TypeOK
<1>12. CASE JoinLocalWriter(s) BY <1>12 DEF JoinLocalWriter, Goto, TypeOK
<1> QED
  BY <1>1, <1>2, <1>3, <1>4, <1>5, <1>6, <1>7, <1>8, <1>9, <1>10, <1>11, <1>12
  DEF HandleWsOpen

\* A receive takes an event the channel holds.
LEMMA TypeReceive ==
  ASSUME TypeOK, NEW s \in Sessions, NEW event,
         NEW to \in {"recv", "write", "close"}, Receive(s, event, to)
  PROVE  TypeOK'
<1>1. local' \in [Sessions -> {"none", "recv", "write", "close", "ended"}]
  BY DEF Receive, TypeOK
<1>2. eaten' \in [Sessions -> Nat] BY DEF Receive, TypeOK
<1>3. \A t \in Sessions : eaten'[t] <= Len(fed'[t]) /\ Len(fed'[t]) - eaten'[t] <= SessCap
  <2> TAKE t \in Sessions
  <2>1. Len(fed[t]) \in Nat /\ eaten[t] \in Nat /\ fed' = fed BY DEF Receive, TypeOK
  <2>2. CASE t # s BY <2>1, <2>2 DEF Receive, TypeOK
  <2>3. CASE t = s
    <3>1. eaten'[t] = eaten[t] + 1 /\ eaten[t] < Len(fed[t])
      BY <2>3 DEF Receive, TypeOK
    <3> QED BY <2>1, <3>1, CapAssumption DEF TypeOK
  <2> QED BY <2>2, <2>3
<1> QED BY <1>1, <1>2, <1>3 DEF Receive, TypeOK

LEMMA TypeLocal == ASSUME TypeOK, NEW s \in Sessions, LocalWriteTask(s) PROVE TypeOK'
<1>1. CASE ReceiveMsg(s) BY <1>1, TypeReceive DEF ReceiveMsg
<1>2. CASE SkipUndecodable(s) BY <1>2, TypeReceive DEF SkipUndecodable
<1>3. CASE ReceiveClose(s) BY <1>3, TypeReceive DEF ReceiveClose
<1>4. CASE WriteLocal(s) BY <1>4 DEF WriteLocal, TypeOK
<1>5. CASE WriteLocalFails(s) BY <1>5 DEF WriteLocalFails, TypeOK
<1>6. CASE WriteLocalClose(s) BY <1>6 DEF WriteLocalClose, TypeOK
<1>7. CASE LocalWriterEnds(s) BY <1>7 DEF LocalWriterEnds, TypeOK
<1> QED BY <1>1, <1>2, <1>3, <1>4, <1>5, <1>6, <1>7 DEF LocalWriteTask

LEMMA TypeEnvironment ==
  ASSUME TypeOK, LinkFallsSilent \/ LinkCloses \/ \E s \in Sessions : App(s)
  PROVE  TypeOK'
<1>1. CASE LinkFallsSilent BY <1>1 DEF LinkFallsSilent, TypeOK
<1>2. CASE LinkCloses BY <1>2 DEF LinkCloses, TypeOK
<1>3. ASSUME NEW s \in Sessions, AppLeaves(s) PROVE TypeOK' BY <1>3 DEF AppLeaves, TypeOK
<1>4. ASSUME NEW s \in Sessions, AppVanishes(s) PROVE TypeOK' BY <1>4 DEF AppVanishes, TypeOK
<1> QED BY <1>1, <1>2, <1>3, <1>4 DEF App

LEMMA TypeStep == TypeOK /\ [Next]_vars => TypeOK'
<1> SUFFICES ASSUME TypeOK, [Next]_vars PROVE TypeOK' OBVIOUS
<1>1. CASE Writer BY <1>1, TypeWriter
<1>2. CASE Reader BY <1>2, TypeReader
<1>3. ASSUME NEW r \in Requests, HandleRequest(r) PROVE TypeOK' BY <1>3, TypeRequest
<1>4. ASSUME NEW s \in Sessions, HandleWsOpen(s) PROVE TypeOK' BY <1>4, TypeSession
<1>5. ASSUME NEW s \in Sessions, LocalWriteTask(s) PROVE TypeOK' BY <1>5, TypeLocal
<1>6. CASE LinkFallsSilent \/ LinkCloses \/ \E s \in Sessions : App(s)
  BY <1>6, TypeEnvironment
<1>7. CASE UNCHANGED vars BY <1>7 DEF vars, TypeOK
<1> QED BY <1>1, <1>2, <1>3, <1>4, <1>5, <1>6, <1>7 DEF Next

\* Every state is well typed; in particular neither channel ever holds more
\* than its capacity, and the read loop pushes only to sessions (TypeOK).
THEOREM TypeCorrect == Spec => []TypeOK
<1>1. Init => TypeOK BY TypeInit
<1>2. TypeOK /\ [Next]_vars => TypeOK' BY TypeStep
<1> QED BY <1>1, <1>2, PTL DEF Spec

-----------------------------------------------------------------------------
(* The writer task *)

\* Nothing brings back a sender once all are dropped, and a writer that is
\* done stays so: WriterStopsLast is inductive.
LEMMA WriterLastStep == TypeOK /\ WriterStopsLast /\ [Next]_vars => WriterStopsLast'
<1> SUFFICES ASSUME TypeOK, WriterStopsLast, [Next]_vars, writer' = "done"
             PROVE  ~TxHeld' /\ taken' = Len(log')
  BY DEF WriterStopsLast
<1> USE DEF TxHeld, ReaderHoldsTx, RequestHoldsTx, SessionHoldsTx
<1>1. CASE WriterEnds BY <1>1 DEF WriterEnds
<1>2. CASE ~WriterEnds /\ writer = "done"
  <2>1. ~TxHeld /\ taken = Len(log) BY <1>2 DEF WriterStopsLast
  <2>2. CASE Writer
    BY <1>2, <2>2 DEF Writer, WriterReceives, WriterSends, WriterFails
  <2>3. CASE Reader
    BY <2>1, <2>3 DEF Reader, ReadHeartbeat, SendHeartbeatAck, ReadPing, SendPong, PongFails,
       Push, ReadClose, ReadEnd, ReadError, ReadTimeout, Drained, ReadRequest, ReadWsOpen,
       ReadWsMsg, ReadWsClose, CanRead
  <2>4. ASSUME NEW r \in Requests, HandleRequest(r) PROVE FALSE
    BY <2>1, <2>4 DEF HandleRequest, ProxyAnswers, SendResponse
  <2>5. ASSUME NEW s \in Sessions, HandleWsOpen(s) PROVE FALSE
    BY <2>1, <2>5 DEF HandleWsOpen, Goto, DialSucceeds, DialFails, SendNack, SendAck, Register,
       ReadLocalFrame, SendWsMsg, ReadLocalClose, SendWsClose, ReadLocalError, RemoveSession,
       JoinLocalWriter
  <2>6. ASSUME NEW s \in Sessions, LocalWriteTask(s) \/ App(s)
        PROVE  UNCHANGED <<connVars, txVars, request, session>>
    BY <2>6 DEF LocalWriteTask, ReceiveMsg, SkipUndecodable, ReceiveClose, Receive, WriteLocal,
       WriteLocalFails, WriteLocalClose, LocalWriterEnds, App, AppLeaves, AppVanishes
  <2>7. CASE LinkFallsSilent \/ LinkCloses
    BY <2>1, <2>7 DEF LinkFallsSilent, LinkCloses
  <2>8. CASE UNCHANGED vars BY <2>1, <2>8 DEF vars
  <2> QED BY <2>1, <2>2, <2>3, <2>4, <2>5, <2>6, <2>7, <2>8 DEF Next
<1>3. CASE ~WriterEnds /\ writer # "done"
  <2>1. writer' = writer \/ writer' \in {"send", "recv", "failed"}
    BY <1>3 DEF vars, Next, Writer, WriterReceives, WriterSends, WriterFails,
       Reader, ReadHeartbeat, SendHeartbeatAck, ReadPing, SendPong, PongFails,
       Push, ReadClose, ReadEnd, ReadError, ReadTimeout, Drained, ReadRequest, ReadWsOpen,
       ReadWsMsg, ReadWsClose, HandleRequest, ProxyAnswers, SendResponse,
       HandleWsOpen, Goto, DialSucceeds, DialFails, SendNack, SendAck, Register,
       ReadLocalFrame, SendWsMsg, ReadLocalClose, SendWsClose, ReadLocalError, RemoveSession,
       JoinLocalWriter, LocalWriteTask, ReceiveMsg, SkipUndecodable, ReceiveClose, Receive,
       WriteLocal, WriteLocalFails, WriteLocalClose, LocalWriterEnds,
       App, AppLeaves, AppVanishes, LinkFallsSilent, LinkCloses
  <2> QED BY <1>3, <2>1
<1> QED BY <1>1, <1>2, <1>3

\* The writer task stops by itself only after the last sender is dropped, with
\* the channel drained, for any number of tasks (tunnel.rs:244-250).
THEOREM WriterStopsLastCorrect == Spec => []WriterStopsLast
<1>1. Init => WriterStopsLast BY DEF Init, WriterStopsLast
<1>2. TypeOK /\ WriterStopsLast /\ [Next]_vars => WriterStopsLast' BY WriterLastStep
<1> QED BY <1>1, <1>2, TypeCorrect, PTL DEF Spec

-----------------------------------------------------------------------------
(* Answers *)

\* What an append does to a sequence, index by index.
LEMMA AppendEffect ==
  ASSUME NEW S, NEW q \in Seq(S), NEW e \in S, NEW p, p = Append(q, e)
  PROVE  /\ Len(q) \in Nat /\ Len(p) = Len(q) + 1
         /\ p[Len(q) + 1] = e
         /\ \A i \in 1..Len(q) : p[i] = q[i]
OBVIOUS

\* What a send does to the log.
LEMMA SendEffect ==
  ASSUME TypeOK, NEW m \in Message, Send(m)
  PROVE  /\ Len(log) \in Nat
         /\ WriterGone => log' = log
         /\ ~WriterGone => /\ Len(log') = Len(log) + 1
                           /\ log'[Len(log) + 1] = m
                           /\ \A i \in 1..Len(log) : log'[i] = log[i]
<1>1. log \in Seq(Message) BY DEF TypeOK
<1>2. WriterGone => log' = log BY DEF Send
<1>3. ~WriterGone => log' = Append(log, m) BY DEF Send
<1> QED BY <1>1, <1>2, <1>3, AppendEffect

\* AnsweredOnce is not inductive: a request that is not answered yet must have
\* no response in the log either.
AnsweredInv ==
  /\ AnsweredOnce
  /\ \A r \in Requests : request[r] # "done" => \A i \in 1..Len(log) : log[i] # Response(r)

\* A step that sends no message and completes no request.
LEMMA AnsweredFrame ==
  ASSUME TypeOK, AnsweredInv, log' = log, WriterGone => WriterGone',
         \A r \in Requests : (request'[r] = "done") <=> (request[r] = "done")
  PROVE  AnsweredInv'
BY DEF AnsweredInv, AnsweredOnce

\* A step that sends something other than a response.
LEMMA AnsweredOther ==
  ASSUME TypeOK, AnsweredInv, NEW m \in Message, m.type # "response", Send(m),
         request' = request, writer' = writer
  PROVE  AnsweredInv'
<1>1. CASE WriterGone BY <1>1, SendEffect, AnsweredFrame DEF WriterGone
<1>2. CASE ~WriterGone
  <2>1. /\ Len(log) \in Nat /\ Len(log') = Len(log) + 1 /\ log'[Len(log) + 1] = m
        /\ \A i \in 1..Len(log) : log'[i] = log[i]
    BY <1>2, SendEffect
  <2>2. \A r \in Requests : m # Response(r) BY DEF Response
  <2>3. \A i, j \in 1..Len(log') :
          log'[i] = log'[j] /\ log'[i].type = "response" => i = j
    BY <2>1 DEF AnsweredInv, AnsweredOnce
  <2>4. \A r \in Requests : request[r] # "done" =>
          \A i \in 1..Len(log') : log'[i] # Response(r)
    BY <2>1, <2>2 DEF AnsweredInv
  <2>5. \A r \in Requests : request[r] = "done" =>
          \E i \in 1..Len(log') : log'[i] = Response(r)
    BY <1>2, <2>1 DEF AnsweredInv, AnsweredOnce
  <2> QED BY <2>3, <2>4, <2>5 DEF AnsweredInv, AnsweredOnce
<1> QED BY <1>1, <1>2

LEMMA AnsweredResponse ==
  ASSUME TypeOK, AnsweredInv, NEW r \in Requests, SendResponse(r)
  PROVE  AnsweredInv'
<1>1. /\ request[r] = "reply" /\ writer' = writer /\ Send(Response(r))
      /\ request' = [request EXCEPT ![r] = "done"]
  BY DEF SendResponse
<1>2. CASE WriterGone
  BY <1>1, <1>2, SendEffect, MessageMembers
  DEF WriterGone, AnsweredInv, AnsweredOnce, TypeOK
<1>3. CASE ~WriterGone
  <2>1. /\ Len(log) \in Nat /\ Len(log') = Len(log) + 1 /\ log'[Len(log) + 1] = Response(r)
        /\ \A i \in 1..Len(log) : log'[i] = log[i]
    BY <1>1, <1>3, SendEffect, MessageMembers
  <2>2. \A i \in 1..Len(log) : log[i] # Response(r) BY <1>1 DEF AnsweredInv
  <2>3. \A i, j \in 1..Len(log') :
          log'[i] = log'[j] /\ log'[i].type = "response" => i = j
    BY <2>1, <2>2 DEF AnsweredInv, AnsweredOnce
  <2>4. \A q \in Requests : request'[q] # "done" =>
          \A i \in 1..Len(log') : log'[i] # Response(q)
    <3> SUFFICES ASSUME NEW q \in Requests, request'[q] # "done", NEW i \in 1..Len(log')
                 PROVE  log'[i] # Response(q)
      OBVIOUS
    <3>1. q # r /\ request[q] # "done" BY <1>1 DEF TypeOK
    <3>2. CASE i \in 1..Len(log) BY <2>1, <3>1, <3>2 DEF AnsweredInv
    <3>3. CASE i = Len(log) + 1 BY <2>1, <3>1, <3>3 DEF Response
    <3> QED BY <2>1, <3>2, <3>3
  <2>5. \A q \in Requests : request'[q] = "done" =>
          \E i \in 1..Len(log') : log'[i] = Response(q)
    <3> SUFFICES ASSUME NEW q \in Requests, request'[q] = "done"
                 PROVE  \E i \in 1..Len(log') : log'[i] = Response(q)
      OBVIOUS
    <3>1. CASE q = r
      <4>1. Len(log) + 1 \in 1..Len(log') BY <2>1
      <4> QED BY <2>1, <3>1, <4>1
    <3>2. CASE q # r
      <4>1. PICK i \in 1..Len(log) : log[i] = Response(q)
        BY <1>1, <1>3, <3>2 DEF AnsweredInv, AnsweredOnce, TypeOK
      <4>2. i \in 1..Len(log') BY <2>1, <4>1
      <4> QED BY <2>1, <4>1, <4>2
    <3> QED BY <3>1, <3>2
  <2> QED BY <2>3, <2>4, <2>5 DEF AnsweredInv, AnsweredOnce
<1> QED BY <1>2, <1>3

LEMMA AnsweredStep == TypeOK /\ AnsweredInv /\ [Next]_vars => AnsweredInv'
<1> SUFFICES ASSUME TypeOK, AnsweredInv, [Next]_vars PROVE AnsweredInv' OBVIOUS
<1>m. /\ HeartbeatAck.type # "response" /\ Pong.type # "response"
      /\ \A s \in Sessions : \A m \in {OpenOk(s), OpenFailed(s), WsMsg(s), WsClose(s)} :
           m.type # "response"
  BY DEF HeartbeatAck, Pong, OpenOk, OpenFailed, WsMsg, WsClose
<1>1. CASE Writer
  BY <1>1, AnsweredFrame
  DEF Writer, WriterReceives, WriterSends, WriterFails, WriterEnds, WriterGone
<1>2. CASE Reader
  <2>1. CASE SendHeartbeatAck
    BY <1>m, <2>1, AnsweredOther, MessageMembers DEF SendHeartbeatAck
  <2>2. CASE SendPong BY <1>m, <2>2, AnsweredOther, MessageMembers DEF SendPong
  <2>3. ASSUME NEW r \in Requests, ReadRequest(r) PROVE AnsweredInv'
    <3>1. \A q \in Requests : (request'[q] = "done") <=> (request[q] = "done")
      BY <2>3 DEF ReadRequest, TypeOK
    <3> QED BY <2>3, <3>1, AnsweredFrame DEF ReadRequest, WriterGone
  <2>4. CASE UNCHANGED <<log, writer, request>> BY <2>4, AnsweredFrame DEF WriterGone
  <2> QED
    BY <1>2, <2>1, <2>2, <2>3, <2>4 DEF Reader, ReadHeartbeat, ReadPing, PongFails, Push,
       ReadClose, ReadEnd, ReadError, ReadTimeout, Drained, ReadWsOpen, ReadWsMsg, ReadWsClose
<1>3. ASSUME NEW r \in Requests, HandleRequest(r) PROVE AnsweredInv'
  <2>1. CASE ProxyAnswers(r)
    <3>1. \A q \in Requests : (request'[q] = "done") <=> (request[q] = "done")
      BY <2>1 DEF ProxyAnswers, TypeOK
    <3> QED BY <2>1, <3>1, AnsweredFrame DEF ProxyAnswers, WriterGone
  <2>2. CASE SendResponse(r) BY <2>2, AnsweredResponse
  <2> QED BY <1>3, <2>1, <2>2 DEF HandleRequest
<1>4. ASSUME NEW s \in Sessions, HandleWsOpen(s) PROVE AnsweredInv'
  <2>1. CASE UNCHANGED <<log, writer, request>> BY <2>1, AnsweredFrame DEF WriterGone
  <2>2. CASE SendNack(s) BY <1>m, <2>2, AnsweredOther, MessageMembers DEF SendNack
  <2>3. CASE SendAck(s) BY <1>m, <2>3, AnsweredOther, MessageMembers DEF SendAck
  <2>4. CASE SendWsMsg(s) BY <1>m, <2>4, AnsweredOther, MessageMembers DEF SendWsMsg
  <2>5. CASE SendWsClose(s) BY <1>m, <2>5, AnsweredOther, MessageMembers DEF SendWsClose
  <2> QED
    BY <1>4, <2>1, <2>2, <2>3, <2>4, <2>5 DEF HandleWsOpen, DialSucceeds, DialFails, Register,
       ReadLocalFrame, ReadLocalClose, ReadLocalError, RemoveSession, JoinLocalWriter
<1>5. ASSUME NEW s \in Sessions, LocalWriteTask(s) \/ App(s)
      PROVE  UNCHANGED <<log, writer, request>>
  BY <1>5 DEF LocalWriteTask, ReceiveMsg, SkipUndecodable, ReceiveClose, Receive, WriteLocal,
     WriteLocalFails, WriteLocalClose, LocalWriterEnds, App, AppLeaves, AppVanishes
<1>6. CASE UNCHANGED <<log, writer, request>> BY <1>6, AnsweredFrame DEF WriterGone
<1> QED
  BY <1>1, <1>2, <1>3, <1>4, <1>5, <1>6 DEF Next, vars, LinkFallsSilent, LinkCloses

\* For any number of requests and sessions, a request is answered at most once,
\* and is over only when it was answered or the writer died (tunnel.rs:394-419).
THEOREM AnsweredOnceCorrect == Spec => []AnsweredOnce
<1>1. Init => AnsweredInv BY DEF Init, AnsweredInv, AnsweredOnce
<1>2. TypeOK /\ AnsweredInv /\ [Next]_vars => AnsweredInv' BY AnsweredStep
<1>3. AnsweredInv => AnsweredOnce BY DEF AnsweredInv
<1> QED BY <1>1, <1>2, <1>3, TypeCorrect, PTL DEF Spec
=============================================================================
