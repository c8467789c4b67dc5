------------------------ MODULE TunnelSessionProofs ------------------------
(***************************************************************************)
(* Proofs about the WebSocket sessions of TunnelConn, for every set of     *)
(* requests and sessions and every capacity of the channels.               *)
(***************************************************************************)
EXTENDS TunnelConnProofs

USE DEF connVars, txVars, wsVars

-----------------------------------------------------------------------------
(* The table of sessions and their channels *)

Early == {"idle", "dial", "nack", "ack", "register"}

\* NoTaskLeftBehind, TableMatchesSessions and CloseIsLastEvent hold together:
\* a session that is not registered yet has left no trace, and the entry is
\* gone when a Close event is on its way.
TableInv ==
  /\ NoTaskLeftBehind /\ TableMatchesSessions /\ CloseIsLastEvent
  /\ \A s \in Sessions :
       /\ session[s] \in Early =>
            local[s] = "none" /\ s \notin table /\ fed[s] = <<>> /\ push.id # s
       /\ push.id = s /\ push.event = "close" => s \notin table

LEMMA TableFrame ==
  ASSUME TableInv, UNCHANGED <<session, local, table, fed, push>>
  PROVE  TableInv'
BY DEF TableInv, NoTaskLeftBehind, TableMatchesSessions, CloseIsLastEvent, Live

\* Where the steps of a session that leave its channel alone may lead.
LEMMA TableMove ==
  ASSUME TypeOK, TableInv, NEW s \in Sessions, NEW to,
         session' = [session EXCEPT ![s] = to],
         UNCHANGED <<local, table, fed, push>>,
         \/ session[s] \in Early /\ to \in Early \cup {"ended"}
         \/ Live(s) /\ to \in {"read", "msg", "close", "remove"}
         \/ session[s] = "join" /\ to = "ended" /\ local[s] = "ended"
  PROVE  TableInv'
<1> SUFFICES ASSUME NEW t \in Sessions, t = s
             PROVE  /\ session'[t] = "ended" => local[t] \in {"none", "ended"} /\ t \notin table
                    /\ t \in table => Live(t)'
                    /\ Live(t)' => Live(t)
                    /\ session'[t] \in Early => session[t] \in Early
  BY DEF TableInv, NoTaskLeftBehind, TableMatchesSessions, CloseIsLastEvent, Live, TypeOK
<1> QED BY DEF TableInv, NoTaskLeftBehind, TableMatchesSessions, CloseIsLastEvent, Live, TypeOK,
             Early

LEMMA TablePush == ASSUME TypeOK, TableInv, Push PROVE TableInv'
<1>1. push.id \in Sessions /\ push.event \in Event /\ push' = NoPush
  BY DEF Push, TypeOK
<1>2. \A t \in Sessions : push'.id # t BY <1>1, NoneAssumption DEF NoPush
<1>3. UNCHANGED <<session, local, table>> BY DEF Push
<1>4. CASE local[push.id] = "ended" /\ fed' = fed
  BY <1>1, <1>2, <1>3, <1>4
  DEF TableInv, NoTaskLeftBehind, TableMatchesSessions, CloseIsLastEvent, Live
<1>5. CASE fed' = [fed EXCEPT ![push.id] = Append(@, push.event)]
  <2>1. \A t \in Sessions : t # push.id => fed'[t] = fed[t] BY <1>1, <1>5 DEF TypeOK
  <2> DEFINE p == push.id
  <2>2. /\ Len(fed[p]) \in Nat /\ Len(fed'[p]) = Len(fed[p]) + 1
        /\ fed'[p][Len(fed[p]) + 1] = push.event
        /\ \A i \in 1..Len(fed[p]) : fed'[p][i] = fed[p][i]
    <3>1. fed[p] \in Seq(Event) /\ fed'[p] = Append(fed[p], push.event)
      BY <1>1, <1>5 DEF TypeOK
    <3> QED BY <1>1, <3>1, AppendEffect
  <2>3. \A i \in 1..Len(fed[p]) : fed[p][i] # "close"
    BY <1>1 DEF TableInv, CloseIsLastEvent
  <2>4. session[p] \notin Early BY <1>1 DEF TableInv
  <2>5. NoTaskLeftBehind' BY <1>3 DEF TableInv, NoTaskLeftBehind
  <2>6. CloseIsLastEvent'
    <3> SUFFICES ASSUME NEW t \in Sessions, NEW i \in 1..Len(fed'[t]), fed'[t][i] = "close"
                 PROVE  i = Len(fed'[t]) /\ t \notin table
      BY <1>2, <1>3 DEF CloseIsLastEvent
    <3>1. CASE t # p BY <2>1, <3>1 DEF TableInv, CloseIsLastEvent
    <3>2. CASE t = p BY <2>2, <2>3, <3>2 DEF TableInv
    <3> QED BY <3>1, <3>2
  <2>7. TableMatchesSessions'
    <3> SUFFICES ASSUME NEW t \in Sessions
                 PROVE  /\ t \in table => Live(t)
                        /\ Live(t) /\ t \notin table =>
                             \/ \E i \in 1..Len(fed'[t]) : fed'[t][i] = "close"
                             \/ local[t] = "ended"
      BY <1>3 DEF TableMatchesSessions, Live
    <3>1. CASE t # p
      BY <2>1, <3>1 DEF TableInv, TableMatchesSessions
    <3>2. CASE t = p
      <4>1. Len(fed[p]) + 1 \in 1..Len(fed'[p]) BY <2>2
      <4>2. \A i \in 1..Len(fed[p]) : i \in 1..Len(fed'[p]) BY <2>2
      <4>3. push.event = "close" => \E i \in 1..Len(fed'[p]) : fed'[p][i] = "close"
        BY <2>2, <4>1
      <4> QED BY <2>2, <2>3, <3>2, <4>3 DEF TableInv, TableMatchesSessions
    <3> QED BY <3>1, <3>2
  <2>8. \A t \in Sessions : session'[t] \in Early =>
          local'[t] = "none" /\ t \notin table' /\ fed'[t] = <<>> /\ push'.id # t
    BY <1>2, <1>3, <2>1, <2>4 DEF TableInv
  <2> QED BY <1>2, <2>5, <2>6, <2>7, <2>8 DEF TableInv
<1> QED BY <1>1, <1>4, <1>5 DEF Push

LEMMA TableReader == ASSUME TypeOK, TableInv, Reader PROVE TableInv'
<1>1. CASE Push BY <1>1, TablePush
<1>2. ASSUME NEW s \in Sessions, ReadWsOpen(s) PROVE TableInv'
  BY <1>2, TableMove DEF ReadWsOpen, Early
<1>3. ASSUME NEW s \in Sessions, ReadWsMsg(s) PROVE TableInv'
  <2>1. CASE s \notin table BY <1>3, <2>1, TableFrame DEF ReadWsMsg
  <2>2. CASE s \in table
    <3>1. push' = [id |-> s, event |-> "msg"] /\ UNCHANGED <<session, local, table, fed>>
      BY <1>3, <2>2 DEF ReadWsMsg
    <3>2. push = NoPush BY <1>3 DEF ReadWsMsg, CanRead, TypeOK
    <3> QED
      BY <2>2, <3>1, <3>2
      DEF TableInv, NoTaskLeftBehind, TableMatchesSessions, CloseIsLastEvent, Live, Early, NoPush
  <2> QED BY <2>1, <2>2
<1>4. ASSUME NEW s \in Sessions, ReadWsClose(s) PROVE TableInv'
  <2>1. CASE s \notin table
    <3>1. table' = table BY <1>4, <2>1 DEF ReadWsClose
    <3> QED BY <1>4, <2>1, <3>1, TableFrame DEF ReadWsClose
  <2>2. CASE s \in table
    <3>1. /\ push' = [id |-> s, event |-> "close"] /\ table' = table \ {s}
          /\ UNCHANGED <<session, local, fed>>
      BY <1>4, <2>2 DEF ReadWsClose
    <3>2. push = NoPush BY <1>4 DEF ReadWsClose, CanRead, TypeOK
    <3> QED
      BY <2>2, <3>1, <3>2
      DEF TableInv, NoTaskLeftBehind, TableMatchesSessions, CloseIsLastEvent, Live, Early, NoPush
  <2> QED BY <2>1, <2>2
<1>5. CASE UNCHANGED <<session, local, table, fed, push>> BY <1>5, TableFrame
<1> QED
  BY <1>1, <1>2, <1>3, <1>4, <1>5 DEF Reader, ReadHeartbeat, SendHeartbeatAck, ReadPing,
     SendPong, PongFails, ReadClose, ReadEnd, ReadError, ReadTimeout, Drained, ReadRequest

LEMMA TableSession ==
  ASSUME TypeOK, TableInv, NEW s \in Sessions, HandleWsOpen(s)
  PROVE  TableInv'
<1>1. CASE Register(s)
  <2>1. /\ session[s] = "register" /\ session' = [session EXCEPT ![s] = "read"]
        /\ table' = table \cup {s} /\ local' = [local EXCEPT ![s] = "recv"]
        /\ UNCHANGED <<fed, push>>
    BY <1>1 DEF Register, Goto
  <2>2. fed[s] = <<>> /\ push.id # s BY <2>1 DEF TableInv, Early
  <2> QED
    BY <2>1, <2>2
    DEF TableInv, NoTaskLeftBehind, TableMatchesSessions, CloseIsLastEvent, Live, Early, TypeOK
<1>2. CASE RemoveSession(s)
  <2>1. /\ session[s] = "remove" /\ session' = [session EXCEPT ![s] = "join"]
        /\ table' = table \ {s} /\ UNCHANGED <<local, fed, push>>
    BY <1>2 DEF RemoveSession, Goto
  <2> QED
    BY <2>1
    DEF TableInv, NoTaskLeftBehind, TableMatchesSessions, CloseIsLastEvent, Live, Early, TypeOK
<1>3. CASE ~Register(s) /\ ~RemoveSession(s)
  BY <1>3, TableMove
  DEF HandleWsOpen, Goto, DialSucceeds, DialFails, SendNack, SendAck, ReadLocalFrame, SendWsMsg,
      ReadLocalClose, SendWsClose, ReadLocalError, JoinLocalWriter, Early, Live
<1> QED BY <1>1, <1>2, <1>3

LEMMA TableLocal ==
  ASSUME TypeOK, TableInv, NEW s \in Sessions, LocalWriteTask(s)
  PROVE  TableInv'
<1>1. \E to \in {"recv", "write", "close", "ended"} :
        /\ local[s] \notin {"none", "ended"} /\ local' = [local EXCEPT ![s] = to]
        /\ UNCHANGED <<session, table, fed, push>>
  BY DEF LocalWriteTask, ReceiveMsg, SkipUndecodable, ReceiveClose, Receive, WriteLocal,
     WriteLocalFails, WriteLocalClose, LocalWriterEnds
<1> QED
  BY <1>1
  DEF TableInv, NoTaskLeftBehind, TableMatchesSessions, CloseIsLastEvent, Live, Early, TypeOK

LEMMA TableStep == TypeOK /\ TableInv /\ [Next]_vars => TableInv'
<1> SUFFICES ASSUME TypeOK, TableInv, [Next]_vars PROVE TableInv' OBVIOUS
<1>1. CASE Reader BY <1>1, TableReader
<1>2. ASSUME NEW s \in Sessions, HandleWsOpen(s) PROVE TableInv' BY <1>2, TableSession
<1>3. ASSUME NEW s \in Sessions, LocalWriteTask(s) PROVE TableInv' BY <1>3, TableLocal
<1>4. CASE UNCHANGED <<session, local, table, fed, push>> BY <1>4, TableFrame
<1> QED
  BY <1>1, <1>2, <1>3, <1>4 DEF Next, vars, Writer, WriterReceives, WriterSends, WriterFails,
     WriterEnds, HandleRequest, ProxyAnswers, SendResponse, LinkFallsSilent, LinkCloses,
     App, AppLeaves, AppVanishes

LEMMA TableInvariant == Spec => []TableInv
<1>1. Init => TableInv
  BY NoneAssumption
  DEF Init, TableInv, NoTaskLeftBehind, TableMatchesSessions, CloseIsLastEvent, Live, NoPush
<1>2. TypeOK /\ TableInv /\ [Next]_vars => TableInv' BY TableStep
<1> QED BY <1>1, <1>2, TypeCorrect, PTL DEF Spec

\* For any number of sessions: the table lists running sessions, and misses one
\* only while its Close event is on its way (tunnel.rs:341-349, 514, 608).
THEOREM SessionTableCorrect == Spec => []TableMatchesSessions
<1>1. TableInv => TableMatchesSessions BY DEF TableInv
<1> QED BY <1>1, TableInvariant, PTL

\* For any number of sessions and any capacity of their channels: no frame
\* follows a Close event into a channel, nor a second Close (tunnel.rs:341-349).
THEOREM CloseLastCorrect == Spec => []CloseIsLastEvent
<1>1. TableInv => CloseIsLastEvent BY DEF TableInv
<1> QED BY <1>1, TableInvariant, PTL

\* For any number of sessions: however one ends, its writing half ends first
\* (tunnel.rs:608-609).
THEOREM NoTaskLeftCorrect == Spec => []NoTaskLeftBehind
<1>1. TableInv => NoTaskLeftBehind BY DEF TableInv
<1> QED BY <1>1, TableInvariant, PTL

-----------------------------------------------------------------------------
(* The envelopes of a session *)

MessagesOf(s) == {OpenOk(s), OpenFailed(s), WsMsg(s), WsClose(s)}

\* Messages of different sessions, or of different kinds, are different.
LEMMA MessagesDiffer ==
  /\ \A s, t \in Sessions : s # t => MessagesOf(s) \cap MessagesOf(t) = {}
  /\ \A s \in Sessions :
       /\ WsMsg(s) \notin Acks(s) /\ WsClose(s) \notin Acks(s)
       /\ OpenOk(s) # OpenFailed(s) /\ WsMsg(s) # WsClose(s)
       /\ \A r \in Requests : Response(r) \notin MessagesOf(s)
       /\ HeartbeatAck \notin MessagesOf(s) /\ Pong \notin MessagesOf(s)
<1>1. \A s \in Sessions : \A m \in MessagesOf(s) :
        m.id = s /\ m.type \in {"ws-open-ack", "ws-msg", "ws-close"}
  BY DEF MessagesOf, OpenOk, OpenFailed, WsMsg, WsClose
<1>2. \A s \in Sessions : OpenOk(s).ok /\ ~OpenFailed(s).ok BY DEF OpenOk, OpenFailed
<1>3. \A s \in Sessions : \A m \in Acks(s) : m.type = "ws-open-ack"
  BY DEF Acks, OpenOk, OpenFailed
<1>4. \A s \in Sessions : WsMsg(s).type = "ws-msg" /\ WsClose(s).type = "ws-close"
  BY DEF WsMsg, WsClose
<1>5. /\ \A r \in Requests : Response(r).type = "response"
      /\ HeartbeatAck.type = "heartbeat-ack" /\ Pong.type = "pong"
  BY DEF Response, HeartbeatAck, Pong
<1>6. \A s \in Sessions : OpenOk(s) # OpenFailed(s)
  BY <1>2
<1> QED BY <1>1, <1>3, <1>4, <1>5, <1>6

\* SessionProtocol and OrderlyEndReported of one session, with what they rest
\* on: before its ack a session has sent nothing, before its ws-close it has
\* sent none, and past its ack the ack is in the log unless the writer died.
ProtocolOf(s) ==
  /\ \A i \in 1..Len(log) : log[i] \in {WsMsg(s), WsClose(s)} =>
       \E j \in 1..(i - 1) : log[j] = OpenOk(s)
  /\ \A i, j \in 1..Len(log) : log[i] \in Acks(s) /\ log[j] \in Acks(s) => i = j
  /\ \A i, j \in 1..Len(log) : log[i] = WsClose(s) /\ log[j] \in {WsMsg(s), WsClose(s)} => j <= i
  /\ \A i \in 1..Len(log) : log[i] = OpenFailed(s) => session[s] = "ended"
  /\ session[s] \in {"idle", "dial", "nack", "ack"} =>
       \A i \in 1..Len(log) : log[i] \notin MessagesOf(s)
  /\ session[s] \in {"register", "read", "msg", "close"} =>
       /\ \A i \in 1..Len(log) : log[i] # WsClose(s)
       /\ ~WriterGone => \E i \in 1..Len(log) : log[i] = OpenOk(s)
  /\ session[s] \in {"idle", "dial", "nack"} => app[s] = "none"
  /\ session[s] = "close" => app[s] = "left"
  /\ session[s] \in {"remove", "join", "ended"} /\ ~WriterGone =>
       \/ app[s] \in {"none", "gone"}
       \/ \E i \in 1..Len(log) : log[i] = WsClose(s)

ProtocolInv == \A s \in Sessions : ProtocolOf(s)

\* A step that changes nothing of this session, and sends at most a message
\* that is not its own.
LEMMA ProtocolFrame ==
  ASSUME TypeOK, NEW s \in Sessions, ProtocolOf(s),
         session'[s] = session[s], app'[s] = app[s], WriterGone => WriterGone',
         \/ log' = log
         \/ \E m \in Message \ MessagesOf(s) : Send(m) /\ writer' = writer
  PROVE  ProtocolOf(s)'
<1>1. CASE log' = log BY <1>1 DEF ProtocolOf
<1>2. ASSUME NEW m \in Message \ MessagesOf(s), Send(m), ~WriterGone PROVE ProtocolOf(s)'
  <2>1. /\ Len(log) \in Nat /\ Len(log') = Len(log) + 1 /\ log'[Len(log) + 1] = m
        /\ \A i \in 1..Len(log) : log'[i] = log[i]
    BY <1>2, SendEffect
  <2>2. \A i \in 1..Len(log') : log'[i] \in MessagesOf(s) => i \in 1..Len(log)
    BY <2>1
  <2>3. Acks(s) \subseteq MessagesOf(s) /\ WsMsg(s) \in MessagesOf(s)
        /\ WsClose(s) \in MessagesOf(s) /\ OpenFailed(s) \in MessagesOf(s)
    BY DEF Acks, MessagesOf
  <2> QED BY <1>2, <2>1, <2>2, <2>3 DEF ProtocolOf
<1> QED BY <1>1, <1>2, SendEffect

\* A step of the session, or of its application, that sends nothing.
LEMMA ProtocolMove ==
  ASSUME TypeOK, NEW s \in Sessions, ProtocolOf(s), log' = log, writer' = writer,
         \/ /\ session[s] \in {"idle", "dial"} /\ session'[s] \in {"dial", "nack"}
            /\ app'[s] = app[s]
         \/ session[s] = "dial" /\ session'[s] = "ack"
         \/ /\ session[s] \in {"register", "read"} /\ session'[s] \in {"read", "msg"}
            /\ app'[s] = app[s]
         \/ session[s] = "read" /\ session'[s] = "close" /\ app[s] = "left" /\ app'[s] = app[s]
         \/ session[s] = "read" /\ session'[s] = "remove" /\ app[s] = "gone" /\ app'[s] = app[s]
         \/ /\ session[s] \in {"remove", "join"} /\ session'[s] \in {"join", "ended"}
            /\ app'[s] = app[s]
         \/ session'[s] = session[s] /\ app[s] \in {"open", "told"} /\ app'[s] # "none"
         \/ /\ session'[s] = session[s] /\ session[s] \notin {"close", "remove", "join", "ended"}
            /\ app[s] = "left" /\ app'[s] # "none"
  PROVE  ProtocolOf(s)'
BY DEF ProtocolOf, WriterGone

\* The sends of a session.
LEMMA ProtocolSend ==
  ASSUME TypeOK, NEW s \in Sessions, ProtocolOf(s), NEW m \in MessagesOf(s), Send(m),
         writer' = writer, app'[s] = app[s],
         \/ session[s] = "nack" /\ m = OpenFailed(s) /\ session'[s] = "ended"
         \/ session[s] = "ack" /\ m = OpenOk(s) /\ session'[s] = "register"
         \/ session[s] = "msg" /\ m = WsMsg(s) /\ session'[s] = "read"
         \/ session[s] = "close" /\ m = WsClose(s) /\ session'[s] = "remove"
  PROVE  ProtocolOf(s)'
<1>1. m \in Message BY MessageMembers DEF MessagesOf
<1>2. CASE WriterGone
  <2>1. log' = log /\ WriterGone' BY <1>1, <1>2, SendEffect DEF WriterGone
  <2> QED BY <1>2, <2>1 DEF ProtocolOf, MessagesOf
<1>3. CASE ~WriterGone
  <2> DEFINE n == Len(log) + 1
  <2>1. /\ Len(log) \in Nat /\ Len(log') = n /\ log'[n] = m
        /\ \A i \in 1..Len(log) : log'[i] = log[i]
    BY <1>1, <1>3, SendEffect
  <2>2. \A i \in 1..Len(log') : i \in 1..Len(log) \/ i = n BY <2>1
  <2>3. n \in 1..Len(log') /\ ~WriterGone' BY <1>3, <2>1 DEF WriterGone
  <2>4. /\ WsMsg(s) \notin Acks(s) /\ WsClose(s) \notin Acks(s) /\ WsMsg(s) # WsClose(s)
        /\ OpenOk(s) # OpenFailed(s) /\ Acks(s) = {OpenOk(s), OpenFailed(s)}
    BY MessagesDiffer DEF Acks
  <2>5. CASE session[s] = "nack" /\ m = OpenFailed(s) /\ session'[s] = "ended"
    BY <1>3, <2>1, <2>2, <2>3, <2>4, <2>5 DEF ProtocolOf, MessagesOf
  <2>6. CASE session[s] = "ack" /\ m = OpenOk(s) /\ session'[s] = "register"
    BY <1>3, <2>1, <2>2, <2>3, <2>4, <2>6 DEF ProtocolOf, MessagesOf
  <2>7. CASE \/ session[s] = "msg" /\ m = WsMsg(s) /\ session'[s] = "read"
             \/ session[s] = "close" /\ m = WsClose(s) /\ session'[s] = "remove"
    <3>1. \A i \in 1..Len(log) : log[i] # WsClose(s) BY <2>7 DEF ProtocolOf
    <3>2. PICK k \in 1..Len(log) : log[k] = OpenOk(s) BY <1>3, <2>7 DEF ProtocolOf
    <3>3. k \in 1..(n - 1) /\ k \in 1..Len(log') /\ log'[k] = OpenOk(s) BY <2>1, <3>2
    <3>4. \A i \in 1..Len(log') : log'[i] \in {WsMsg(s), WsClose(s)} =>
            \E j \in 1..(i - 1) : log'[j] = OpenOk(s)
      <4> SUFFICES ASSUME NEW i \in 1..Len(log'), log'[i] \in {WsMsg(s), WsClose(s)}
                   PROVE  \E j \in 1..(i - 1) : log'[j] = OpenOk(s)
        OBVIOUS
      <4>1. CASE i = n BY <3>3, <4>1
      <4>2. CASE i \in 1..Len(log)
        <5>1. log[i] \in {WsMsg(s), WsClose(s)} BY <2>1, <4>2
        <5>2. PICK j \in 1..(i - 1) : log[j] = OpenOk(s) BY <4>2, <5>1 DEF ProtocolOf
        <5>3. j \in 1..Len(log) BY <2>1, <4>2, <5>2
        <5> QED BY <2>1, <5>2, <5>3
      <4> QED BY <2>2, <4>1, <4>2
    <3>5. m \notin Acks(s) /\ m # OpenFailed(s) BY <2>4, <2>7
    <3>6. \A i, j \in 1..Len(log') : log'[i] \in Acks(s) /\ log'[j] \in Acks(s) => i = j
      BY <2>1, <2>2, <3>5 DEF ProtocolOf
    <3>7. \A i \in 1..Len(log') : log'[i] # OpenFailed(s)
      BY <2>1, <2>2, <2>7, <3>5 DEF ProtocolOf
    <3>8. \A i \in 1..Len(log') : log'[i] = WsClose(s) => i = n BY <2>1, <2>2, <3>1
    <3>9. \A i, j \in 1..Len(log') :
            log'[i] = WsClose(s) /\ log'[j] \in {WsMsg(s), WsClose(s)} => j <= i
      BY <2>1, <2>2, <3>8
    <3>10. CASE session[s] = "msg" /\ m = WsMsg(s) /\ session'[s] = "read"
      <4>1. \A i \in 1..Len(log') : log'[i] # WsClose(s) BY <2>1, <2>4, <3>8, <3>10
      <4> QED BY <3>3, <3>4, <3>6, <3>7, <3>9, <3>10, <4>1 DEF ProtocolOf
    <3>11. CASE session[s] = "close" /\ m = WsClose(s) /\ session'[s] = "remove"
      BY <2>1, <2>3, <3>4, <3>6, <3>7, <3>9, <3>11 DEF ProtocolOf
    <3> QED BY <2>7, <3>10, <3>11
  <2> QED BY <2>5, <2>6, <2>7
<1> QED BY <1>2, <1>3

\* A step of one session keeps the protocol of all of them.
LEMMA ProtocolSession ==
  ASSUME TypeOK, ProtocolInv, NEW s \in Sessions, HandleWsOpen(s)
  PROVE  ProtocolInv'
<1>1. \A t \in Sessions : ProtocolOf(t) BY DEF ProtocolInv
<1>2. /\ writer' = writer
      /\ \A t \in Sessions : t # s => session'[t] = session[t] /\ app'[t] = app[t]
      /\ log' = log \/ \E m \in MessagesOf(s) : Send(m)
  BY DEF HandleWsOpen, DialSucceeds, DialFails, SendNack, SendAck, Register, ReadLocalFrame,
     SendWsMsg, ReadLocalClose, SendWsClose, ReadLocalError, RemoveSession, JoinLocalWriter,
     Goto, MessagesOf, TypeOK
<1>3. ASSUME NEW t \in Sessions, t # s PROVE ProtocolOf(t)'
  <2>1. MessagesOf(s) \subseteq Message \ MessagesOf(t)
    BY <1>3, MessageMembers, MessagesDiffer DEF MessagesOf
  <2> QED BY <1>1, <1>2, <1>3, <2>1, ProtocolFrame DEF WriterGone
<1>4. ProtocolOf(s)'
  <2>1. ProtocolOf(s) BY <1>1
  <2>2. CASE SendNack(s) \/ SendAck(s) \/ SendWsMsg(s) \/ SendWsClose(s)
    BY <2>1, <2>2, ProtocolSend
    DEF SendNack, SendAck, SendWsMsg, SendWsClose, Goto, MessagesOf, TypeOK
  <2>3. CASE \/ DialSucceeds(s) \/ DialFails(s) \/ Register(s) \/ ReadLocalFrame(s)
             \/ ReadLocalClose(s) \/ ReadLocalError(s) \/ RemoveSession(s) \/ JoinLocalWriter(s)
    BY <2>1, <2>3, ProtocolMove
    DEF DialSucceeds, DialFails, Register, ReadLocalFrame, ReadLocalClose, ReadLocalError,
        RemoveSession, JoinLocalWriter, Goto, TypeOK
  <2> QED BY <2>2, <2>3 DEF HandleWsOpen
<1> QED BY <1>3, <1>4 DEF ProtocolInv

LEMMA ProtocolStep == TypeOK /\ ProtocolInv /\ [Next]_vars => ProtocolInv'
<1> SUFFICES ASSUME TypeOK, ProtocolInv, [Next]_vars PROVE ProtocolInv' OBVIOUS
<1>0. \A t \in Sessions : ProtocolOf(t) BY DEF ProtocolInv
<1>1. CASE /\ UNCHANGED <<session, app>> /\ (WriterGone => WriterGone')
           /\ \/ log' = log
              \/ /\ writer' = writer
                 /\ \E m \in {Response(r) : r \in Requests} \cup {HeartbeatAck, Pong} : Send(m)
  <2>1. \A t \in Sessions :
          {Response(r) : r \in Requests} \cup {HeartbeatAck, Pong} \subseteq Message \ MessagesOf(t)
    BY MessageMembers, MessagesDiffer
  <2>2. \A t \in Sessions : ProtocolOf(t)' BY <1>0, <1>1, <2>1, ProtocolFrame
  <2> QED BY <2>2 DEF ProtocolInv
<1>2. CASE Writer
  BY <1>1, <1>2
  DEF Writer, WriterReceives, WriterSends, WriterFails, WriterEnds, WriterGone
<1>3. CASE Reader
  <2>1. ASSUME NEW s \in Sessions, ReadWsOpen(s) PROVE ProtocolInv'
    <3>1. ProtocolOf(s)' BY <1>0, <2>1, ProtocolMove DEF ReadWsOpen, TypeOK
    <3>2. ASSUME NEW t \in Sessions, t # s PROVE ProtocolOf(t)'
      BY <1>0, <2>1, <3>2, ProtocolFrame DEF ReadWsOpen, WriterGone, TypeOK
    <3> QED BY <3>1, <3>2 DEF ProtocolInv
  <2> QED
    BY <1>1, <1>3, <2>1 DEF Reader, ReadHeartbeat, SendHeartbeatAck, ReadPing, SendPong,
       PongFails, Push, ReadClose, ReadEnd, ReadError, ReadTimeout, Drained, ReadRequest,
       ReadWsMsg, ReadWsClose, WriterGone
<1>4. ASSUME NEW r \in Requests, HandleRequest(r) PROVE ProtocolInv'
  BY <1>1, <1>4 DEF HandleRequest, ProxyAnswers, SendResponse, WriterGone
<1>5. ASSUME NEW s \in Sessions, HandleWsOpen(s) PROVE ProtocolInv' BY <1>5, ProtocolSession
<1>6. ASSUME NEW s \in Sessions, LocalWriteTask(s) \/ App(s) PROVE ProtocolInv'
  <2>1. /\ UNCHANGED <<log, writer, session>>
        /\ \/ app' = app
           \/ /\ \/ app[s] \in {"open", "told"}
                 \/ app[s] = "left" /\ session[s] \notin {"close", "remove", "join", "ended"}
              /\ \E a \in {"told", "left", "gone"} : app' = [app EXCEPT ![s] = a]
    BY <1>6 DEF LocalWriteTask, ReceiveMsg, SkipUndecodable, ReceiveClose, Receive, WriteLocal,
       WriteLocalFails, WriteLocalClose, LocalWriterEnds, App, AppLeaves, AppVanishes, TypeOK
  <2>2. CASE app' = app BY <1>1, <2>1, <2>2 DEF WriterGone
  <2>3. CASE app' # app
    <3>1. ProtocolOf(s)' BY <1>0, <2>1, <2>3, ProtocolMove DEF TypeOK
    <3>2. ASSUME NEW t \in Sessions, t # s PROVE ProtocolOf(t)'
      BY <1>0, <2>1, <2>3, <3>2, ProtocolFrame DEF WriterGone, TypeOK
    <3> QED BY <3>1, <3>2 DEF ProtocolInv
  <2> QED BY <2>2, <2>3
<1>7. CASE LinkFallsSilent \/ LinkCloses \/ UNCHANGED vars
  BY <1>1, <1>7 DEF LinkFallsSilent, LinkCloses, vars, WriterGone
<1> QED BY <1>2, <1>3, <1>4, <1>5, <1>6, <1>7 DEF Next

LEMMA ProtocolInvariant == Spec => []ProtocolInv
<1>1. Init => ProtocolInv BY DEF Init, ProtocolInv, ProtocolOf
<1>2. TypeOK /\ ProtocolInv /\ [Next]_vars => ProtocolInv' BY ProtocolStep
<1> QED BY <1>1, <1>2, TypeCorrect, PTL DEF Spec

\* For any number of sessions and any capacity: the server sees of a session a
\* refusal alone, or an ok ack, its messages and at most one ws-close
\* (tunnel.rs:493-609).
THEOREM SessionEnvelopesCorrect == Spec => []SessionProtocol
<1>1. ProtocolInv => SessionProtocol BY DEF ProtocolInv, ProtocolOf, SessionProtocol
<1> QED BY <1>1, ProtocolInvariant, PTL

\* An application's orderly end is always reported upstream before its session
\* is over, if there is still a writer to report it to (tunnel.rs:592-603).
THEOREM OrderlyEndCorrect == Spec => []OrderlyEndReported
<1>1. ProtocolInv => OrderlyEndReported BY DEF ProtocolInv, ProtocolOf, OrderlyEndReported
<1> QED BY <1>1, ProtocolInvariant, PTL
=============================================================================
