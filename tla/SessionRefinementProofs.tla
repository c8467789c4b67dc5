---------------------- MODULE SessionRefinementProofs ----------------------
(***************************************************************************)
(* Every step of TunnelConn is, for every session, a step of Session or    *)
(* one it does not see: for any number of requests and sessions, and any   *)
(* capacity of the channels.                                               *)
(***************************************************************************)
EXTENDS SessionRefinement, TunnelSessionProofs, FiniteSetTheorems

USE DEF connVars, txVars, wsVars

-----------------------------------------------------------------------------
(* Counting occurrences *)

LEMMA TimesType ==
  ASSUME NEW S, NEW q \in Seq(S), NEW e
  PROVE  Times(e, q) \in Nat
<1>1. IsFiniteSet(1..Len(q)) BY FS_Interval
<1>2. {i \in 1..Len(q) : q[i] = e} \subseteq 1..Len(q) OBVIOUS
<1>3. IsFiniteSet({i \in 1..Len(q) : q[i] = e}) BY <1>1, <1>2, FS_Subset
<1> QED BY <1>3, FS_CardinalityType DEF Times

LEMMA TimesAppend ==
  ASSUME NEW S, NEW q \in Seq(S), NEW m \in S, NEW e
  PROVE  Times(e, Append(q, m)) = IF m = e THEN Times(e, q) + 1 ELSE Times(e, q)
<1> DEFINE n == Len(q) + 1
           A == {i \in 1..Len(q) : q[i] = e}
           B == {i \in 1..Len(Append(q, m)) : Append(q, m)[i] = e}
<1>1. /\ Len(q) \in Nat /\ Len(Append(q, m)) = n /\ Append(q, m)[n] = m
      /\ \A i \in 1..Len(q) : Append(q, m)[i] = q[i]
  BY AppendEffect
<1>2. 1..n = (1..Len(q)) \cup {n} /\ n \notin 1..Len(q) BY <1>1
<1>3. IsFiniteSet(A)
  <2>1. IsFiniteSet(1..Len(q)) BY FS_Interval
  <2>2. A \subseteq 1..Len(q) OBVIOUS
  <2> QED BY <2>1, <2>2, FS_Subset
<1>4. CASE m = e
  <2>1. B = A \cup {n} BY <1>1, <1>2, <1>4
  <2>2. n \notin A BY <1>2
  <2>3. Cardinality(A \cup {n}) = Cardinality(A) + 1 BY <1>3, <2>2, FS_AddElement
  <2> QED BY <1>4, <2>1, <2>3 DEF Times
<1>5. CASE m # e
  <2>1. B = A BY <1>1, <1>2, <1>5
  <2> QED BY <1>5, <2>1 DEF Times
<1> QED BY <1>4, <1>5

\* What a step does to the log, as a session's two ends see it.
LEMMA LogKept ==
  ASSUME log' = log, NEW e
  PROVE  (Logged(e)' <=> Logged(e)) /\ Times(e, log)' = Times(e, log)
BY DEF Logged, Times

LEMMA LogSends ==
  ASSUME TypeOK, NEW m \in Message, Send(m), ~WriterGone, NEW e
  PROVE  /\ Logged(e)' <=> Logged(e) \/ m = e
         /\ Times(e, log)' = IF m = e THEN Times(e, log) + 1 ELSE Times(e, log)
<1>1. log \in Seq(Message) /\ log' = Append(log, m) BY DEF TypeOK, Send
<1>2. Logged(e)' <=> Logged(e) \/ m = e
  <2>1. /\ Len(log) \in Nat /\ Len(log') = Len(log) + 1 /\ log'[Len(log) + 1] = m
        /\ \A i \in 1..Len(log) : log'[i] = log[i]
    BY SendEffect
  <2>2. 1..Len(log') = (1..Len(log)) \cup {Len(log) + 1} BY <2>1
  <2> QED BY <2>1, <2>2 DEF Logged
<1>3. Times(e, log)' = IF m = e THEN Times(e, log) + 1 ELSE Times(e, log)
  <2>1. Times(e, Append(log, m)) = IF m = e THEN Times(e, log) + 1 ELSE Times(e, log)
    BY <1>1, TimesAppend
  <2>2. Times(e, log)' = Times(e, log') BY DEF Times
  <2> QED BY <1>1, <2>1, <2>2
<1> QED BY <1>2, <1>3

-----------------------------------------------------------------------------
(* What the mapping rests on *)

\* Every frame read from the application is in the log, but for the one in hand;
\* a session that is ending has seen its application go; a frame in the read
\* loop's hand is one the server was allowed to send, and outlives the entry only
\* because the application is gone.
RelayOf(s) ==
  /\ ~WriterGone => up[s] = Times(WsMsg(s), log) + (IF session[s] = "msg" THEN 1 ELSE 0)
  /\ session[s] \in {"remove", "join"} => app[s] \in {"left", "gone"}
  /\ session[s] = "ended" => app[s] \in {"none", "left", "gone"}
  /\ push.id = s \/ s \in table => local[s] # "none"
  /\ Pushing(s) => Logged(OpenOk(s))
  /\ Pushing(s) /\ s \notin table => app[s] \in {"left", "gone"}
  /\ local[s] = "close" => s \notin table /\ push.id # s

RelayInv == \A s \in Sessions : RelayOf(s)

\* A step that leaves the session, its application and the read loop's hand alone.
LEMMA RelayFrame ==
  ASSUME TypeOK, NEW s \in Sessions, RelayOf(s), WriterGone => WriterGone',
         \/ log' = log
         \/ \E m \in Message \ {WsMsg(s)} : Send(m) /\ writer' = writer,
         session'[s] = session[s], app'[s] = app[s], up'[s] = up[s], push' = push,
         (s \in table') <=> (s \in table),
         \/ local'[s] = local[s]
         \/ /\ local[s] # "none" /\ local'[s] # "none"
            /\ local'[s] = "close" => s \notin table /\ push.id # s
  PROVE  RelayOf(s)'
<1>1. ~WriterGone' => Times(WsMsg(s), log)' = Times(WsMsg(s), log)
  BY LogKept, LogSends
<1>2. Logged(OpenOk(s)) => Logged(OpenOk(s))'
  <2>1. CASE log' = log BY <2>1, LogKept
  <2>2. CASE log' # log
    <3>1. PICK m \in Message : Send(m) BY <2>2
    <3>2. ~WriterGone BY <2>2, <3>1 DEF Send
    <3> QED BY <3>1, <3>2, LogSends
  <2> QED BY <2>1, <2>2
<1> QED BY <1>1, <1>2 DEF RelayOf, Pushing

LEMMA RelayWriter == ASSUME TypeOK, RelayInv, Writer PROVE RelayInv'
<1> SUFFICES ASSUME NEW s \in Sessions PROVE RelayOf(s)' BY DEF RelayInv
<1>1. RelayOf(s) BY DEF RelayInv
<1>2. /\ log' = log /\ (WriterGone => WriterGone')
      /\ UNCHANGED <<session, app, up, push, table, local>>
  BY DEF Writer, WriterReceives, WriterSends, WriterFails, WriterEnds, WriterGone
<1>3. /\ session'[s] = session[s] /\ app'[s] = app[s] /\ up'[s] = up[s] /\ push' = push
      /\ (s \in table') <=> (s \in table)
      /\ local'[s] = local[s]
  BY <1>2
<1> QED BY <1>1, <1>2, <1>3, RelayFrame

LEMMA RelayRequest ==
  ASSUME TypeOK, RelayInv, NEW r \in Requests, HandleRequest(r) PROVE RelayInv'
<1> SUFFICES ASSUME NEW s \in Sessions PROVE RelayOf(s)' BY DEF RelayInv
<1>1. RelayOf(s) BY DEF RelayInv
<1>2. UNCHANGED <<writer, session, app, up, push, table, local>>
  BY DEF HandleRequest, ProxyAnswers, SendResponse
<1>3. log' = log \/ Send(Response(r)) BY DEF HandleRequest, ProxyAnswers, SendResponse
<1>4. Response(r) \in Message \ {WsMsg(s)}
  BY MessageMembers, MessagesDiffer DEF MessagesOf
<1> QED BY <1>1, <1>2, <1>3, <1>4, RelayFrame DEF WriterGone

LEMMA RelayEnvironment ==
  ASSUME TypeOK, RelayInv, LinkFallsSilent \/ LinkCloses \/ UNCHANGED vars PROVE RelayInv'
<1> SUFFICES ASSUME NEW s \in Sessions PROVE RelayOf(s)' BY DEF RelayInv
<1>1. RelayOf(s) BY DEF RelayInv
<1>2. UNCHANGED <<writer, log, session, app, up, push, table, local>>
  BY DEF LinkFallsSilent, LinkCloses, vars
<1> QED BY <1>1, <1>2, RelayFrame DEF WriterGone

LEMMA RelayReader == ASSUME TypeOK, TableInv, RelayInv, Reader PROVE RelayInv'
<1> SUFFICES ASSUME NEW s \in Sessions PROVE RelayOf(s)' BY DEF RelayInv
<1>1. RelayOf(s) BY DEF RelayInv
<1>2. HeartbeatAck \in Message \ {WsMsg(s)} /\ Pong \in Message \ {WsMsg(s)}
  BY MessageMembers, MessagesDiffer DEF MessagesOf
<1>3. CASE SendHeartbeatAck \/ SendPong
  BY <1>1, <1>2, <1>3, RelayFrame DEF SendHeartbeatAck, SendPong, WriterGone
<1>4. CASE \/ ReadHeartbeat \/ ReadPing \/ PongFails \/ ReadClose \/ ReadEnd \/ ReadError
           \/ ReadTimeout \/ Drained \/ \E r \in Requests : ReadRequest(r)
  <2>1. UNCHANGED <<writer, log, session, app, up, push, table, local>>
    BY <1>4 DEF ReadHeartbeat, ReadPing, PongFails, ReadClose, ReadEnd, ReadError,
       ReadTimeout, Drained, ReadRequest
  <2> QED BY <1>1, <2>1, RelayFrame DEF WriterGone
<1>5. CASE Push
  <2>1. push' = NoPush /\ push'.id # s /\ ~Pushing(s)'
    BY <1>5, NoneAssumption DEF Push, NoPush, Pushing
  <2>2. UNCHANGED <<writer, log, session, app, up, table, local>> BY <1>5 DEF Push
  <2>3. Times(WsMsg(s), log)' = Times(WsMsg(s), log) BY <2>2, LogKept
  <2> QED BY <1>1, <2>1, <2>2, <2>3 DEF RelayOf, WriterGone
<1>6. ASSUME NEW t \in Sessions, ReadWsOpen(t) PROVE RelayOf(s)'
  <2>1. UNCHANGED <<writer, log, app, up, push, table, local>> BY <1>6 DEF ReadWsOpen
  <2>2. session'[s] = session[s] \/ (session[s] = "idle" /\ session'[s] = "dial")
    BY <1>6 DEF ReadWsOpen, TypeOK
  <2>3. Logged(OpenOk(s))' = Logged(OpenOk(s)) /\ Times(WsMsg(s), log)' = Times(WsMsg(s), log)
    BY <2>1, LogKept DEF Logged
  <2> QED BY <1>1, <2>1, <2>2, <2>3 DEF RelayOf, WriterGone, Pushing
<1>7. ASSUME NEW t \in Sessions, ReadWsMsg(t) PROVE RelayOf(s)'
  <2>1. UNCHANGED <<writer, log, session, app, up, table, local>> BY <1>7 DEF ReadWsMsg
  <2>2. Logged(OpenOk(s))' = Logged(OpenOk(s)) /\ Times(WsMsg(s), log)' = Times(WsMsg(s), log)
    BY <2>1, LogKept DEF Logged
  <2>3. Logged(OpenOk(t)) BY <1>7 DEF ReadWsMsg, Written, Logged
  <2>4. push' = push \/ (t \in table /\ push' = [id |-> t, event |-> "msg"])
    BY <1>7 DEF ReadWsMsg
  <2>5. t \in table => local[t] # "close" BY DEF RelayInv, RelayOf
  <2> QED BY <1>1, <2>1, <2>2, <2>3, <2>4, <2>5 DEF RelayOf, WriterGone, Pushing
<1>8. ASSUME NEW t \in Sessions, ReadWsClose(t) PROVE RelayOf(s)'
  <2>1. UNCHANGED <<writer, log, session, app, up, local>> BY <1>8 DEF ReadWsClose
  <2>2. Logged(OpenOk(s))' = Logged(OpenOk(s)) /\ Times(WsMsg(s), log)' = Times(WsMsg(s), log)
    BY <2>1, LogKept DEF Logged
  <2>3. push = NoPush BY <1>8 DEF ReadWsClose, CanRead, TypeOK
  <2>4. /\ table' = table \ {t}
        /\ push' = push \/ (t \in table /\ push' = [id |-> t, event |-> "close"])
    BY <1>8 DEF ReadWsClose
  <2>5. ~Pushing(s)' BY <2>3, <2>4, NoneAssumption DEF Pushing, NoPush
  <2> QED BY <1>1, <2>1, <2>2, <2>3, <2>4, <2>5, NoneAssumption DEF RelayOf, WriterGone, NoPush
<1> QED BY <1>3, <1>4, <1>5, <1>6, <1>7, <1>8 DEF Reader

LEMMA RelaySession ==
  ASSUME TypeOK, TableInv, ProtocolInv, RelayInv, NEW t \in Sessions, HandleWsOpen(t)
  PROVE  RelayInv'
<1> SUFFICES ASSUME NEW s \in Sessions PROVE RelayOf(s)' BY DEF RelayInv
<1>1. RelayOf(s) /\ ProtocolOf(s) BY DEF RelayInv, ProtocolInv
<1>2. UNCHANGED <<writer, push>>
  BY DEF HandleWsOpen, DialSucceeds, DialFails, SendNack, SendAck, Register, ReadLocalFrame,
     SendWsMsg, ReadLocalClose, SendWsClose, ReadLocalError, RemoveSession, JoinLocalWriter
<1>3. CASE t # s
  <2>1. /\ session'[s] = session[s] /\ app'[s] = app[s] /\ up'[s] = up[s]
        /\ (s \in table') <=> (s \in table)
        /\ local'[s] = local[s]
    BY <1>3 DEF HandleWsOpen, DialSucceeds, DialFails, SendNack, SendAck, Register,
       ReadLocalFrame, SendWsMsg, ReadLocalClose, SendWsClose, ReadLocalError, RemoveSession,
       JoinLocalWriter, Goto, TypeOK
  <2>2. log' = log \/ \E m \in MessagesOf(t) : Send(m)
    BY DEF HandleWsOpen, DialSucceeds, DialFails, SendNack, SendAck, Register, ReadLocalFrame,
       SendWsMsg, ReadLocalClose, SendWsClose, ReadLocalError, RemoveSession, JoinLocalWriter,
       MessagesOf
  <2>3. MessagesOf(t) \subseteq Message \ {WsMsg(s)}
    BY <1>3, MessageMembers, MessagesDiffer DEF MessagesOf
  <2> QED BY <1>1, <1>2, <2>1, <2>2, <2>3, RelayFrame DEF WriterGone
<1>4. CASE t = s /\ log' = log
  <2>1. Logged(OpenOk(s))' = Logged(OpenOk(s)) /\ Times(WsMsg(s), log)' = Times(WsMsg(s), log)
    BY <1>4, LogKept DEF Logged
  <2>2. CASE DialSucceeds(s) \/ DialFails(s)
    BY <1>1, <1>2, <2>1, <2>2 DEF DialSucceeds, DialFails, Goto, TypeOK, RelayOf, WriterGone,
       Pushing, TableInv, Early
  <2>3. CASE Register(s)
    BY <1>1, <1>2, <2>1, <2>3 DEF Register, Goto, TypeOK, RelayOf, WriterGone, Pushing,
       TableInv, Early
  <2>4. CASE ReadLocalFrame(s)
    <3>1. Times(WsMsg(s), log) \in Nat BY TimesType DEF TypeOK
    <3> QED
      BY <1>1, <1>2, <2>1, <2>4, <3>1 DEF ReadLocalFrame, Goto, TypeOK, RelayOf, WriterGone,
         Pushing
  <2>5. CASE ReadLocalClose(s) \/ ReadLocalError(s) \/ RemoveSession(s) \/ JoinLocalWriter(s)
    BY <1>1, <1>2, <2>1, <2>5 DEF ReadLocalClose, ReadLocalError, RemoveSession,
       JoinLocalWriter, Goto, TypeOK, RelayOf, ProtocolOf, WriterGone, Pushing
  <2>6. CASE SendNack(s) \/ SendAck(s) \/ SendWsMsg(s) \/ SendWsClose(s)
    <3>1. WriterGone
      <4>1. log \in Seq(Message) BY DEF TypeOK
      <4>2. \A m \in Message : Append(log, m) # log
        BY <4>1, AppendEffect
      <4>3. MessagesOf(s) \subseteq Message BY MessageMembers DEF MessagesOf
      <4>4. \E m \in MessagesOf(s) : Send(m)
        BY <2>6 DEF SendNack, SendAck, SendWsMsg, SendWsClose, MessagesOf
      <4> QED BY <1>4, <4>2, <4>3, <4>4 DEF Send
    <3> QED
      BY <1>1, <1>2, <2>1, <2>6, <3>1 DEF SendNack, SendAck, SendWsMsg, SendWsClose, Goto,
         TypeOK, RelayOf, ProtocolOf, WriterGone, Pushing
  <2> QED BY <1>4, <2>2, <2>3, <2>4, <2>5, <2>6 DEF HandleWsOpen
<1>5. CASE t = s /\ log' # log
  <2>1. ~WriterGone
    BY <1>5 DEF HandleWsOpen, DialSucceeds, DialFails, SendNack, SendAck, Register,
       ReadLocalFrame, SendWsMsg, ReadLocalClose, SendWsClose, ReadLocalError, RemoveSession,
       JoinLocalWriter, Send
  <2>2. MessagesOf(s) \subseteq Message BY MessageMembers DEF MessagesOf
  <2>3. \A m \in MessagesOf(s) : Send(m) =>
          /\ Logged(OpenOk(s)) => Logged(OpenOk(s))'
          /\ Times(WsMsg(s), log)' =
               IF m = WsMsg(s) THEN Times(WsMsg(s), log) + 1 ELSE Times(WsMsg(s), log)
    BY <2>1, <2>2, LogSends
  <2>4. /\ OpenFailed(s) # WsMsg(s) /\ OpenOk(s) # WsMsg(s) /\ WsClose(s) # WsMsg(s)
        /\ {OpenOk(s), OpenFailed(s), WsMsg(s), WsClose(s)} = MessagesOf(s)
    BY MessagesDiffer DEF Acks, MessagesOf
  <2>5. Times(WsMsg(s), log) \in Nat BY TimesType DEF TypeOK
  <2>6. CASE SendNack(s) \/ SendAck(s) \/ SendWsClose(s)
    <3>1. Times(WsMsg(s), log)' = Times(WsMsg(s), log) /\ (Logged(OpenOk(s)) => Logged(OpenOk(s))')
      BY <2>3, <2>4, <2>6 DEF SendNack, SendAck, SendWsClose
    <3> QED
      BY <1>1, <1>2, <2>1, <2>6, <3>1 DEF SendNack, SendAck, SendWsClose, Goto, TypeOK, RelayOf,
         ProtocolOf, WriterGone, Pushing
  <2>7. CASE SendWsMsg(s)
    <3>1. /\ Times(WsMsg(s), log)' = Times(WsMsg(s), log) + 1
          /\ Logged(OpenOk(s)) => Logged(OpenOk(s))'
      BY <2>3, <2>4, <2>7 DEF SendWsMsg
    <3> QED
      BY <1>1, <1>2, <2>1, <2>5, <2>7, <3>1 DEF SendWsMsg, Goto, TypeOK, RelayOf, WriterGone,
         Pushing
  <2> QED
    BY <1>5, <2>6, <2>7 DEF HandleWsOpen, DialSucceeds, DialFails, Register, ReadLocalFrame,
       ReadLocalClose, ReadLocalError, RemoveSession, JoinLocalWriter
<1> QED BY <1>3, <1>4, <1>5

LEMMA RelayLocal ==
  ASSUME TypeOK, TableInv, RelayInv, NEW t \in Sessions, LocalWriteTask(t) PROVE RelayInv'
<1> SUFFICES ASSUME NEW s \in Sessions PROVE RelayOf(s)' BY DEF RelayInv
<1>1. RelayOf(s) BY DEF RelayInv
<1>2. UNCHANGED <<writer, log, session, up, push, table, fed>>
  BY DEF LocalWriteTask, ReceiveMsg, SkipUndecodable, ReceiveClose, Receive, WriteLocal,
     WriteLocalFails, WriteLocalClose, LocalWriterEnds
<1>3. Logged(OpenOk(s))' = Logged(OpenOk(s)) /\ Times(WsMsg(s), log)' = Times(WsMsg(s), log)
  BY <1>2, LogKept DEF Logged
<1>4. CASE t = s
  <2>1. CASE ReceiveClose(s)
    <3>1. s \notin table /\ push.id # s
      <4>1. eaten[s] + 1 \in 1..Len(fed[s]) /\ fed[s][eaten[s] + 1] = "close"
        BY <2>1 DEF ReceiveClose, Receive, TypeOK
      <4> QED BY <4>1 DEF TableInv, CloseIsLastEvent
    <3> QED
      BY <1>1, <1>2, <1>3, <2>1, <3>1 DEF ReceiveClose, Receive, TypeOK, RelayOf, WriterGone,
         Pushing
  <2>2. CASE \/ ReceiveMsg(s) \/ SkipUndecodable(s) \/ WriteLocal(s) \/ WriteLocalFails(s)
             \/ LocalWriterEnds(s)
    BY <1>1, <1>2, <1>3, <2>2 DEF ReceiveMsg, SkipUndecodable, Receive, WriteLocal,
       WriteLocalFails, LocalWriterEnds, TypeOK, RelayOf, WriterGone, Pushing
  <2>3. CASE WriteLocalClose(s)
    BY <1>1, <1>2, <1>3, <2>3 DEF WriteLocalClose, TypeOK, RelayOf, WriterGone, Pushing
  <2> QED BY <1>4, <2>1, <2>2, <2>3 DEF LocalWriteTask
<1>5. CASE t # s
  <2>1. local'[s] = local[s] /\ app'[s] = app[s]
    BY <1>5 DEF LocalWriteTask, ReceiveMsg, SkipUndecodable, ReceiveClose, Receive, WriteLocal,
       WriteLocalFails, WriteLocalClose, LocalWriterEnds, TypeOK
  <2> QED BY <1>1, <1>2, <2>1, RelayFrame DEF WriterGone
<1> QED BY <1>4, <1>5

LEMMA RelayApp ==
  ASSUME TypeOK, RelayInv, NEW t \in Sessions, App(t) PROVE RelayInv'
<1> SUFFICES ASSUME NEW s \in Sessions PROVE RelayOf(s)' BY DEF RelayInv
<1>1. RelayOf(s) BY DEF RelayInv
<1>2. UNCHANGED <<writer, log, session, up, push, table, local>>
  BY DEF App, AppLeaves, AppVanishes
<1>3. Logged(OpenOk(s))' = Logged(OpenOk(s)) /\ Times(WsMsg(s), log)' = Times(WsMsg(s), log)
  BY <1>2, LogKept DEF Logged
<1>4. app'[s] = app[s] \/ (app[s] \in {"open", "told", "left"} /\ app'[s] \in {"left", "gone"})
  BY DEF App, AppLeaves, AppVanishes, TypeOK
<1> QED BY <1>1, <1>2, <1>3, <1>4 DEF RelayOf, WriterGone, Pushing

LEMMA RelayStep == TypeOK /\ TableInv /\ ProtocolInv /\ RelayInv /\ [Next]_vars => RelayInv'
BY RelayWriter, RelayReader, RelayRequest, RelaySession, RelayLocal, RelayApp, RelayEnvironment
DEF Next

LEMMA RelayCorrect == Spec => [](TypeOK /\ TableInv /\ ProtocolInv /\ RelayInv)
<1>1. Init => RelayInv
  <2> SUFFICES ASSUME Init, NEW s \in Sessions PROVE RelayOf(s) BY DEF RelayInv
  <2>1. Times(WsMsg(s), log) = 0
    <3>1. {i \in 1..Len(log) : log[i] = WsMsg(s)} = {} BY DEF Init
    <3> QED BY <3>1, FS_EmptySet DEF Times
  <2>2. push.id # s BY NoneAssumption DEF Init, NoPush
  <2> QED BY <2>1, <2>2 DEF Init, RelayOf, Pushing
<1> QED BY <1>1, RelayStep, TypeCorrect, TableInvariant, ProtocolInvariant, PTL DEF Spec

-----------------------------------------------------------------------------
(* The mapping, state by state *)

\* What the server was told, read off the session's place in the code.
LEMMA ViewIs ==
  ASSUME TypeOK, NEW s \in Sessions, ProtocolOf(s), RelayOf(s)
  PROVE  /\ session[s] = "idle" => View(s) = "unasked"
         /\ session[s] \in {"dial", "nack", "ack"} => View(s) = "asked"
         /\ session[s] \in {"register", "read", "msg", "close"} =>
              View(s) \in {"asked", "open"} /\ (~WriterGone => View(s) = "open")
         /\ session[s] \in {"remove", "join"} /\ app[s] = "left" /\ ~WriterGone =>
              View(s) = "closed"
         /\ Logged(OpenOk(s)) => View(s) \in {"open", "closed"}
<1>1. OpenOk(s) # OpenFailed(s) BY MessagesDiffer
<1>2. Logged(OpenOk(s)) => ~Logged(OpenFailed(s)) BY <1>1 DEF Logged, ProtocolOf, Acks
<1>3. session[s] # "ended" => ~Logged(OpenFailed(s)) BY DEF Logged, ProtocolOf
<1>4. session[s] \in {"idle", "dial", "nack", "ack"} =>
        ~Logged(OpenFailed(s)) /\ ~Logged(WsClose(s)) /\ ~Logged(OpenOk(s))
  BY DEF Logged, ProtocolOf, MessagesOf
<1>5. session[s] \in {"register", "read", "msg", "close"} =>
        ~Logged(WsClose(s)) /\ (~WriterGone => Logged(OpenOk(s)))
  BY DEF Logged, ProtocolOf
<1>6. session[s] \in {"remove", "join"} /\ app[s] = "left" /\ ~WriterGone => Logged(WsClose(s))
  BY DEF Logged, ProtocolOf
<1> QED BY <1>2, <1>3, <1>4, <1>5, <1>6 DEF View

\* What a step leaves alone of a session.
LEMMA LogUnseen ==
  ASSUME TypeOK, NEW s \in Sessions,
         \/ log' = log
         \/ \E m \in Message \ MessagesOf(s) : Send(m),
         (session'[s] = "idle") <=> (session[s] = "idle")
  PROVE  View(s)' = View(s) /\ Times(WsMsg(s), log)' = Times(WsMsg(s), log)
<1>1. \A m \in MessagesOf(s) :
        (Logged(m)' <=> Logged(m)) /\ Times(m, log)' = Times(m, log)
  <2>1. CASE log' = log BY <2>1 DEF Logged, Times
  <2>2. CASE log' # log
    <3>1. PICK m \in Message \ MessagesOf(s) : Send(m) BY <2>2
    <3>2. ~WriterGone BY <2>2, <3>1 DEF Send
    <3> QED BY <3>1, <3>2, LogSends
  <2> QED BY <2>1, <2>2
<1>2. /\ OpenOk(s) \in MessagesOf(s) /\ OpenFailed(s) \in MessagesOf(s)
      /\ WsMsg(s) \in MessagesOf(s) /\ WsClose(s) \in MessagesOf(s)
  BY DEF MessagesOf
<1> QED BY <1>1, <1>2 DEF View

\* A step of others.
LEMMA Unseen ==
  ASSUME TypeOK, NEW s \in Sessions,
         \/ log' = log
         \/ \E m \in Message \ MessagesOf(s) : Send(m),
         session'[s] = session[s], app'[s] = app[s], up'[s] = up[s], down'[s] = down[s],
         fed'[s] = fed[s], local'[s] = local[s], Pushing(s)' <=> Pushing(s),
         (s \in table') <=> (s \in table),
         (s \in hungup') <=> (s \in hungup),
         WriterGone' <=> WriterGone
  PROVE  UNCHANGED Relayed(s)!sessionVars
<1>1. View(s)' = View(s) /\ Times(WsMsg(s), log)' = Times(WsMsg(s), log) BY LogUnseen
<1>2. Stage(s)' = Stage(s) /\ Parting(s)' = Parting(s) BY DEF Stage, Registered, Parting
<1>3. Sent(s)' = Sent(s) BY DEF Sent
<1>4. Times("msg", fed[s])' = Times("msg", fed[s]) BY DEF Times
<1>5. up[s]' = up[s] BY DEF View
<1>6. (s \in hungup)' = (s \in hungup) OBVIOUS
<1>7. WriterGone' = WriterGone BY DEF WriterGone
<1> QED BY <1>1, <1>2, <1>3, <1>4, <1>5, <1>6, <1>7 DEF Relayed!sessionVars

LEMMA RefineWriter ==
  ASSUME TypeOK, NEW s \in Sessions, Writer
  PROVE  [Relayed(s)!Next]_(Relayed(s)!sessionVars)
<1>1. UNCHANGED <<log, session, app, up, down, fed, local, push, table, hungup>>
  BY DEF Writer, WriterReceives, WriterSends, WriterFails, WriterEnds
<1>2. CASE WriterGone' <=> WriterGone BY <1>1, <1>2, Unseen DEF Pushing
<1>3. CASE ~(WriterGone' <=> WriterGone)
  <2>1. ~WriterGone /\ WriterGone'
    BY <1>3 DEF Writer, WriterReceives, WriterSends, WriterFails, WriterEnds, WriterGone
  <2>2. View(s)' = View(s) /\ Times(WsMsg(s), log)' = Times(WsMsg(s), log)
    BY <1>1, LogUnseen
  <2>3. Stage(s)' = Stage(s) /\ Parting(s)' = Parting(s)
    BY <1>1 DEF Stage, Registered, Parting, Pushing
  <2>4. Sent(s)' = Sent(s) BY <1>1 DEF Sent, Pushing
  <2>5. Times("msg", fed[s])' = Times("msg", fed[s]) BY <1>1 DEF Times
  <2>6. Relayed(s)!Cut
    BY <1>1, <2>1, <2>2, <2>3, <2>4, <2>5 DEF Relayed!Cut
  <2> QED BY <2>6 DEF Relayed!Next
<1> QED BY <1>2, <1>3

LEMMA RefineRequest ==
  ASSUME TypeOK, NEW s \in Sessions, NEW r \in Requests, HandleRequest(r)
  PROVE  UNCHANGED Relayed(s)!sessionVars
<1>1. UNCHANGED <<writer, session, app, up, down, fed, local, push, table, hungup>>
  BY DEF HandleRequest, ProxyAnswers, SendResponse
<1>2. log' = log \/ Send(Response(r)) BY DEF HandleRequest, ProxyAnswers, SendResponse
<1>3. Response(r) \in Message \ MessagesOf(s) BY MessageMembers, MessagesDiffer
<1> QED BY <1>1, <1>2, <1>3, Unseen DEF Pushing, WriterGone

LEMMA RefineEnvironment ==
  ASSUME TypeOK, NEW s \in Sessions, LinkFallsSilent \/ LinkCloses \/ UNCHANGED vars
  PROVE  UNCHANGED Relayed(s)!sessionVars
<1>1. UNCHANGED <<writer, log, session, app, up, down, fed, local, push, table, hungup>>
  BY DEF LinkFallsSilent, LinkCloses, vars
<1> QED BY <1>1, Unseen DEF Pushing, WriterGone

\* The read loop's event reaches the session's channel, or finds it closed.
LEMMA RefinePush ==
  ASSUME TypeOK, TableInv, ProtocolInv, RelayInv, NEW s \in Sessions, Push
  PROVE  [Relayed(s)!Next]_(Relayed(s)!sessionVars)
<1>1. RelayOf(s) /\ ProtocolOf(s) BY DEF RelayInv, ProtocolInv
<1>2. UNCHANGED <<writer, log, session, app, up, down, local, table, hungup>> BY DEF Push
<1>3. push.id \in Sessions /\ push.event \in Event /\ push' = NoPush /\ ~Pushing(s)'
  BY NoneAssumption DEF Push, TypeOK, NoPush, Pushing
<1>4. View(s)' = View(s) /\ Times(WsMsg(s), log)' = Times(WsMsg(s), log) BY <1>2, LogUnseen
<1>5. Parting(s)' = Parting(s) BY <1>2 DEF Parting
<1>6. (s \in hungup)' = (s \in hungup) /\ WriterGone' = WriterGone BY <1>2 DEF WriterGone
<1>7. CASE push.id # s
  <2>1. fed'[s] = fed[s] BY <1>3, <1>7 DEF Push, TypeOK
  <2>2. ~Pushing(s) BY <1>7 DEF Pushing
  <2> QED BY <1>2, <1>3, <2>1, <2>2, Unseen DEF WriterGone
<1>8. CASE push.id = s /\ push.event = "close"
  <2>1. ~Pushing(s) BY <1>8 DEF Pushing
  <2>2. Times("msg", fed[s])' = Times("msg", fed[s])
    <3>1. fed'[s] = fed[s] \/ fed'[s] = Append(fed[s], "close") BY <1>8 DEF Push, TypeOK
    <3>2. fed[s] \in Seq(Event) /\ "close" \in Event BY DEF TypeOK, Event
    <3>3. Times("msg", Append(fed[s], "close")) = Times("msg", fed[s]) BY <3>2, TimesAppend
    <3>4. Times("msg", fed[s])' = Times("msg", fed'[s]) BY DEF Times
    <3> QED BY <3>1, <3>3, <3>4
  <2>3. Stage(s)' = Stage(s) BY <1>2, <1>3, <2>1 DEF Stage, Registered
  <2>4. Sent(s)' = Sent(s) BY <1>2, <1>3, <2>1 DEF Sent
  <2> QED BY <1>2, <1>4, <1>5, <1>6, <2>2, <2>3, <2>4 DEF Relayed!sessionVars
<1>9. CASE push.id = s /\ push.event = "msg"
  <2>1. Pushing(s) /\ session[s] \notin Early
    BY <1>9 DEF Pushing, TypeOK, NoPush, TableInv
  <2>2. down[s] \in Int /\ Sent(s) = down[s] - 1 /\ Sent(s)' = down[s]
    BY <1>2, <1>3, <2>1 DEF Sent, TypeOK
  <2>3. Sent(s)' = Sent(s) + 1 BY <2>2
  <2>4. CASE local[s] = "ended" /\ fed' = fed
    <3>1. Times("msg", fed[s])' = Times("msg", fed[s]) BY <2>4 DEF Times
    <3>2. Stage(s) # "now" /\ Stage(s)' = Stage(s)
      BY <1>2, <2>4 DEF Stage, Registered
    <3>3. View(s) \in {"open", "closed"} BY <1>1, <2>1, ViewIs DEF RelayOf
    <3>4. Relayed(s)!Miss
      BY <1>2, <1>4, <1>5, <1>6, <2>3, <3>1, <3>2, <3>3 DEF Relayed!Miss, Relayed!Told
    <3> QED BY <3>4 DEF Relayed!Next
  <2>5. CASE local[s] # "ended" /\ fed' = [fed EXCEPT ![s] = Append(@, "msg")]
    <3>1. Times("msg", fed[s])' = Times("msg", fed[s]) + 1
      <4>1. fed'[s] = Append(fed[s], "msg") BY <2>5 DEF TypeOK
      <4>2. fed[s] \in Seq(Event) /\ "msg" \in Event BY DEF TypeOK, Event
      <4>3. Times("msg", Append(fed[s], "msg")) = Times("msg", fed[s]) + 1 BY <4>2, TimesAppend
      <4>4. Times("msg", fed[s])' = Times("msg", fed'[s]) BY DEF Times
      <4> QED BY <4>1, <4>3, <4>4
    <3>2. local[s] \in {"recv", "write", "close"} BY <1>1, <1>9, <2>5 DEF RelayOf, TypeOK
    <3>3. session[s] # "ended"
      BY <2>5, <3>2 DEF TableInv, NoTaskLeftBehind
    <3>4. Stage(s) = "now"
      BY <2>1, <3>2, <3>3 DEF Stage, Registered, Early
    <3>5. Stage(s)' = IF s \in table THEN "now" ELSE "past"
      BY <1>2, <1>3, <2>1, <3>2, <3>3 DEF Stage, Registered, Early
    <3>6. s \notin table => Parting(s) # "not" BY <1>1, <2>1 DEF RelayOf, Parting
    <3>7. Relayed(s)!Deliver
      BY <1>2, <1>4, <1>5, <1>6, <2>3, <3>1, <3>4, <3>5, <3>6
      DEF Relayed!Deliver, Relayed!Parted
    <3> QED BY <3>7 DEF Relayed!Next
  <2> QED BY <1>9, <2>4, <2>5 DEF Push
<1> QED BY <1>3, <1>7, <1>8, <1>9 DEF Event

LEMMA RefineWsOpen ==
  ASSUME TypeOK, TableInv, ProtocolInv, RelayInv, NEW s \in Sessions, NEW t \in Sessions,
         ReadWsOpen(t)
  PROVE  [Relayed(s)!Next]_(Relayed(s)!sessionVars)
<1>1. UNCHANGED <<writer, log, app, up, down, fed, local, push, table, hungup>>
  BY DEF ReadWsOpen
<1>2. CASE t # s
  <2>1. session'[s] = session[s] BY <1>2 DEF ReadWsOpen, TypeOK
  <2> QED BY <1>1, <2>1, Unseen DEF Pushing, WriterGone
<1>3. CASE t = s
  <2>1. session[s] = "idle" /\ session'[s] = "dial" BY <1>3 DEF ReadWsOpen, TypeOK
  <2>2. View(s) = "unasked" /\ View(s)' = "asked"
    <3>1. \A m \in MessagesOf(s) : ~Logged(m)
      BY <2>1 DEF ProtocolInv, ProtocolOf, Logged
    <3>2. \A m \in MessagesOf(s) : ~Logged(m)' BY <1>1, <3>1 DEF Logged
    <3> QED BY <2>1, <3>1, <3>2 DEF View, MessagesOf
  <2>3. Stage(s)' = Stage(s) /\ Parting(s)' = Parting(s) /\ Sent(s)' = Sent(s)
    BY <1>1, <2>1 DEF Stage, Registered, Parting, Sent, Pushing
  <2>4. Times("msg", fed[s])' = Times("msg", fed[s])
        /\ Times(WsMsg(s), log)' = Times(WsMsg(s), log)
    BY <1>1 DEF Times
  <2>5. Relayed(s)!Ask
    BY <1>1, <2>2, <2>3, <2>4 DEF Relayed!Ask, WriterGone
  <2> QED BY <2>5 DEF Relayed!Next
<1> QED BY <1>2, <1>3

\* A frame of the browser: taken in hand, or lost.
LEMMA RefineWsMsg ==
  ASSUME TypeOK, TableInv, ProtocolInv, RelayInv, NEW s \in Sessions, NEW t \in Sessions,
         ReadWsMsg(t)
  PROVE  [Relayed(s)!Next]_(Relayed(s)!sessionVars)
<1>1. UNCHANGED <<writer, log, session, app, up, fed, local, table, hungup>> BY DEF ReadWsMsg
<1>2. push = NoPush /\ ~Pushing(s) /\ ~Pushing(t)
  BY NoneAssumption DEF ReadWsMsg, CanRead, TypeOK, Pushing, NoPush
<1>3. CASE t # s
  <2>1. down'[s] = down[s] /\ ~Pushing(s)' BY <1>2, <1>3 DEF ReadWsMsg, TypeOK, Pushing
  <2> QED BY <1>1, <1>2, <2>1, Unseen DEF WriterGone
<1>4. CASE t = s
  <2>1. View(s)' = View(s) /\ Times(WsMsg(s), log)' = Times(WsMsg(s), log)
    BY <1>1, LogUnseen
  <2>2. /\ Times("msg", fed[s])' = Times("msg", fed[s]) /\ Parting(s)' = Parting(s)
        /\ (s \in hungup)' = (s \in hungup) /\ WriterGone' = WriterGone
    BY <1>1 DEF Times, Parting, WriterGone
  <2>3. down[s] \in Int /\ down'[s] = down[s] + 1 BY <1>4 DEF ReadWsMsg, TypeOK
  <2>4. CASE s \in table
    <3>1. Pushing(s)' BY <1>4, <2>4 DEF ReadWsMsg, Pushing
    <3>2. Sent(s)' = Sent(s) BY <1>2, <2>3, <3>1 DEF Sent
    <3>3. Stage(s)' = Stage(s) BY <1>1, <2>4 DEF Stage, Registered
    <3> QED BY <1>1, <2>1, <2>2, <3>2, <3>3 DEF Relayed!sessionVars
  <2>5. CASE s \notin table
    <3>1. ~Pushing(s)' BY <1>2, <1>4, <2>5 DEF ReadWsMsg, Pushing
    <3>2. Sent(s)' = Sent(s) + 1 BY <1>2, <2>3, <3>1 DEF Sent
    <3>3. Stage(s) # "now" /\ Stage(s)' = Stage(s)
      BY <1>1, <1>2, <2>5, <3>1 DEF Stage, Registered
    <3>4. View(s) \in {"open", "closed"}
      <4>1. Logged(OpenOk(s)) BY <1>4 DEF ReadWsMsg, Written, Logged
      <4> QED BY <4>1, ViewIs DEF RelayInv, ProtocolInv
    <3>5. Relayed(s)!Miss
      BY <1>1, <2>1, <2>2, <3>2, <3>3, <3>4 DEF Relayed!Miss, Relayed!Told
    <3> QED BY <3>5 DEF Relayed!Next
  <2> QED BY <2>4, <2>5
<1> QED BY <1>3, <1>4

LEMMA RefineWsClose ==
  ASSUME TypeOK, TableInv, ProtocolInv, RelayInv, NEW s \in Sessions, NEW t \in Sessions,
         ReadWsClose(t)
  PROVE  [Relayed(s)!Next]_(Relayed(s)!sessionVars)
<1>1. UNCHANGED <<writer, log, session, app, up, down, fed, local>> BY DEF ReadWsClose
<1>2. push = NoPush /\ ~Pushing(s)
  BY NoneAssumption DEF ReadWsClose, CanRead, TypeOK, Pushing, NoPush
<1>3. ~Pushing(s)' BY <1>2 DEF ReadWsClose, Pushing
<1>4. CASE t # s
  <2>1. ((s \in table') <=> (s \in table)) /\ ((s \in hungup') <=> (s \in hungup))
    BY <1>4 DEF ReadWsClose
  <2> QED BY <1>1, <1>2, <1>3, <2>1, Unseen DEF WriterGone
<1>5. CASE t = s
  <2>1. View(s)' = View(s) /\ Times(WsMsg(s), log)' = Times(WsMsg(s), log)
    BY <1>1, LogUnseen
  <2>2. /\ Times("msg", fed[s])' = Times("msg", fed[s]) /\ Parting(s)' = Parting(s)
        /\ WriterGone' = WriterGone /\ Sent(s)' = Sent(s)
    BY <1>1, <1>2, <1>3 DEF Times, Parting, WriterGone, Sent
  <2>3. View(s) # "unasked" BY <1>5 DEF ReadWsClose, View
  <2>4. Stage(s)' = IF Stage(s) = "now" THEN "past" ELSE Stage(s)
    BY <1>1, <1>2, <1>3, <1>5 DEF ReadWsClose, Stage, Registered
  <2>5. s \notin hungup /\ s \in hungup' BY <1>5 DEF ReadWsClose
  <2>6. Relayed(s)!HangUp
    BY <1>1, <2>1, <2>2, <2>3, <2>4, <2>5 DEF Relayed!HangUp
  <2> QED BY <2>6 DEF Relayed!Next
<1> QED BY <1>4, <1>5

LEMMA RefineReader ==
  ASSUME TypeOK, TableInv, ProtocolInv, RelayInv, NEW s \in Sessions, Reader
  PROVE  [Relayed(s)!Next]_(Relayed(s)!sessionVars)
<1>1. CASE SendHeartbeatAck \/ SendPong
  <2>1. UNCHANGED <<writer, session, app, up, down, fed, local, push, table, hungup>>
    BY <1>1 DEF SendHeartbeatAck, SendPong
  <2>2. HeartbeatAck \in Message \ MessagesOf(s) /\ Pong \in Message \ MessagesOf(s)
    BY MessageMembers, MessagesDiffer
  <2>3. Send(HeartbeatAck) \/ Send(Pong) BY <1>1 DEF SendHeartbeatAck, SendPong
  <2> QED BY <2>1, <2>2, <2>3, Unseen DEF Pushing, WriterGone
<1>2. CASE \/ ReadHeartbeat \/ ReadPing \/ PongFails \/ ReadClose \/ ReadEnd \/ ReadError
           \/ ReadTimeout \/ Drained \/ \E r \in Requests : ReadRequest(r)
  <2>1. UNCHANGED <<writer, log, session, app, up, down, fed, local, push, table, hungup>>
    BY <1>2 DEF ReadHeartbeat, ReadPing, PongFails, ReadClose, ReadEnd, ReadError,
       ReadTimeout, Drained, ReadRequest
  <2> QED BY <2>1, Unseen DEF Pushing, WriterGone
<1> QED BY <1>1, <1>2, RefinePush, RefineWsOpen, RefineWsMsg, RefineWsClose DEF Reader

\* The session's own steps, those of another session first.
LEMMA RefineOther ==
  ASSUME TypeOK, NEW s \in Sessions, NEW t \in Sessions, t # s, HandleWsOpen(t)
  PROVE  UNCHANGED Relayed(s)!sessionVars
<1>1. /\ session'[s] = session[s] /\ app'[s] = app[s] /\ up'[s] = up[s] /\ down'[s] = down[s]
      /\ (s \in table') <=> (s \in table)
      /\ local'[s] = local[s] /\ fed'[s] = fed[s] /\ push' = push /\ hungup' = hungup
      /\ writer' = writer
  BY DEF HandleWsOpen, DialSucceeds, DialFails, SendNack, SendAck, Register,
     ReadLocalFrame, SendWsMsg, ReadLocalClose, SendWsClose, ReadLocalError, RemoveSession,
     JoinLocalWriter, Goto, TypeOK
<1>2. log' = log \/ \E m \in MessagesOf(t) : Send(m)
  BY DEF HandleWsOpen, DialSucceeds, DialFails, SendNack, SendAck, Register, ReadLocalFrame,
     SendWsMsg, ReadLocalClose, SendWsClose, ReadLocalError, RemoveSession, JoinLocalWriter,
     MessagesOf
<1>3. MessagesOf(t) \subseteq Message \ MessagesOf(s)
  BY MessageMembers, MessagesDiffer DEF MessagesOf
<1> QED BY <1>1, <1>2, <1>3, Unseen DEF Pushing, WriterGone

\* Its sends.
LEMMA RefineSend ==
  ASSUME TypeOK, TableInv, ProtocolInv, RelayInv, NEW s \in Sessions,
         SendNack(s) \/ SendAck(s) \/ SendWsMsg(s) \/ SendWsClose(s)
  PROVE  [Relayed(s)!Next]_(Relayed(s)!sessionVars)
<1>1. RelayOf(s) /\ ProtocolOf(s) BY DEF RelayInv, ProtocolInv
<1>2. UNCHANGED <<writer, app, up, down, fed, local, push, table, hungup>>
  BY DEF SendNack, SendAck, SendWsMsg, SendWsClose
<1>3. /\ Parting(s)' = Parting(s) /\ Sent(s)' = Sent(s) /\ WriterGone' = WriterGone
      /\ Times("msg", fed[s])' = Times("msg", fed[s])
  BY <1>2 DEF Parting, Sent, Pushing, WriterGone, Times
<1>4. /\ session[s] = "nack" => Stage(s) = "before"
      /\ session[s] = "ack" => Stage(s) = "before"
      /\ session'[s] = "register" => Stage(s)' = "before"
      /\ session'[s] = "ended" => Stage(s)' = "over"
      /\ session[s] \in {"msg", "close"} => Stage(s) \in {"now", "past"}
      /\ session[s] \in {"msg", "close"} /\ session'[s] \in {"read", "remove"} =>
           Stage(s)' = Stage(s)
  BY <1>2 DEF Stage, Registered, Pushing
<1>5. /\ SendNack(s) => session[s] = "nack" /\ session'[s] = "ended"
      /\ SendAck(s) => session[s] = "ack" /\ session'[s] = "register"
      /\ SendWsMsg(s) => session[s] = "msg" /\ session'[s] = "read"
      /\ SendWsClose(s) => session[s] = "close" /\ session'[s] = "remove"
  BY DEF SendNack, SendAck, SendWsMsg, SendWsClose, Goto, TypeOK
<1>6. (session'[s] = "idle") <=> (session[s] = "idle") BY <1>5
<1>7. /\ OpenOk(s) \in Message /\ OpenFailed(s) \in Message
      /\ WsMsg(s) \in Message /\ WsClose(s) \in Message
  BY MessageMembers
<1>8. /\ OpenOk(s) # OpenFailed(s) /\ OpenOk(s) # WsClose(s) /\ OpenOk(s) # WsMsg(s)
      /\ OpenFailed(s) # WsClose(s) /\ OpenFailed(s) # WsMsg(s) /\ WsClose(s) # WsMsg(s)
  BY MessagesDiffer DEF Acks
<1>9. Times(WsMsg(s), log) \in Nat BY TimesType DEF TypeOK
<1>10. CASE WriterGone
  <2>1. log' = log BY <1>10 DEF SendNack, SendAck, SendWsMsg, SendWsClose, Send
  <2>2. View(s)' = View(s) /\ Times(WsMsg(s), log)' = Times(WsMsg(s), log)
    BY <1>6, <2>1, LogUnseen
  <2>3. CASE SendNack(s)
    <3>1. View(s) = "asked" /\ Parting(s) = "not"
      BY <1>1, <1>5, <2>3, ViewIs DEF ProtocolOf, Parting
    <3>2. Relayed(s)!Refuse
      BY <1>2, <1>3, <1>4, <1>5, <1>10, <2>2, <2>3, <3>1 DEF Relayed!Refuse, Relayed!Parted
    <3> QED BY <3>2 DEF Relayed!Next
  <2>4. CASE SendAck(s) \/ SendWsMsg(s) \/ SendWsClose(s)
    BY <1>2, <1>3, <1>4, <1>5, <2>2, <2>4 DEF Relayed!sessionVars
  <2> QED BY <2>3, <2>4
<1>11. CASE ~WriterGone
  <2>1. CASE SendNack(s)
    <3>1. Send(OpenFailed(s)) BY <2>1 DEF SendNack
    <3>2. View(s) = "asked" /\ Parting(s) = "not"
      BY <1>1, <1>5, <2>1, ViewIs DEF ProtocolOf, Parting
    <3>3. View(s)' = "refused"
      BY <1>5, <1>7, <1>11, <2>1, <3>1, LogSends DEF View
    <3>4. Times(WsMsg(s), log)' = Times(WsMsg(s), log)
      BY <1>7, <1>8, <1>11, <3>1, LogSends
    <3>5. Relayed(s)!Refuse
      BY <1>2, <1>3, <1>4, <1>5, <1>11, <2>1, <3>2, <3>3, <3>4
      DEF Relayed!Refuse, Relayed!Parted
    <3> QED BY <3>5 DEF Relayed!Next
  <2>2. CASE SendAck(s)
    <3>1. Send(OpenOk(s)) BY <2>2 DEF SendAck
    <3>2. View(s) = "asked" BY <1>1, <1>5, <2>2, ViewIs
    <3>3. ~Logged(OpenFailed(s)) /\ ~Logged(WsClose(s))
      BY <1>1, <1>5, <2>2 DEF ProtocolOf, Logged, MessagesOf
    <3>4. /\ ~Logged(OpenFailed(s))' /\ ~Logged(WsClose(s))' /\ Logged(OpenOk(s))'
          /\ Times(WsMsg(s), log)' = Times(WsMsg(s), log)
      BY <1>7, <1>8, <1>11, <3>1, <3>3, LogSends
    <3>5. View(s)' = "open" BY <1>5, <2>2, <3>4 DEF View
    <3>6. Relayed(s)!Accept
      BY <1>2, <1>3, <1>4, <1>5, <1>11, <2>2, <3>2, <3>4, <3>5 DEF Relayed!Accept
    <3> QED BY <3>6 DEF Relayed!Next
  <2>3. CASE SendWsMsg(s)
    <3>1. Send(WsMsg(s)) BY <2>3 DEF SendWsMsg
    <3>2. View(s) = "open" BY <1>1, <1>5, <1>11, <2>3, ViewIs
    <3>3. \A m \in {OpenOk(s), OpenFailed(s), WsClose(s)} : Logged(m)' <=> Logged(m)
      BY <1>7, <1>8, <1>11, <3>1, LogSends
    <3>4. View(s)' = View(s) BY <1>6, <3>3 DEF View
    <3>5. Times(WsMsg(s), log)' = Times(WsMsg(s), log) + 1
      BY <1>7, <1>11, <3>1, LogSends
    <3>6. Times(WsMsg(s), log) < up[s] BY <1>1, <1>5, <1>9, <1>11, <2>3 DEF RelayOf
    <3>7. Relayed(s)!Relay
      BY <1>2, <1>3, <1>4, <1>5, <1>11, <2>3, <3>2, <3>4, <3>5, <3>6 DEF Relayed!Relay
    <3> QED BY <3>7 DEF Relayed!Next
  <2>4. CASE SendWsClose(s)
    <3>1. Send(WsClose(s)) BY <2>4 DEF SendWsClose
    <3>2. View(s) = "open" BY <1>1, <1>5, <1>11, <2>4, ViewIs
    <3>3. ~Logged(OpenFailed(s)) BY <1>1, <1>5, <2>4 DEF ProtocolOf, Logged
    <3>4. /\ ~Logged(OpenFailed(s))' /\ Logged(WsClose(s))'
          /\ Times(WsMsg(s), log)' = Times(WsMsg(s), log)
      BY <1>7, <1>8, <1>11, <3>1, <3>3, LogSends
    <3>5. View(s)' = "closed" BY <1>5, <2>4, <3>4 DEF View
    <3>6. Times(WsMsg(s), log) = up[s] /\ Parting(s) = "orderly"
      BY <1>1, <1>5, <1>9, <1>11, <2>4 DEF RelayOf, ProtocolOf, Parting
    <3>7. Relayed(s)!Report
      BY <1>2, <1>3, <1>4, <1>5, <1>11, <2>4, <3>2, <3>4, <3>5, <3>6 DEF Relayed!Report
    <3> QED BY <3>7 DEF Relayed!Next
  <2> QED BY <2>1, <2>2, <2>3, <2>4
<1> QED BY <1>10, <1>11

\* Its steps that send nothing.
LEMMA RefineMove ==
  ASSUME TypeOK, TableInv, ProtocolInv, RelayInv, NEW s \in Sessions,
         \/ DialSucceeds(s) \/ DialFails(s) \/ Register(s) \/ ReadLocalFrame(s)
         \/ ReadLocalClose(s) \/ ReadLocalError(s) \/ RemoveSession(s) \/ JoinLocalWriter(s)
  PROVE  [Relayed(s)!Next]_(Relayed(s)!sessionVars)
<1> USE DEF Goto
<1>1. RelayOf(s) /\ ProtocolOf(s) BY DEF RelayInv, ProtocolInv
<1>2. UNCHANGED <<writer, log, down, fed, push, hungup>>
  BY DEF DialSucceeds, DialFails, Register, ReadLocalFrame, ReadLocalClose, ReadLocalError,
     RemoveSession, JoinLocalWriter
<1>3. session[s] # "idle" /\ session'[s] # "idle"
  BY DEF DialSucceeds, DialFails, Register, ReadLocalFrame, ReadLocalClose, ReadLocalError,
     RemoveSession, JoinLocalWriter, TypeOK
<1>4. /\ View(s)' = View(s) /\ Times(WsMsg(s), log)' = Times(WsMsg(s), log)
      /\ Sent(s)' = Sent(s) /\ WriterGone' = WriterGone
      /\ Times("msg", fed[s])' = Times("msg", fed[s])
  BY <1>2, <1>3, LogUnseen DEF Sent, Pushing, WriterGone, Times
<1>5. CASE DialSucceeds(s) \/ DialFails(s)
  <2>1. Parting(s)' = Parting(s)
    BY <1>1, <1>5 DEF DialSucceeds, DialFails, Parting, ProtocolOf, TypeOK
  <2>2. Stage(s)' = Stage(s)
    BY <1>5 DEF DialSucceeds, DialFails, Stage, Registered, TypeOK
  <2>3. up' = up BY <1>5 DEF DialSucceeds, DialFails
  <2> QED BY <1>2, <1>4, <2>1, <2>2, <2>3 DEF Relayed!sessionVars
<1>6. CASE Register(s)
  <2>1. Parting(s)' = Parting(s) /\ up' = up BY <1>6 DEF Register, Parting
  <2>2. Stage(s) = "before" /\ Stage(s)' = "now"
    BY <1>6 DEF Register, Stage, Registered, TypeOK
  <2>3. View(s) = "open" \/ WriterGone BY <1>1, <1>6, ViewIs DEF Register
  <2>4. Relayed(s)!Begin BY <1>2, <1>4, <2>1, <2>2, <2>3 DEF Relayed!Begin
  <2> QED BY <2>4 DEF Relayed!Next
<1>7. CASE ReadLocalFrame(s)
  <2>1. Parting(s)' = Parting(s) /\ View(s) # "closed"
    BY <1>1, <1>7, ViewIs DEF ReadLocalFrame, Goto, Parting
  <2>2. Stage(s)' = Stage(s) /\ Stage(s) \in {"now", "past"}
    BY <1>2, <1>7 DEF ReadLocalFrame, Stage, Registered, TypeOK, Pushing
  <2>3. up'[s] = up[s] + 1 BY <1>7 DEF ReadLocalFrame, TypeOK
  <2>4. up[s] = Times(WsMsg(s), log) \/ WriterGone
    BY <1>1, <1>7, TimesType DEF ReadLocalFrame, RelayOf, TypeOK
  <2>5. Relayed(s)!Produce
    BY <1>2, <1>4, <2>1, <2>2, <2>3, <2>4 DEF Relayed!Produce, Relayed!Parted
  <2> QED BY <2>5 DEF Relayed!Next
<1>8. CASE ReadLocalClose(s) \/ ReadLocalError(s)
  <2>1. Parting(s)' = Parting(s) /\ up' = up
    BY <1>8 DEF ReadLocalClose, ReadLocalError, Parting
  <2>2. Stage(s)' = Stage(s)
    BY <1>2, <1>8 DEF ReadLocalClose, ReadLocalError, Stage, Registered, TypeOK, Pushing
  <2> QED BY <1>2, <1>4, <2>1, <2>2 DEF Relayed!sessionVars
<1>9. CASE RemoveSession(s)
  <2>1. Parting(s)' = Parting(s) /\ up' = up /\ Parting(s) # "not"
    BY <1>1, <1>9 DEF RemoveSession, Parting, RelayOf
  <2>2. Stage(s)' = Stage(s) \/ (Stage(s) = "now" /\ Stage(s)' = "past")
    BY <1>2, <1>9 DEF RemoveSession, Stage, Registered, TypeOK, Pushing
  <2>3. CASE Stage(s)' = Stage(s)
    BY <1>2, <1>4, <2>1, <2>3 DEF Relayed!sessionVars
  <2>4. CASE Stage(s) = "now" /\ Stage(s)' = "past"
    <3>1. Relayed(s)!Deafen
      BY <1>2, <1>4, <2>1, <2>4 DEF Relayed!Deafen, Relayed!Parted
    <3> QED BY <3>1 DEF Relayed!Next
  <2> QED BY <2>2, <2>3, <2>4
<1>10. CASE JoinLocalWriter(s)
  <2>1. session[s] = "join" /\ session'[s] = "ended" /\ local[s] = "ended"
    BY <1>10 DEF JoinLocalWriter, TypeOK
  <2>2. Parting(s)' = Parting(s) /\ up' = up /\ Parting(s) # "not"
    BY <1>1, <1>10, <2>1 DEF JoinLocalWriter, Parting, RelayOf
  <2>3. Stage(s) = "past" /\ Stage(s)' = "over" BY <2>1 DEF Stage, Registered
  <2>4. WriterGone \/ Times(WsMsg(s), log) = up[s]
    BY <1>1, <2>1, TimesType DEF RelayOf, TypeOK
  <2>5. WriterGone \/ (Parting(s) = "orderly" => View(s) = "closed")
    BY <1>1, <2>1, ViewIs DEF Parting
  <2>6. Relayed(s)!End
    BY <1>2, <1>4, <2>2, <2>3, <2>4, <2>5 DEF Relayed!End, Relayed!Parted
  <2> QED BY <2>6 DEF Relayed!Next
<1> QED BY <1>5, <1>6, <1>7, <1>8, <1>9, <1>10

LEMMA RefineLocal ==
  ASSUME TypeOK, TableInv, ProtocolInv, RelayInv, NEW s \in Sessions, NEW t \in Sessions,
         LocalWriteTask(t)
  PROVE  [Relayed(s)!Next]_(Relayed(s)!sessionVars)
<1>1. UNCHANGED <<writer, log, session, up, down, fed, push, table, hungup>>
  BY DEF LocalWriteTask, ReceiveMsg, SkipUndecodable, ReceiveClose, Receive, WriteLocal,
     WriteLocalFails, WriteLocalClose, LocalWriterEnds
<1>2. CASE t # s
  <2>1. local'[s] = local[s] /\ app'[s] = app[s]
    BY <1>2 DEF LocalWriteTask, ReceiveMsg, SkipUndecodable, ReceiveClose, Receive, WriteLocal,
       WriteLocalFails, WriteLocalClose, LocalWriterEnds, TypeOK
  <2> QED BY <1>1, <2>1, Unseen DEF Pushing, WriterGone
<1>3. CASE t = s
  <2>1. /\ View(s)' = View(s) /\ Times(WsMsg(s), log)' = Times(WsMsg(s), log)
        /\ Sent(s)' = Sent(s) /\ WriterGone' = WriterGone
        /\ Times("msg", fed[s])' = Times("msg", fed[s])
    BY <1>1, LogUnseen DEF Sent, Pushing, WriterGone, Times
  <2>2. Parting(s)' = Parting(s)
    BY <1>3 DEF LocalWriteTask, ReceiveMsg, SkipUndecodable, ReceiveClose, Receive, WriteLocal,
       WriteLocalFails, WriteLocalClose, LocalWriterEnds, TypeOK, Parting
  <2>3. CASE WriteLocalFails(s)
    <3>1. local[s] = "write" /\ local'[s] = "ended" /\ Parting(s) # "not"
      BY <2>3 DEF WriteLocalFails, TypeOK, Parting
    <3>2. Stage(s)' = Stage(s) \/ (Stage(s) = "now" /\ Stage(s)' = "past")
      BY <1>1, <3>1 DEF Stage, Registered, Pushing
    <3>3. CASE Stage(s)' = Stage(s) BY <1>1, <2>1, <2>2, <3>3 DEF Relayed!sessionVars
    <3>4. CASE Stage(s) = "now" /\ Stage(s)' = "past"
      <4>1. Relayed(s)!Deafen
        BY <1>1, <2>1, <2>2, <3>1, <3>4 DEF Relayed!Deafen, Relayed!Parted
      <4> QED BY <4>1 DEF Relayed!Next
    <3> QED BY <3>2, <3>3, <3>4
  <2>4. CASE ~WriteLocalFails(s)
    <3>1. \/ local[s] \in {"recv", "write", "close"} /\ local'[s] \in {"recv", "write", "close"}
          \/ local[s] = "close" /\ s \notin table /\ push.id # s
          \/ local[s] = "recv" /\ s \notin table /\ push.id # s
      BY <1>3, <2>4 DEF LocalWriteTask, ReceiveMsg, SkipUndecodable, ReceiveClose, Receive,
         WriteLocal, WriteLocalClose, LocalWriterEnds, TypeOK, RelayInv, RelayOf
    <3>2. push.id # s => ~Pushing(s) BY DEF Pushing
    <3>3. Stage(s)' = Stage(s) BY <1>1, <3>1, <3>2 DEF Stage, Registered, Pushing
    <3> QED BY <1>1, <2>1, <2>2, <3>3 DEF Relayed!sessionVars
  <2> QED BY <2>3, <2>4
<1> QED BY <1>2, <1>3

LEMMA RefineApp ==
  ASSUME TypeOK, TableInv, ProtocolInv, RelayInv, NEW s \in Sessions, NEW t \in Sessions, App(t)
  PROVE  [Relayed(s)!Next]_(Relayed(s)!sessionVars)
<1>1. UNCHANGED <<writer, log, session, local, up, down, fed, push, table, hungup>>
  BY DEF App, AppLeaves, AppVanishes
<1>2. CASE t # s
  <2>1. app'[s] = app[s] BY <1>2 DEF App, AppLeaves, AppVanishes, TypeOK
  <2> QED BY <1>1, <2>1, Unseen DEF Pushing, WriterGone
<1>3. CASE t = s
  <2>1. /\ View(s)' = View(s) /\ Times(WsMsg(s), log)' = Times(WsMsg(s), log)
        /\ Sent(s)' = Sent(s) /\ WriterGone' = WriterGone
        /\ Times("msg", fed[s])' = Times("msg", fed[s])
        /\ Stage(s)' = Stage(s)
    BY <1>1, LogUnseen DEF Sent, Pushing, WriterGone, Times, Stage, Registered
  <2>2. \/ app[s] \in {"open", "told"} /\ app'[s] \in {"left", "gone"}
        \/ /\ app[s] = "left" /\ app'[s] = "gone"
           /\ session[s] \notin {"close", "remove", "join", "ended"}
    BY <1>3 DEF App, AppLeaves, AppVanishes, TypeOK
  <2>3. \/ Parting(s) = "not" /\ Parting(s)' \in {"orderly", "abrupt"}
        \/ Parting(s) = "orderly" /\ Parting(s)' = "abrupt"
    BY <2>2 DEF Parting
  <2>4. session[s] \in {"ack", "register", "read", "msg", "close"}
    BY <2>2 DEF RelayInv, RelayOf, ProtocolInv, ProtocolOf, TypeOK
  <2>5. View(s) \in {"asked", "open"} BY <2>4, ViewIs DEF RelayInv, ProtocolInv
  <2>6. Stage(s) # "over" BY <2>4 DEF Stage
  <2>7. Relayed(s)!Part(Parting(s)')
    BY <1>1, <2>1, <2>3, <2>5, <2>6 DEF Relayed!Part, Relayed!Parted
  <2> QED BY <2>3, <2>7 DEF Relayed!Next
<1> QED BY <1>2, <1>3

LEMMA RefineStep ==
  ASSUME TypeOK, TableInv, ProtocolInv, RelayInv, NEW s \in Sessions, [Next]_vars
  PROVE  [Relayed(s)!Next]_(Relayed(s)!sessionVars)
<1>1. CASE Writer BY <1>1, RefineWriter
<1>2. CASE Reader BY <1>2, RefineReader
<1>3. ASSUME NEW r \in Requests, HandleRequest(r) PROVE UNCHANGED Relayed(s)!sessionVars
  BY <1>3, RefineRequest
<1>4. ASSUME NEW t \in Sessions, HandleWsOpen(t)
      PROVE  [Relayed(s)!Next]_(Relayed(s)!sessionVars)
  <2>1. CASE t # s BY <1>4, <2>1, RefineOther
  <2>2. CASE t = s BY <1>4, <2>2, RefineSend, RefineMove DEF HandleWsOpen
  <2> QED BY <2>1, <2>2
<1>5. ASSUME NEW t \in Sessions, LocalWriteTask(t)
      PROVE  [Relayed(s)!Next]_(Relayed(s)!sessionVars)
  BY <1>5, RefineLocal
<1>6. ASSUME NEW t \in Sessions, App(t)
      PROVE  [Relayed(s)!Next]_(Relayed(s)!sessionVars)
  BY <1>6, RefineApp
<1>7. CASE LinkFallsSilent \/ LinkCloses \/ UNCHANGED vars BY <1>7, RefineEnvironment
<1> QED BY <1>1, <1>2, <1>3, <1>4, <1>5, <1>6, <1>7 DEF Next

LEMMA RefineInit == ASSUME NEW s \in Sessions, Init PROVE Relayed(s)!Init
<1>1. Times(WsMsg(s), log) = 0 /\ Times("msg", fed[s]) = 0
  <2>1. /\ {i \in 1..Len(log) : log[i] = WsMsg(s)} = {}
        /\ {i \in 1..Len(fed[s]) : fed[s][i] = "msg"} = {}
    BY DEF Init
  <2> QED BY <2>1, FS_EmptySet DEF Times
<1>2. ~Pushing(s) BY NoneAssumption DEF Init, Pushing, NoPush
<1>3. /\ View(s) = "unasked" /\ Stage(s) = "before" /\ Sent(s) = 0 /\ Parting(s) = "not"
      /\ up[s] = 0
  BY <1>2 DEF Init, View, Stage, Registered, Sent, Parting
<1>4. s \notin hungup /\ ~WriterGone BY DEF Init, WriterGone
<1> QED BY <1>1, <1>3, <1>4 DEF Relayed!Init

\* Every WebSocket session of a connection implements Session: whatever the
\* capacities and however the tasks interleave, the browser's frames are lost
\* only before the registration or after an end, the application's are relayed in
\* order and none is skipped, and the end is reported as promised
\* (tunnel.rs:332-349, 429-611).
THEOREM SessionImplemented == ASSUME NEW s \in Sessions PROVE Spec => Relayed(s)!Spec
<1>1. Init => Relayed(s)!Init BY RefineInit
<1>2. TypeOK /\ TableInv /\ ProtocolInv /\ RelayInv /\ [Next]_vars
        => [Relayed(s)!Next]_(Relayed(s)!sessionVars)
  BY RefineStep
<1> QED BY <1>1, <1>2, RelayCorrect, PTL DEF Spec, Relayed!Spec

\* The same of all sessions at once, as the runs check it.
THEOREM SessionsRelayedCorrect == Spec => SessionsRelayed
<1>1. Init => \A s \in Sessions : Relayed(s)!Init BY RefineInit
<1>2. TypeOK /\ TableInv /\ ProtocolInv /\ RelayInv /\ [Next]_vars
        => [\A s \in Sessions : [Relayed(s)!Next]_(Relayed(s)!sessionVars)]_vars
  BY RefineStep
<1> QED BY <1>1, <1>2, RelayCorrect, PTL DEF Spec, SessionsRelayed

=============================================================================
