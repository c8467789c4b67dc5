--------------------------- MODULE DecisionProofs ---------------------------
(***************************************************************************)
(* What Proxy, CloseCode and Frames decide, for every request, every code, *)
(* every message and every sequence of bytes, whatever the parameters.     *)
(***************************************************************************)
EXTENDS Decisions, SequenceTheorems, TLAPS

\* No ws-close makes the CLI write a close code that may not be sent, and a code
\* that may be sent is passed on as it is (tunnel.rs:543-548).
THEOREM CloseCodesSound == \A code \in Codes : CloseCodeKept(code)
<1>1. SUFFICES ASSUME NEW code \in Codes PROVE CloseCodeKept(code)
  OBVIOUS
<1> DEFINE Ranges == 1000..4999
<1>2. \A n \in Ranges : n \in U16
  BY DEF U16
<1>3. CASE code = NoCode
  <2>1. code \notin Ranges
    <3> HIDE DEF Ranges
    <3> QED BY <1>2, <1>3, NoCodeAssumption
  <2>2. code \notin ((1000..1014) \ {1004}) \cup 3000..4999 /\ code \notin {1005, 1006, 1015}
    BY <2>1
  <2>3. SafeCode(code) = 1011 BY <2>2 DEF SafeCode
  <2>4. Sendable(1011) BY DEF Sendable, Defined, Markers, Reserved
  <2> QED BY <1>3, <2>3, <2>4, NoCodeAssumption DEF CloseCodeKept
<1>4. CASE code \in U16
  BY <1>4 DEF CloseCodeKept, SafeCode, Sendable, Defined, Markers, Reserved
<1> QED
  BY <1>3, <1>4 DEF Codes

-----------------------------------------------------------------------------
\* The codes of the types differ, so that try_from undoes the cast.
LEMMA TypesDiffer ==
  \A t \in MessageType : Code[t] \in Byte /\ TypeOf(Code[t]) = t
<1>1. \A t, u \in MessageType : Code[t] = Code[u] => t = u
  BY DEF Code, MessageType
<1>2. \A t \in MessageType : Code[t] \in Byte
  BY DEF Code, MessageType, Byte
<1> QED
  BY <1>1, <1>2 DEF TypeOf

\* A header is one byte and the UUID; the payload is what follows.
LEMMA FrameParts ==
  ASSUME NEW m \in Message
  PROVE  /\ Encode(m) \in Seq(Byte) /\ Len(Encode(m)) = HeaderSize + Len(m.payload)
         /\ Encode(m)[1] = Code[m.type]
         /\ \A i \in 1..IdLen : Encode(m)[i + 1] = m.id[i]
         /\ \A i \in 1..Len(m.payload) : Encode(m)[HeaderSize + i] = m.payload[i]
<1>1. IdLen \in Nat /\ HeaderSize = 1 + IdLen
  BY FrameAssumption DEF HeaderSize
<1>2. m.id \in Seq(Byte) /\ Len(m.id) = IdLen
  BY <1>1 DEF Message, Byte
<1>3. m.payload \in Seq(Byte) /\ m.type \in MessageType
  BY DEF Message
<1> DEFINE c == <<Code[m.type]>>
           h == c \o m.id
<1>4. c \in Seq(Byte) /\ Len(c) = 1 /\ c[1] = Code[m.type]
  BY <1>3, TypesDiffer
<1> HIDE DEF c
<1>5. /\ h \in Seq(Byte) /\ Len(h) = Len(c) + Len(m.id)
      /\ \A i \in 1 .. Len(c) + Len(m.id) : h[i] = IF i <= Len(c) THEN c[i] ELSE m.id[i - Len(c)]
  BY <1>2, <1>4, ConcatProperties, ZenonT(30)
<1>6. h[1] = Code[m.type] /\ \A i \in 1..IdLen : h[i + 1] = m.id[i]
  <2>1. 1 \in 1 .. Len(c) + Len(m.id) /\ 1 <= Len(c)
    BY <1>1, <1>2, <1>4
  <2>2. ASSUME NEW i \in 1..IdLen PROVE h[i + 1] = m.id[i]
    <3>1. i + 1 \in 1 .. Len(c) + Len(m.id) /\ ~(i + 1 <= Len(c)) /\ (i + 1) - Len(c) = i
      BY <1>1, <1>2, <1>4
    <3> HIDE DEF h
    <3> QED
      BY <3>1, <1>5
  <2> HIDE DEF h
  <2> QED
    BY <2>1, <2>2, <1>4, <1>5
<1> HIDE DEF h
<1>7. Encode(m) = h \o m.payload
  BY DEF Encode, h, c
<1>8. /\ Encode(m) \in Seq(Byte) /\ Len(Encode(m)) = Len(h) + Len(m.payload)
      /\ \A i \in 1 .. Len(h) + Len(m.payload) :
           Encode(m)[i] = IF i <= Len(h) THEN h[i] ELSE m.payload[i - Len(h)]
  <2>1. /\ h \o m.payload \in Seq(Byte) /\ Len(h \o m.payload) = Len(h) + Len(m.payload)
        /\ \A i \in 1 .. Len(h) + Len(m.payload) :
             (h \o m.payload)[i] = IF i <= Len(h) THEN h[i] ELSE m.payload[i - Len(h)]
    <3>1. h \in Seq(Byte) /\ m.payload \in Seq(Byte)
      BY <1>3, <1>5
    <3> QED
      BY <3>1, ConcatProperties
  <2> QED
    BY <1>7, <2>1, ZenonT(30)
<1>9. Len(m.payload) \in Nat /\ Len(h) = HeaderSize
  BY <1>1, <1>2, <1>3, <1>4, <1>5
<1>10. Encode(m)[1] = Code[m.type] /\ \A i \in 1..IdLen : Encode(m)[i + 1] = m.id[i]
  <2>1. \A i \in 1..HeaderSize : Encode(m)[i] = h[i]
    <3> DEFINE n == Len(m.payload)
    <3>1. \A i \in 1..HeaderSize : i \in 1 .. Len(h) + n /\ i <= Len(h)
      <4>1. n \in Nat /\ Len(h) = HeaderSize
        BY <1>9
      <4> HIDE DEF n
      <4> QED
        BY <4>1, <1>1
    <3> QED
      BY <3>1, <1>8
  <2>2. 1 \in 1..HeaderSize /\ \A i \in 1..IdLen : i + 1 \in 1..HeaderSize
    BY <1>1
  <2> QED
    BY <2>1, <2>2, <1>6
<1>11. \A i \in 1..Len(m.payload) : Encode(m)[HeaderSize + i] = m.payload[i]
  <2>1. SUFFICES ASSUME NEW i \in 1..Len(m.payload) PROVE Encode(m)[HeaderSize + i] = m.payload[i]
    OBVIOUS
  <2>2. /\ HeaderSize + i \in 1 .. Len(h) + Len(m.payload) /\ ~(HeaderSize + i <= Len(h))
        /\ (HeaderSize + i) - Len(h) = i
    BY <1>1, <1>9
  <2> QED
    BY <2>2, <1>8
<1> QED
  BY <1>8, <1>9, <1>10, <1>11

\* A part of a sequence, element by element.
LEMMA PartOf ==
  ASSUME NEW data \in Seq(Byte), NEW from \in Nat, NEW to \in Nat,
         1 <= from, from <= to + 1, to <= Len(data)
  PROVE  /\ SubSeq(data, from, to) \in Seq(Byte)
         /\ Len(SubSeq(data, from, to)) = to - from + 1
         /\ \A i \in 1..to - from + 1 : SubSeq(data, from, to)[i] = data[from + i - 1]
<1>1. \A i \in from..to : data[i] \in Byte
  OBVIOUS
<1> QED
  BY <1>1, SubSeqProperties

\* The sizes of a frame and of its parts.
LEMMA PayloadSize ==
  ASSUME NEW frame, NEW payload, HeaderSize \in Nat, Len(payload) \in Nat,
         Len(frame) = HeaderSize + Len(payload)
  PROVE  /\ Len(frame) \in Nat /\ Len(frame) >= HeaderSize /\ ~(Len(frame) < HeaderSize)
         /\ Len(frame) - HeaderSize = Len(payload)
         /\ Len(frame) - (HeaderSize + 1) + 1 = Len(payload)
         /\ HeaderSize + 1 \in Nat /\ 1 <= HeaderSize + 1
         /\ HeaderSize + 1 <= Len(frame) + 1 /\ Len(frame) <= Len(frame)
         /\ \A i \in 1..Len(payload) : HeaderSize + 1 + i - 1 = HeaderSize + i
<1> DEFINE l == Len(frame)
           n == Len(payload)
<1>1. n \in Nat /\ l = HeaderSize + n /\ HeaderSize \in Nat
  OBVIOUS
<1> HIDE DEF l, n
<1>2. /\ l \in Nat /\ l >= HeaderSize /\ ~(l < HeaderSize)
      /\ l - HeaderSize = n
      /\ l - (HeaderSize + 1) + 1 = n
      /\ HeaderSize + 1 \in Nat /\ 1 <= HeaderSize + 1
      /\ HeaderSize + 1 <= l + 1 /\ l <= l
      /\ \A i \in 1..n : HeaderSize + 1 + i - 1 = HeaderSize + i
  BY <1>1
<1> QED
  BY <1>2 DEF l, n

\* Every message, of every type, comes out of its frame as it went in, or is
\* rejected for the size of its payload alone (lib.rs:91-130).
THEOREM MessagesSurvive == \A m \in Message : SurvivesFrame(m)
<1>1. SUFFICES ASSUME NEW m \in Message PROVE SurvivesFrame(m)
  OBVIOUS
<1> DEFINE data == Encode(m)
<1>2. IdLen \in Nat /\ MaxPayload \in Nat /\ HeaderSize = 1 + IdLen
  BY FrameAssumption DEF HeaderSize
<1>3. /\ data \in Seq(Byte) /\ Len(data) = HeaderSize + Len(m.payload)
      /\ data[1] = Code[m.type]
      /\ \A i \in 1..IdLen : data[i + 1] = m.id[i]
      /\ \A i \in 1..Len(m.payload) : data[HeaderSize + i] = m.payload[i]
  BY FrameParts
<1>4. /\ m.type \in MessageType /\ m.id \in [1..IdLen -> Byte] /\ m.payload \in Seq(Byte)
      /\ m = [type |-> m.type, id |-> m.id, payload |-> m.payload]
  BY DEF Message
<1> HIDE DEF data
<1>5. Len(data) >= HeaderSize /\ Len(m.payload) \in Nat
  BY <1>2, <1>3, <1>4
<1>6. /\ Len(data) \in Nat /\ Len(data) >= HeaderSize /\ ~(Len(data) < HeaderSize)
       /\ Len(data) - HeaderSize = Len(m.payload)
       /\ Len(data) - (HeaderSize + 1) + 1 = Len(m.payload)
       /\ HeaderSize + 1 \in Nat /\ 1 <= HeaderSize + 1
       /\ HeaderSize + 1 <= Len(data) + 1 /\ Len(data) <= Len(data)
       /\ \A i \in 1..Len(m.payload) : HeaderSize + 1 + i - 1 = HeaderSize + i
  <2>1. HeaderSize \in Nat /\ Len(m.payload) \in Nat /\ Len(data) = HeaderSize + Len(m.payload)
    BY <1>2, <1>3, <1>5
  <2> QED
    BY <2>1, PayloadSize, ZenonT(30)
<1>7. ~\A t \in MessageType : Code[t] # data[1]
  BY <1>3, <1>4
<1>8. TypeOf(data[1]) = m.type
  BY <1>3, <1>4, TypesDiffer
<1>9. SubSeq(data, 2, HeaderSize) = m.id
  <2>1. /\ SubSeq(data, 2, HeaderSize) \in Seq(Byte)
        /\ Len(SubSeq(data, 2, HeaderSize)) = IdLen
        /\ \A i \in 1..IdLen : SubSeq(data, 2, HeaderSize)[i] = data[i + 1]
    <3>1. 2 \in Nat /\ HeaderSize \in Nat /\ 1 <= 2 /\ 2 <= HeaderSize + 1 /\ HeaderSize <= Len(data)
      BY <1>2, <1>3, <1>5
    <3>2. HeaderSize - 2 + 1 = IdLen /\ \A i \in 1..IdLen : 2 + i - 1 = i + 1
      BY <1>2
    <3> HIDE DEF data
    <3> QED
      BY <1>3, <3>1, <3>2, PartOf
  <2>2. m.id \in Seq(Byte) /\ Len(m.id) = IdLen
    BY <1>2, <1>4
  <2> QED
    BY <2>1, <2>2, <1>3, SeqEqual
<1>10. SubSeq(data, HeaderSize + 1, Len(data)) = m.payload
  <2> DEFINE rest == SubSeq(data, HeaderSize + 1, Len(data))
  <2>1. /\ rest \in Seq(Byte) /\ Len(rest) = Len(m.payload)
        /\ \A i \in 1..Len(m.payload) : rest[i] = data[HeaderSize + i]
    <3>1. /\ HeaderSize + 1 \in Nat /\ Len(data) \in Nat /\ 1 <= HeaderSize + 1
          /\ HeaderSize + 1 <= Len(data) + 1 /\ Len(data) <= Len(data)
      BY <1>6
    <3>2. /\ Len(data) - (HeaderSize + 1) + 1 = Len(m.payload)
          /\ \A i \in 1..Len(m.payload) : HeaderSize + 1 + i - 1 = HeaderSize + i
      BY <1>6
    <3> QED
      BY <1>3, <3>1, <3>2, PartOf
  <2> HIDE DEF rest
  <2>2. rest = m.payload
    BY <2>1, <1>3, <1>4, SeqEqual
  <2> QED
    BY <2>2 DEF rest
<1>11. Ok([type |-> TypeOf(data[1]), id |-> SubSeq(data, 2, HeaderSize),
            payload |-> SubSeq(data, HeaderSize + 1, Len(data))]) = Ok(m)
  BY <1>4, <1>8, <1>9, <1>10
<1>12. ~(Len(data) < HeaderSize) /\ Len(data) - HeaderSize = Len(m.payload)
  BY <1>6
<1>13. Decode(data) = IF Len(m.payload) <= MaxPayload THEN Ok(m) ELSE Err("PayloadTooLarge")
  <2>1. Decode(data) = IF Len(m.payload) > MaxPayload THEN Err("PayloadTooLarge") ELSE Ok(m)
    BY <1>7, <1>11, <1>12 DEF Decode
  <2>2. Len(m.payload) > MaxPayload <=> ~(Len(m.payload) <= MaxPayload)
    BY <1>2, <1>5
  <2> QED
    BY <2>1, <2>2
<1> QED
  BY <1>13 DEF SurvivesFrame, data

\* Bytes are decoded only if they are the frame of a message within the limit,
\* and then to that message (lib.rs:102-130).
THEOREM OnlyFramesDecode == \A data \in Seq(Byte) : DecodesOnlyFrames(data)
<1>1. SUFFICES ASSUME NEW data \in Seq(Byte), NEW m, Decode(data) = Ok(m)
               PROVE  m \in Message /\ Encode(m) = data /\ Len(m.payload) <= MaxPayload
  <2>1. SUFFICES ASSUME NEW data \in Seq(Byte), NEW f \in DOMAIN Decode(data) \cap {"message"}
                 PROVE  LET m == Decode(data)[f]
                        IN m \in Message /\ Encode(m) = data /\ Len(m.payload) <= MaxPayload
    BY DEF DecodesOnlyFrames
  <2>2. f = "message" /\ "message" \in DOMAIN Decode(data)
    OBVIOUS
  <2>3. \A e : "message" \notin DOMAIN Err(e)
    BY DEF Err
  <2>4. \E m : Decode(data) = Ok(m)
    BY <2>2, <2>3 DEF Decode
  <2>5. \A m : Ok(m)["message"] = m
    BY DEF Ok
  <2> QED
    BY <1>1, <2>2, <2>4, <2>5
<1>2. IdLen \in Nat /\ MaxPayload \in Nat /\ HeaderSize = 1 + IdLen /\ Len(data) \in Nat
  BY FrameAssumption DEF HeaderSize
<1> DEFINE id == SubSeq(data, 2, HeaderSize)
           rest == SubSeq(data, HeaderSize + 1, Len(data))
<1>3. /\ ~(Len(data) < HeaderSize) /\ ~\A t \in MessageType : Code[t] # data[1]
      /\ ~(Len(data) - HeaderSize > MaxPayload)
      /\ m = [type |-> TypeOf(data[1]), id |-> id, payload |-> rest]
  <2>1. \A e, n : Err(e) # Ok(n)
    BY DEF Err, Ok
  <2>2. \A n, k : Ok(n) = Ok(k) => n = k
    <3>1. \A n : Ok(n).message = n
      BY DEF Ok
    <3> QED
      BY <3>1
  <2> QED
    BY <1>1, <2>1, <2>2 DEF Decode
<1>4. /\ id \in Seq(Byte) /\ Len(id) = IdLen /\ \A i \in 1..IdLen : id[i] = data[i + 1]
  BY <1>2, <1>3, PartOf
<1>5. /\ rest \in Seq(Byte) /\ Len(rest) = Len(data) - HeaderSize
      /\ \A i \in 1..Len(data) - HeaderSize : rest[i] = data[HeaderSize + i]
  BY <1>2, <1>3, PartOf
<1> HIDE DEF id, rest
<1>6. PICK t \in MessageType : Code[t] = data[1]
  BY <1>3
<1>7. m.type = t /\ m.id = id /\ m.payload = rest
  BY <1>3, <1>6, TypesDiffer
<1>8. m \in Message
  <2>1. id \in [1..IdLen -> Byte]
    BY <1>4
  <2> QED
    BY <2>1, <1>3, <1>5, <1>6, <1>7 DEF Message
<1>9. /\ Encode(m) \in Seq(Byte) /\ Len(Encode(m)) = Len(data)
      /\ Encode(m)[1] = data[1]
      /\ \A i \in 1..IdLen : Encode(m)[i + 1] = data[i + 1]
      /\ \A i \in 1..Len(data) - HeaderSize : Encode(m)[HeaderSize + i] = data[HeaderSize + i]
  <2>1. /\ Encode(m) \in Seq(Byte) /\ Len(Encode(m)) = HeaderSize + Len(m.payload)
        /\ Encode(m)[1] = Code[m.type]
        /\ \A i \in 1..IdLen : Encode(m)[i + 1] = m.id[i]
        /\ \A i \in 1..Len(m.payload) : Encode(m)[HeaderSize + i] = m.payload[i]
    BY <1>8, FrameParts
  <2>2. HeaderSize + Len(rest) = Len(data)
    BY <1>2, <1>5
  <2> QED
    BY <2>1, <2>2, <1>4, <1>5, <1>6, <1>7
<1>10. \A i \in 1..Len(data) : Encode(m)[i] = data[i]
  <2>1. SUFFICES ASSUME NEW i \in 1..Len(data) PROVE Encode(m)[i] = data[i]
    OBVIOUS
  <2>2. CASE i = 1
    BY <2>2, <1>9
  <2>3. CASE i \in 2..HeaderSize
    <3>1. i - 1 \in 1..IdLen /\ (i - 1) + 1 = i
      BY <2>3, <1>2
    <3> QED
      BY <3>1, <1>9
  <2>4. CASE i > HeaderSize
    <3>1. i - HeaderSize \in 1..Len(data) - HeaderSize /\ HeaderSize + (i - HeaderSize) = i
      BY <2>4, <1>2
    <3> QED
      BY <3>1, <1>9
  <2> QED
    BY <2>2, <2>3, <2>4, <1>2
<1>11. Encode(m) = data
  BY <1>9, <1>10, SeqEqual
<1> QED
  BY <1>2, <1>3, <1>5, <1>7, <1>8, <1>11

-----------------------------------------------------------------------------
\* What every request that leaves the CLI is like.
Sent(h) ==
  /\ h \in Hop
  /\ h.method \in {"GET", "HEAD"} => h.body = "none"
  /\ "accept-encoding" \in DOMAIN h.headers
  /\ h.headers["accept-encoding"] = "rewritten"
  /\ DOMAIN h.headers \cap Dropped = {}

Underway == {"sending", "waiting", "reading"}

\* The request in hand continues the visits: a body was never lost before it.
Outgoing ==
  stage = "sending" =>
    /\ Len(visits) <= MaxRedirects
    /\ visits = <<>> \/ Redirects(reply)
    /\ hop.body = "bytes" => \A j \in DOMAIN visits : visits[j].body = "bytes"
    /\ visits = <<>> => hop.method = request.method /\ hop.body = ForwardedBody(request)

ProxyInv ==
  /\ ProxyTypeOK
  /\ stage \in {"idle", "new"} => visits = <<>>
  /\ stage \in Underway => request.url = "good" /\ request.method \in Methods
  /\ stage \in {"sending", "waiting"} => Sent(hop)
  /\ Outgoing
  /\ stage = "waiting" => visits # <<>> /\ visits[Len(visits)] = hop
  /\ stage \in {"sending", "waiting"} => ~Headed
  /\ stage \in {"idle", "new"} => reply = NoReply
  /\ stage # "answered" => mishap = "none"
  /\ stage = "reading" => visits # <<>> /\ reply \in Replies /\ Headed
  /\ \A i \in DOMAIN visits : Sent(visits[i])
  /\ BodiesWhereTheyBelong
  /\ AnswerTellsWhatHappened

\* No server's response is taken for none.
LEMMA NoReplyIsNone == NoReply \notin Replies
<1>1. NoReply.status \notin 100..999 /\ \A r \in Reply : r.status \in 100..999
  BY DEF NoReply, Reply
<1> QED
  BY <1>1, ProxyAssumption

LEMMA ProxyStarts == ProxyInit => ProxyInv
<1>1. SUFFICES ASSUME ProxyInit PROVE ProxyInv
  OBVIOUS
<1>2. ProxyTypeOK
  BY <1>1, ProxyAssumption DEF ProxyInit, ProxyTypeOK, Pending
<1>3. stage = "new" /\ visits = <<>> /\ reply = NoReply /\ mishap = "none"
  BY <1>1 DEF ProxyInit
<1>4. DOMAIN visits = {}
  BY <1>3
<1> QED
  BY <1>2, <1>3, <1>4 DEF ProxyInv, Outgoing, Underway, BodiesWhereTheyBelong, AnswerTellsWhatHappened

\* The proxy gives up with an answer of its own.
LEMMA ProxyEnds ==
  ASSUME ProxyInv, stage \in Underway,
         stage' = "answered", answer'.status \in {502, 504}, answer'.by # "server",
         request' = request, hop' = hop, visits' = visits, reply' \in Replies \cup {NoReply},
         mishap' \in {"unreachable", "late", "broken"},
         answer'.by = "down_page" <=> mishap' = "unreachable",
         answer'.by = "proxy" /\ answer'.status = 504 <=> mishap' = "late" /\ ~Headed',
         answer'.by = "down_page" => visits = <<>> \/ Redirects(reply')
  PROVE  ProxyInv'
<1>2. ProxyTypeOK'
  <2>2. ProxyTypeOK
    BY DEF ProxyInv
  <2> QED
    BY <2>2 DEF ProxyTypeOK
<1>3. (\A i \in DOMAIN visits : Sent(visits[i]))' /\ BodiesWhereTheyBelong'
  <2>1. (\A i \in DOMAIN visits : Sent(visits[i])) /\ BodiesWhereTheyBelong
    BY DEF ProxyInv
  <2>2. BodiesWhereTheyBelong'
    BY <2>1 DEF BodiesWhereTheyBelong
  <2>3. (\A i \in DOMAIN visits : Sent(visits[i]))'
    BY <2>1 DEF Sent
  <2> QED
    BY <2>2, <2>3
<1>4. AnswerTellsWhatHappened'
  <2>1. request.url = "good" /\ request.method # "unsupported"
    BY DEF ProxyInv, Methods
  <2>2. answer'.status # 400
    OBVIOUS
  <2> QED
    BY <2>1, <2>2 DEF AnswerTellsWhatHappened
<1> QED
  BY <1>2, <1>3, <1>4 DEF ProxyInv, Outgoing, Underway

\* What is forwarded first.
LEMMA ForwardSends == ASSUME ProxyInv, Forward PROVE Sent(hop')
<1>1. /\ request \in Request /\ request.method \in Methods
      /\ hop' = [to |-> "app", method |-> request.method, body |-> ForwardedBody(request),
                 headers |-> Forwarded(request.headers)]
  BY DEF ProxyInv, ProxyTypeOK, Forward
<1>2. PICK S \in SUBSET Names : request.headers \in [S -> {"own"}]
  BY <1>1 DEF Request
<1> DEFINE T == (S \ Dropped) \cup {"accept-encoding"}
<1>3. /\ Forwarded(request.headers) \in [T -> {"own", "rewritten"}]
      /\ Forwarded(request.headers)["accept-encoding"] = "rewritten"
  BY <1>2 DEF Forwarded
<1>4. T \in SUBSET (Names \cup {"accept-encoding"}) /\ T \cap Dropped = {}
  BY <1>2 DEF Dropped
<1>5. Forwarded(request.headers) \in
        UNION {[U -> {"own", "rewritten"}] : U \in SUBSET (Names \cup {"accept-encoding"})}
  BY <1>3, <1>4
<1>6. DOMAIN Forwarded(request.headers) = T
  BY <1>3
<1>7. ForwardedBody(request) \in Bodies
  BY DEF ForwardedBody, Bodies
<1>8. request.method \in {"GET", "HEAD"} => ForwardedBody(request) = "none"
  BY DEF ForwardedBody
<1>9. hop' \in Hop
  BY <1>1, <1>5, <1>7 DEF Hop
<1> QED
  BY <1>1, <1>3, <1>4, <1>6, <1>8, <1>9 DEF Sent

\* What a redirect makes of it.
LEMMA FollowSends ==
  ASSUME ProxyInv, NEW r \in Replies, Follow(r)
  PROVE  Sent(hop') /\ (hop'.body = "bytes" => hop.body = "bytes")
<1>1. /\ Sent(hop) /\ hop \in Hop /\ hop' = Redirected(r)
      /\ r.to \in {"app", "elsewhere"}
  BY ProxyAssumption DEF ProxyInv, Follow, Sent, Redirects, Reply
<1>2. PICK S \in SUBSET (Names \cup {"accept-encoding"}) : hop.headers \in [S -> {"own", "rewritten"}]
  BY <1>1 DEF Hop
<1> DEFINE kept == [n \in DOMAIN hop.headers \ {"authorization", "cookie"} |-> hop.headers[n]]
<1>3. /\ kept \in [S \ {"authorization", "cookie"} -> {"own", "rewritten"}]
      /\ "accept-encoding" \in DOMAIN kept /\ kept["accept-encoding"] = "rewritten"
      /\ DOMAIN kept \cap Dropped = {}
  BY <1>1, <1>2 DEF Sent
<1>4. S \ {"authorization", "cookie"} \in SUBSET (Names \cup {"accept-encoding"})
  BY <1>2
<1>5. kept \in UNION {[U -> {"own", "rewritten"}] : U \in SUBSET (Names \cup {"accept-encoding"})}
  BY <1>3, <1>4
<1> HIDE DEF kept
<1>6. /\ hop'.to = r.to
      /\ hop'.method = IF r.status \in {307, 308} \/ hop.method = "HEAD" THEN hop.method ELSE "GET"
      /\ hop'.body = IF r.status \in {307, 308} THEN hop.body ELSE "none"
      /\ hop'.headers = IF r.to = hop.to THEN hop.headers ELSE kept
      /\ hop' = [to |-> hop'.to, method |-> hop'.method, body |-> hop'.body, headers |-> hop'.headers]
  BY <1>1 DEF Redirected, kept
<1>7. /\ hop.method \in Methods /\ hop.body \in Bodies
      /\ hop.headers \in UNION {[U -> {"own", "rewritten"}] : U \in SUBSET (Names \cup {"accept-encoding"})}
  BY <1>1 DEF Hop
<1>8. hop'.method \in Methods /\ hop'.body \in Bodies
  BY <1>6, <1>7 DEF Methods, Bodies
<1>9. hop'.headers \in UNION {[U -> {"own", "rewritten"}] : U \in SUBSET (Names \cup {"accept-encoding"})}
  BY <1>5, <1>6, <1>7
<1>10. hop' \in Hop
  BY <1>1, <1>6, <1>8, <1>9 DEF Hop
<1>11. hop'.method \in {"GET", "HEAD"} => hop'.body = "none"
  BY <1>1, <1>6 DEF Sent
<1>12. /\ "accept-encoding" \in DOMAIN hop'.headers
       /\ hop'.headers["accept-encoding"] = "rewritten"
       /\ DOMAIN hop'.headers \cap Dropped = {}
  BY <1>1, <1>3, <1>6 DEF Sent
<1> QED
  BY <1>6, <1>10, <1>11, <1>12 DEF Sent

\* A server's complete response is answered with its status and, for each
\* name, the value of its last line.
LEMMA LastValueKept ==
  ASSUME NEW lines \in Seq(STRING \X STRING), NEW i \in DOMAIN lines,
         \A j \in DOMAIN lines : j > i => lines[j][1] # lines[i][1]
  PROVE  Collected(lines)[lines[i][1]] = lines[i][2]
<1> DEFINE same == {k \in DOMAIN lines : lines[k][1] = lines[i][1]}
<1>1. DOMAIN lines \subseteq Int
  OBVIOUS
<1>2. i \in same /\ \A k \in same : i >= k
  BY <1>1
<1>3. \A x \in same : (\A y \in same : x >= y) => x = i
  BY <1>1, <1>2
<1>4. Max(same) = i
  BY <1>2, <1>3 DEF Max
<1>5. lines[i][1] \in {lines[k][1] : k \in DOMAIN lines}
  OBVIOUS
<1> QED
  BY <1>4, <1>5 DEF Collected

LEMMA ProxyStep == ProxyInv /\ [ProxyNext]_proxyVars => ProxyInv'
<1>1. SUFFICES ASSUME ProxyInv, [ProxyNext]_proxyVars PROVE ProxyInv'
  OBVIOUS
<1>2. CASE Reject
  <2>1. /\ stage = "new" /\ (request.url = "bad" \/ request.method \notin Methods)
        /\ stage' = "answered" /\ answer' = [by |-> "proxy", status |-> 400, headers |-> <<>>]
        /\ request' = request /\ hop' = hop /\ visits' = visits /\ reply' = reply
        /\ mishap' = mishap
    BY <1>2 DEF Reject, Answer
  <2>2. visits = <<>> /\ request \in Request /\ ProxyTypeOK /\ mishap = "none"
    BY <1>1, <2>1 DEF ProxyInv, ProxyTypeOK
  <2>3. request.url = "bad" \/ request.method = "unsupported"
    BY <2>1, <2>2 DEF Request
  <2>4. AnswerTellsWhatHappened'
    BY <2>1, <2>2, <2>3 DEF AnswerTellsWhatHappened
  <2>5. ProxyTypeOK'
    BY <2>1, <2>2 DEF ProxyTypeOK
  <2>6. BodiesWhereTheyBelong' /\ (\A i \in DOMAIN visits : Sent(visits[i]))'
    BY <2>1, <2>2 DEF BodiesWhereTheyBelong
  <2> QED
    BY <2>1, <2>4, <2>5, <2>6 DEF ProxyInv, Outgoing, Underway
<1>3. CASE Forward
  <2>1. /\ stage = "new" /\ request.url = "good" /\ request.method \in Methods
        /\ hop'.method = request.method /\ hop'.body = ForwardedBody(request)
        /\ stage' = "sending"
        /\ request' = request /\ visits' = visits /\ reply' = reply /\ answer' = answer
        /\ mishap' = mishap
    BY <1>3 DEF Forward
  <2>2. visits = <<>> /\ ProxyTypeOK /\ MaxRedirects \in Nat /\ reply = NoReply /\ mishap = "none"
    BY <1>1, <2>1, ProxyAssumption DEF ProxyInv
  <2>3. Sent(hop')
    BY <1>1, <1>3, ForwardSends
  <2>4. hop' \in Hop
    BY <2>3 DEF Sent
  <2>5. ProxyTypeOK'
    BY <2>1, <2>2, <2>4 DEF ProxyTypeOK
  <2>6. BodiesWhereTheyBelong' /\ (\A i \in DOMAIN visits : Sent(visits[i]))'
    BY <2>1, <2>2 DEF BodiesWhereTheyBelong
  <2>7. Outgoing'
    BY <2>1, <2>2 DEF Outgoing, ForwardedBody
  <2>8. AnswerTellsWhatHappened'
    BY <2>1 DEF AnswerTellsWhatHappened
  <2>9. Sent(hop)'
    BY <2>3 DEF Sent
  <2> QED
    BY <2>1, <2>2, <2>5, <2>6, <2>7, <2>8, <2>9 DEF ProxyInv, Underway, Headed
<1>4. CASE Arrive
  <2>1. /\ stage = "sending" /\ stage' = "waiting" /\ visits' = Append(visits, hop)
        /\ request' = request /\ hop' = hop /\ reply' = reply /\ answer' = answer
        /\ mishap' = mishap
    BY <1>4 DEF Arrive
  <2>2. /\ ProxyTypeOK /\ Sent(hop) /\ Outgoing /\ BodiesWhereTheyBelong
        /\ \A i \in DOMAIN visits : Sent(visits[i])
        /\ request.url = "good" /\ request.method \in Methods /\ ~Headed /\ mishap = "none"
    BY <1>1, <2>1 DEF ProxyInv, Underway
  <2>3. hop \in Hop /\ visits \in Seq(Hop) /\ Len(visits) <= MaxRedirects /\ MaxRedirects \in Nat
    BY <2>1, <2>2, ProxyAssumption DEF Sent, ProxyTypeOK, Outgoing
  <2>4. /\ visits' \in Seq(Hop) /\ Len(visits') = Len(visits) + 1
        /\ \A i \in 1..Len(visits) : visits'[i] = visits[i]
        /\ visits'[Len(visits) + 1] = hop
        /\ DOMAIN visits = 1..Len(visits) /\ DOMAIN visits' = 1..Len(visits) + 1
    BY <2>1, <2>3
  <2>5. ProxyTypeOK'
    BY <2>1, <2>2, <2>3, <2>4 DEF ProxyTypeOK
  <2>6. \A i \in DOMAIN visits' : i \in DOMAIN visits \/ i = Len(visits) + 1
    BY <2>3, <2>4
  <2>7. \A i \in DOMAIN visits' : Sent(visits'[i])
    BY <2>2, <2>4, <2>6
  <2>8. BodiesWhereTheyBelong'
    <3>1. SUFFICES ASSUME NEW i \in DOMAIN visits'
                   PROVE  /\ visits'[i].method \in {"GET", "HEAD"} => visits'[i].body = "none"
                          /\ visits'[i].body = "bytes" => \A j \in 1..i : visits'[j].body = "bytes"
                          /\ i = 1 /\ visits'[i].method = "POST" /\ request.body = "bytes" =>
                               visits'[i].body = "bytes"
      BY <2>1 DEF BodiesWhereTheyBelong
    <3>2. CASE i \in DOMAIN visits
      <4>1. \A j \in 1..i : j \in 1..Len(visits) /\ visits'[j] = visits[j]
        BY <2>3, <2>4, <3>2
      <4>2. visits'[i] = visits[i]
        BY <2>4, <3>2
      <4> QED
        BY <2>2, <3>2, <4>1, <4>2 DEF BodiesWhereTheyBelong
    <3>3. CASE i = Len(visits) + 1
      <4>1. visits'[i] = hop
        BY <2>4, <3>3
      <4>2. hop.method \in {"GET", "HEAD"} => hop.body = "none"
        BY <2>2 DEF Sent
      <4>3. hop.body = "bytes" => \A j \in 1..i : visits'[j].body = "bytes"
        <5>1. \A j \in 1..i : j \in DOMAIN visits \/ j = i
          BY <2>3, <2>4, <3>3
        <5> QED
          BY <2>1, <2>2, <2>4, <3>3, <4>1, <5>1 DEF Outgoing
      <4>4. i = 1 => visits = <<>>
        BY <2>3, <3>3
      <4>5. i = 1 /\ hop.method = "POST" /\ request.body = "bytes" => hop.body = "bytes"
        BY <2>1, <2>2, <4>4 DEF Outgoing, ForwardedBody
      <4> QED
        BY <4>1, <4>2, <4>3, <4>5
    <3> QED
      BY <2>6, <3>2, <3>3
  <2>9. AnswerTellsWhatHappened'
    BY <2>1 DEF AnswerTellsWhatHappened
  <2>10. visits' # <<>> /\ visits'[Len(visits')] = hop'
    BY <2>1, <2>3, <2>4
  <2>11. Sent(hop)' /\ (\A i \in DOMAIN visits : Sent(visits[i]))'
    BY <2>1, <2>2, <2>7 DEF Sent
  <2>12. request'.url = "good" /\ request'.method \in Methods
    BY <2>1, <2>2
  <2>13. ~Headed' /\ mishap' = "none"
    BY <2>1, <2>2 DEF Headed
  <2> QED
    BY <2>1, <2>5, <2>8, <2>9, <2>10, <2>11, <2>12, <2>13 DEF ProxyInv, Outgoing, Underway
<1>5. ASSUME NEW r \in Replies, Follow(r) PROVE ProxyInv'
  <2>1. /\ stage = "waiting" /\ Redirects(r) /\ Len(visits) <= MaxRedirects
        /\ stage' = "sending" /\ reply' = r
        /\ request' = request /\ visits' = visits /\ answer' = answer /\ mishap' = mishap
    BY <1>5 DEF Follow
  <2>2. /\ ProxyTypeOK /\ BodiesWhereTheyBelong /\ visits # <<>> /\ visits[Len(visits)] = hop
        /\ \A i \in DOMAIN visits : Sent(visits[i])
        /\ request.url = "good" /\ request.method \in Methods /\ mishap = "none"
    BY <1>1, <2>1 DEF ProxyInv, Underway
  <2>3. Sent(hop') /\ (hop'.body = "bytes" => hop.body = "bytes")
    BY <1>1, <1>5, FollowSends
  <2>4. ProxyTypeOK'
    BY <2>1, <2>2, <2>3 DEF ProxyTypeOK, Sent
  <2>5. hop.body = "bytes" => \A j \in DOMAIN visits : visits[j].body = "bytes"
    <3>1. visits \in Seq(Hop) /\ Len(visits) \in DOMAIN visits /\ DOMAIN visits = 1..Len(visits)
      BY <2>2 DEF ProxyTypeOK
    <3> QED
      BY <2>2, <3>1 DEF BodiesWhereTheyBelong
  <2>6. Outgoing'
    BY <2>1, <2>2, <2>3, <2>5 DEF Outgoing, Redirects
  <2>7. Sent(hop)' /\ (\A i \in DOMAIN visits : Sent(visits[i]))' /\ BodiesWhereTheyBelong'
    BY <2>1, <2>2, <2>3 DEF Sent, BodiesWhereTheyBelong
  <2>8. AnswerTellsWhatHappened'
    BY <2>1 DEF AnswerTellsWhatHappened
  <2>9. ~Headed' /\ mishap' = "none"
    BY <2>1, <2>2 DEF Headed, Redirects
  <2> QED
    BY <2>1, <2>2, <2>4, <2>6, <2>7, <2>8, <2>9 DEF ProxyInv, Underway
<1>6. ASSUME NEW r \in Replies, Respond(r) PROVE ProxyInv'
  <2>1. /\ stage = "waiting" /\ ~Redirects(r) /\ stage' = "reading" /\ reply' = r
        /\ request' = request /\ visits' = visits /\ hop' = hop /\ answer' = answer
        /\ mishap' = mishap
    BY <1>6 DEF Respond
  <2>2. /\ ProxyTypeOK /\ BodiesWhereTheyBelong /\ visits # <<>>
        /\ \A i \in DOMAIN visits : Sent(visits[i])
        /\ request.url = "good" /\ request.method \in Methods /\ mishap = "none"
    BY <1>1, <2>1 DEF ProxyInv, Underway
  <2>3. ProxyTypeOK'
    BY <2>1, <2>2 DEF ProxyTypeOK
  <2>4. (\A i \in DOMAIN visits : Sent(visits[i]))' /\ BodiesWhereTheyBelong'
    BY <2>1, <2>2 DEF Sent, BodiesWhereTheyBelong
  <2>5. AnswerTellsWhatHappened'
    BY <2>1 DEF AnswerTellsWhatHappened
  <2>6. Headed' /\ mishap' = "none"
    BY <2>1, <2>2, NoReplyIsNone DEF Redirects, Headed
  <2> QED
    BY <2>1, <2>2, <2>3, <2>4, <2>5, <2>6 DEF ProxyInv, Outgoing, Underway
<1>7. CASE ReadBody
  <2>1. /\ stage = "reading" /\ stage' = "answered"
        /\ answer' = [by |-> "server", status |-> reply.status, headers |-> Collected(reply.lines)]
        /\ request' = request /\ visits' = visits /\ hop' = hop /\ reply' = reply
        /\ mishap' = mishap
    BY <1>7 DEF ReadBody, Answer
  <2>2. /\ ProxyTypeOK /\ BodiesWhereTheyBelong /\ visits # <<>> /\ Headed /\ mishap = "none"
        /\ \A i \in DOMAIN visits : Sent(visits[i])
        /\ request.url = "good" /\ request.method \in Methods /\ reply \in Reply
    BY <1>1, <2>1, ProxyAssumption DEF ProxyInv, Underway
  <2>3. reply.status \in 100..999 /\ reply.lines \in Seq(STRING \X STRING)
    BY <2>2 DEF Reply
  <2>4. ProxyTypeOK'
    BY <2>1, <2>2, <2>3 DEF ProxyTypeOK
  <2>5. (\A i \in DOMAIN visits : Sent(visits[i]))' /\ BodiesWhereTheyBelong'
    BY <2>1, <2>2 DEF Sent, BodiesWhereTheyBelong
  <2>6. \A i \in DOMAIN reply.lines :
          (\A j \in DOMAIN reply.lines : j > i => reply.lines[j][1] # reply.lines[i][1]) =>
            Collected(reply.lines)[reply.lines[i][1]] = reply.lines[i][2]
    BY <2>3, LastValueKept
  <2>7. AnswerTellsWhatHappened'
    <3>1. /\ answer'.by = "server" /\ answer'.status = reply.status
          /\ answer'.headers = Collected(reply.lines)
          /\ mishap' = "none" /\ visits' # <<>>
          /\ request.url # "bad" /\ request.method # "unsupported"
      BY <2>1, <2>2 DEF Methods
    <3>2. Headed'
      BY <2>1, <2>2 DEF Headed, Redirects
    <3> QED
      BY <2>1, <2>2, <2>6, <3>1, <3>2 DEF AnswerTellsWhatHappened
  <2> QED
    BY <2>1, <2>4, <2>5, <2>7 DEF ProxyInv, Outgoing, Underway
<1>8. CASE Refused
  <2>1. /\ stage = "sending" /\ request' = request /\ hop' = hop /\ visits' = visits /\ reply' = reply
        /\ stage' = "answered" /\ answer' = [by |-> "down_page", status |-> 502, headers |-> <<>>]
        /\ mishap' = "unreachable"
    BY <1>8 DEF Refused, Failed, DownPage, Answer
  <2>2. reply' \in Replies \cup {NoReply} /\ (visits = <<>> \/ Redirects(reply'))
    BY <1>1, <2>1 DEF ProxyInv, ProxyTypeOK, Outgoing
  <2>3. /\ answer'.by = "down_page" /\ answer'.status = 502 /\ stage \in Underway
    BY <2>1 DEF Underway
  <2> QED
    BY <1>1, <2>1, <2>2, <2>3, ProxyEnds
<1>9. CASE Broken \/ TooManyRedirects \/ BodyBreaks \/ TimesOut
  <2>1. /\ stage \in Underway /\ stage' = "answered"
        /\ request' = request /\ hop' = hop /\ visits' = visits
    BY <1>9 DEF Broken, TooManyRedirects, BodyBreaks, TimesOut, Failed, DownPage, Answer,
       Underway
  <2>2. reply' \in Replies \cup {NoReply}
    BY <1>1, <1>9 DEF Broken, TooManyRedirects, BodyBreaks, TimesOut, ProxyInv, ProxyTypeOK
  <2>3. \/ mishap' = "broken" /\ answer' = [by |-> "proxy", status |-> 502, headers |-> <<>>]
        \/ /\ mishap' = "late" /\ answer' = [by |-> "proxy", status |-> 504, headers |-> <<>>]
           /\ stage \in {"sending", "waiting"} /\ reply' = reply
        \/ /\ mishap' = "late" /\ answer' = [by |-> "proxy", status |-> 502, headers |-> <<>>]
           /\ stage = "reading" /\ reply' = reply
    BY <1>9 DEF Broken, TooManyRedirects, BodyBreaks, TimesOut, Failed, DownPage, Answer
  <2>4. /\ answer'.by = "proxy" /\ mishap' \in {"late", "broken"} /\ answer'.status \in {502, 504}
    BY <2>3
  <2>5. answer'.status = 504 <=> mishap' = "late" /\ ~Headed'
    <3>1. reply' = reply => (Headed' <=> Headed)
      BY DEF Headed, Redirects
    <3>2. /\ stage \in {"sending", "waiting"} => ~Headed
          /\ stage = "reading" => Headed
      BY <1>1 DEF ProxyInv
    <3> QED
      BY <2>3, <3>1, <3>2
  <2> QED
    BY <1>1, <2>1, <2>2, <2>4, <2>5, ProxyEnds
<1>10. CASE UNCHANGED proxyVars
  BY <1>1, <1>10 DEF proxyVars, ProxyInv, ProxyTypeOK, Outgoing, BodiesWhereTheyBelong,
                     AnswerTellsWhatHappened, Sent, Underway, Redirects, Headed
<1> QED
  BY <1>1, <1>2, <1>3, <1>4, <1>5, <1>6, <1>7, <1>8, <1>9, <1>10 DEF ProxyNext

LEMMA ProxyInvariant == ProxySpec => []ProxyInv
  BY ProxyStarts, ProxyStep, PTL DEF ProxySpec

\* The variables of a request keep their types, and no more than the allowed
\* redirects are followed.
THEOREM ProxyTypeCorrect == ProxySpec => []ProxyTypeOK
<1>1. ProxyInv => ProxyTypeOK
  BY DEF ProxyInv
<1> QED
  BY <1>1, ProxyInvariant, PTL

\* A body reaches the application if and only if its method may carry it,
\* through any number of redirects (proxy.rs:88-93).
THEOREM ProxyBodiesBelong == ProxySpec => []BodiesWhereTheyBelong
<1>1. ProxyInv => BodiesWhereTheyBelong
  BY DEF ProxyInv
<1> QED
  BY <1>1, ProxyInvariant, PTL

\* Every request any server sees is stripped of the hop-by-hop headers and asks
\* for an encoding the Worker can undo (proxy.rs:50-86).
THEOREM ProxyRewrites == ProxySpec => []RequestsRewritten
<1>1. ProxyInv => RequestsRewritten
  BY DEF ProxyInv, RequestsRewritten, Sent
<1> QED
  BY <1>1, ProxyInvariant, PTL

\* The status and the headers of the answer say what became of the request
\* (proxy.rs:32-47, 95-126).
THEOREM ProxyAnswersTruly == ProxySpec => []AnswerTellsWhatHappened
<1>1. ProxyInv => AnswerTellsWhatHappened
  BY DEF ProxyInv
<1> QED
  BY <1>1, ProxyInvariant, PTL

-----------------------------------------------------------------------------
(* The inputs of a behaviour of Decisions *)

LEMMA StringsOfBytes ==
  ASSUME NEW max \in Nat, NEW data \in Strings(max)
  PROVE  data \in Seq(Byte)
<1>1. PICK n \in 0..max : data \in [1..n -> TestBytes]
  BY DEF Strings
<1>2. data \in [1..n -> Byte]
  BY <1>1, TestAssumption
<1> QED
  BY <1>1, <1>2

\* What is encoded is a message, whichever constructor made it.
LEMMA ConstructedMessages ==
  ASSUME NEW id \in Ids
  PROVE  /\ {Ping(id), Pong(id), Close(id)} \subseteq Message
         /\ \A t \in MessageType, p \in Seq(Byte) : Carrying(t, id, p) \in Message
<1>1. id \in [1..IdLen -> Byte]
  BY TestAssumption DEF Ids
<1>2. "Ping" \in MessageType /\ "Pong" \in MessageType /\ "Close" \in MessageType
  BY DEF MessageType, Code
<1>3. <<>> \in Seq(Byte)
  OBVIOUS
<1> QED
  BY <1>1, <1>2, <1>3 DEF Message, Ping, Pong, Close, Carrying

InputTyped ==
  /\ input.kind = "code" => input.value \in Codes
  /\ input.kind = "bytes" => input.value \in Seq(Byte)
  /\ input.kind = "message" => input.value \in Message

LEMMA InputStarts == Init => InputTyped
<1>1. SUFFICES ASSUME Init PROVE InputTyped
  OBVIOUS
<1>2. HeaderSize + MaxPayload + 1 \in Nat /\ MaxPayload + 1 \in Nat
  BY FrameAssumption DEF HeaderSize
<1>3. CASE input = [kind |-> "request", value |-> 0]
  BY <1>3 DEF InputTyped
<1>4. CASE \E c \in Codes : input = [kind |-> "code", value |-> c]
  BY <1>4 DEF InputTyped
<1>5. ASSUME NEW data \in Strings(HeaderSize + MaxPayload + 1),
             input = [kind |-> "bytes", value |-> data]
      PROVE  InputTyped
  BY <1>2, <1>5, StringsOfBytes DEF InputTyped
<1>6. ASSUME NEW m \in Message, input = [kind |-> "message", value |-> m] PROVE InputTyped
  BY <1>6 DEF InputTyped
<1>7. ASSUME NEW t \in MessageType, NEW id \in Ids, NEW p \in Strings(MaxPayload + 1)
      PROVE  Carrying(t, id, p) \in Message
  BY <1>2, StringsOfBytes, ConstructedMessages
<1> QED
  BY <1>1, <1>3, <1>4, <1>5, <1>6, <1>7, ConstructedMessages DEF Init

LEMMA InputKept == Spec => []InputTyped
<1>1. InputTyped /\ [Next]_vars => InputTyped'
  BY DEF Next, vars, InputTyped
<1> QED
  BY <1>1, InputStarts, PTL DEF Spec

\* For every u16 and for none: what SafeCode makes of it may be sent, and is the
\* code itself whenever that may (tunnel.rs:543-548).
THEOREM CloseCodeCorrect == Spec => []CloseCodeSound
<1>1. InputTyped => CloseCodeSound
  BY CloseCodesSound DEF InputTyped, CloseCodeSound
<1> QED
  BY <1>1, InputKept, PTL

\* Every message comes out of its frame as it went in, for any sizes of the id and
\* of the payload, or is rejected for its length (lib.rs:91-130).
THEOREM RoundTripCorrect == Spec => []FramesRoundTrip
<1>1. InputTyped => FramesRoundTrip
  BY MessagesSurvive DEF InputTyped, FramesRoundTrip
<1> QED
  BY <1>1, InputKept, PTL

\* Whatever bytes arrive, decode accepts only what encode makes (lib.rs:102-130).
THEOREM RejectionCorrect == Spec => []FramesRejected
<1>1. InputTyped => FramesRejected
  BY OnlyFramesDecode DEF InputTyped, FramesRejected
<1> QED
  BY <1>1, InputKept, PTL
=============================================================================
