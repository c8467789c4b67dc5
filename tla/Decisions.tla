------------------------------ MODULE Decisions ------------------------------
(***************************************************************************)
(* The decisions of the code about one input: a request to proxy (Proxy),  *)
(* a close code (CloseCode), bytes to decode or a message to encode        *)
(* (Frames). A behaviour takes one of the four; only a request takes steps.*)
(***************************************************************************)
EXTENDS Proxy, CloseCode, Frames

CONSTANT TestBytes   \* the bytes that ids, payloads and frames are made of

ASSUME TestAssumption == TestBytes \subseteq Byte

VARIABLE input   \* [kind, value] of what is decided at once

vars == <<proxyVars, input>>

\* Strings of bytes; the longest tried are one byte over the limit.
Strings(max) == UNION {[1..n -> TestBytes] : n \in 0..max}
Ids == [1..IdLen -> TestBytes]

NoRequest == [url |-> "bad", method |-> "GET", headers |-> [n \in {} |-> "own"], body |-> "none"]

Init ==
  \/ ProxyInit /\ input = [kind |-> "request", value |-> 0]
  \/ /\ stage = "idle" /\ request = NoRequest /\ hop = NoHop
     /\ visits = <<>> /\ reply = NoReply /\ mishap = "none" /\ answer = Pending
     /\ \/ \E c \in Codes : input = [kind |-> "code", value |-> c]
        \/ \E data \in Strings(HeaderSize + MaxPayload + 1) :
             input = [kind |-> "bytes", value |-> data]
        \/ \E t \in MessageType, id \in Ids, p \in Strings(MaxPayload + 1) :
             input = [kind |-> "message", value |-> Carrying(t, id, p)]
        \/ \E id \in Ids : \E m \in {Ping(id), Pong(id), Close(id)} :
             input = [kind |-> "message", value |-> m]

Next == ProxyNext /\ UNCHANGED input

Spec == Init /\ [][Next]_vars /\ ProxyFairness

-----------------------------------------------------------------------------
\* SafeCode of every code a ws-close may carry: it may be sent, and is the code
\* itself if that may be sent (tunnel.rs:543-548).
CloseCodeSound == input.kind = "code" => CloseCodeKept(input.value)

\* decode undoes encode on every message within the limit, of every type
\* (lib.rs:91-130).
FramesRoundTrip == input.kind = "message" => SurvivesFrame(input.value)

\* decode accepts nothing but frames encode makes: short ones, unknown types and
\* long payloads are rejected (lib.rs:102-130).
FramesRejected == input.kind = "bytes" => DecodesOnlyFrames(input.value)
=============================================================================
