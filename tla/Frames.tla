------------------------------- MODULE Frames -------------------------------
(***************************************************************************)
(* The binary frames of crates/protocol: one byte for the type, the UUID   *)
(* of the request, and the payload, which is the rest. The sizes are       *)
(* parameters: 16 bytes of UUID and a payload of 10 MB in the code.        *)
(***************************************************************************)
EXTENDS Integers, Sequences

CONSTANTS
  IdLen,        \* the bytes of a UUID
  MaxPayload    \* MAX_PAYLOAD_SIZE

ASSUME FrameAssumption == IdLen \in Nat /\ MaxPayload \in Nat

HeaderSize == 1 + IdLen
Byte == 0..255

\* #[repr(u8)] enum MessageType
Code == [Auth |-> 1, AuthOk |-> 2, AuthFail |-> 3, HttpRequest |-> 16, HttpResponse |-> 17,
         Ping |-> 32, Pong |-> 33, Error |-> 48, Close |-> 64]

MessageType == DOMAIN Code
Message == [type : MessageType, id : [1..IdLen -> Byte], payload : Seq(Byte)]

\* Mutant: a code of the table is mistyped, a copy of the one before.
TypeOf_Duplicate(byte) ==
  IF byte = 33 THEN "Ping" ELSE CHOOSE t \in MessageType : Code[t] = byte

\* MessageType::try_from
TypeOf(byte) == CHOOSE t \in MessageType : Code[t] = byte

Ping(id) == [type |-> "Ping", id |-> id, payload |-> <<>>]
Pong(id) == [type |-> "Pong", id |-> id, payload |-> <<>>]
Close(id) == [type |-> "Close", id |-> id, payload |-> <<>>]
\* auth, auth_ok, auth_fail, error, http_request, http_response
Carrying(type, id, bytes) == [type |-> type, id |-> id, payload |-> bytes]

Encode(m) == <<Code[m.type]>> \o m.id \o m.payload

Err(e) == [error |-> e]
Ok(m) == [message |-> m]

\* Mutant: the limit is compared with the whole frame.
Decode_LimitsFrame(data) ==
  IF Len(data) < HeaderSize THEN Err("InsufficientData")
  ELSE IF \A t \in MessageType : Code[t] # data[1] THEN Err("InvalidMessageType")
  ELSE IF Len(data) > MaxPayload THEN Err("PayloadTooLarge")
  ELSE Ok([type |-> TypeOf(data[1]), id |-> SubSeq(data, 2, HeaderSize),
           payload |-> SubSeq(data, HeaderSize + 1, Len(data))])

Decode(data) ==
  IF Len(data) < HeaderSize THEN Err("InsufficientData")
  ELSE IF \A t \in MessageType : Code[t] # data[1] THEN Err("InvalidMessageType")
  ELSE IF Len(data) - HeaderSize > MaxPayload THEN Err("PayloadTooLarge")
  ELSE Ok([type |-> TypeOf(data[1]), id |-> SubSeq(data, 2, HeaderSize),
           payload |-> SubSeq(data, HeaderSize + 1, Len(data))])

\* A message comes out of its frame as it went in, if its payload is within the
\* limit, which encode does not test (lib.rs:88-130).
SurvivesFrame(m) ==
  Decode(Encode(m)) = IF Len(m.payload) <= MaxPayload THEN Ok(m) ELSE Err("PayloadTooLarge")

\* Bytes that decode are the frame of the message they decode to: nothing is
\* skipped, read twice or left over; all others are rejected.
DecodesOnlyFrames(data) ==
  \A m \in {Decode(data)[f] : f \in DOMAIN Decode(data) \cap {"message"}} :
    m \in Message /\ Encode(m) = data /\ Len(m.payload) <= MaxPayload
=============================================================================
