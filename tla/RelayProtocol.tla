--------------------------- MODULE RelayProtocol ----------------------------
(***************************************************************************)
(* The envelope every message travels in, alone and in a stream            *)
(* (tacenta-wire), and the relay's requests and responses on the wire, with*)
(* the answer to its challenge (tacenta-relay, protocol.rs).               *)
(***************************************************************************)
EXTENDS Codec

WIRE_VERSION == 1

Header == BigEndian(U16, WIRE_VERSION)

to_byte == <<Arm("Dm", 1, <<Bytes(U32)>>), Arm("Group", 2, <<Bytes(U32)>>),
             Arm("Receipt", 3, <<Bytes(U32)>>)>>

from_byte == <<Arm("Dm", 1, <<Bytes(U32)>>), Arm("Group", 2, <<Bytes(U32)>>),
               Arm("Receipt", 3, <<Bytes(U32)>>)>>

(* The version, the kind, the length of the payload and the payload. *)
PutEnvelope == After(Header, Sum(to_byte))

TakeEnvelope == After(Header, Sum(from_byte))

encode(e) == Put(PutEnvelope, e)

decode(bytes) == Whole(TakeEnvelope, bytes)

(* Like decode, with the bytes after the envelope given back. *)
decode_one(bytes) == Take(TakeEnvelope, bytes)

encode_stream(envelopes) == FlattenSeq([i \in DOMAIN envelopes |-> encode(envelopes[i])])

RECURSIVE decode_from(_, _)
decode_from(buf, out) ==
    IF buf = <<>> THEN {out}
    ELSE UNION {decode_from(r.rest, Append(out, r.v)) : r \in decode_one(buf)}

decode_stream(bytes) == decode_from(bytes, <<>>)

-----------------------------------------------------------------------------
(* The relay. *)

put_bytes == Bytes(U32)
take_bytes == Bytes(U32)
put_addr == Fields(<<put_bytes, UInt(U32)>>)
take_addr == Fields(<<Text(U32), UInt(U32)>>)

put_messages == Many(U32, Fields(<<put_addr, Block(U32, PutEnvelope)>>))
take_messages == Many(U32, Fields(<<take_addr, Block(U32, TakeEnvelope)>>))

PutRequest == Sum(<<
    Arm("Send", 1, <<put_addr, Block(U32, PutEnvelope)>>),
    Arm("Poll", 2, <<put_addr>>),
    Arm("Ack", 3, <<put_addr, UInt(U64)>>),
    Arm("Delivered", 4, <<Many(U32, put_addr)>>)>>)

TakeRequest == Sum(<<
    Arm("Send", 1, <<take_addr, Block(U32, TakeEnvelope)>>),
    Arm("Poll", 2, <<take_addr>>),
    Arm("Ack", 3, <<take_addr, UInt(U64)>>),
    Arm("Delivered", 4, <<Many(U32, take_addr)>>)>>)

encode_request(request) == Put(PutRequest, request)
decode_request(bytes) == Whole(TakeRequest, bytes)

PutResponse == Sum(<<
    Arm("Ok", 1, <<>>),
    Arm("Delivered", 2, <<UInt(U64), put_messages>>),
    Arm("Acked", 3, <<Code({0, 1})>>),
    Arm("Unauthorized", 4, <<>>),
    Arm("DeliveredCount", 5, <<UInt(U64)>>),
    Arm("UnknownRecipient", 6, <<>>),
    Arm("QueueFull", 7, <<>>),
    Arm("TooLarge", 8, <<>>)>>)

TakeResponse == Sum(<<
    Arm("Ok", 1, <<>>),
    Arm("Delivered", 2, <<UInt(U64), take_messages>>),
    Arm("Acked", 3, <<Code({0, 1})>>),
    Arm("Unauthorized", 4, <<>>),
    Arm("UnknownRecipient", 6, <<>>),
    Arm("QueueFull", 7, <<>>),
    Arm("TooLarge", 8, <<>>),
    Arm("DeliveredCount", 5, <<UInt(U64)>>)>>)

encode_response(response) == Put(PutResponse, response)
decode_response(bytes) == Whole(TakeResponse, bytes)

PutAuth == Fields(<<put_addr, put_bytes>>)
TakeAuth == Fields(<<take_addr, take_bytes>>)

encode_auth(auth) == Put(PutAuth, auth)
decode_auth(bytes) == Whole(TakeAuth, bytes)
=============================================================================
