---------------------------- MODULE BinaryCodec ----------------------------
(***************************************************************************)
(* The CBD1 packet codec (domain/binary_message.rs) on bytes.  A packet is *)
(* a header of twelve bytes (magic, msg_type, flags, payload_len) and a    *)
(* payload; integers are little endian.                                    *)
(*                                                                         *)
(* A byte is a digit to the base Base, 256 in the code.  A small base keeps*)
(* the widths in proportion: u16 is two bytes and wraps at Base^2, a       *)
(* string is cut at Base^2 - 1 bytes.  In a string the two largest bytes   *)
(* stand for a UTF-8 continuation byte and for the lead byte of a two-byte *)
(* character, the others for ASCII.  Option<String> is a sequence of at    *)
(* most one string.                                                        *)
(***************************************************************************)
EXTENDS Integers, Sequences, Functions

CONSTANT Base

\* Fourteen message types must fit a u16, the four bytes of the magic differ.
ASSUME BaseAssumption == Base \in Nat /\ Base >= 4

U16Values == Base * Base
U32Values == U16Values * U16Values
U64Values == U32Values * U32Values

MAGIC      == <<2, 1, 3, 0>>
HEADER_LEN == 12

\* The client's codes are 101 to 106 in the code; here they follow the daemon's.
DaemonTypes == <<"HelloAck", "Pong", "Ifaces", "Subscribed", "Unsubscribed", "SendAck",
                 "FrameEvent", "Error">>
ClientTypes == <<"ClientHello", "Ping", "ListIfaces", "Subscribe", "Unsubscribe", "SendFrame">>
MsgType     == DaemonTypes \o ClientTypes

Code(type) == CHOOSE k \in DOMAIN MsgType : MsgType[k] = type
-----------------------------------------------------------------------------
(* Primitives.                                                             *)

\* to_le_bytes of a u16, a u32, a u64; larger values wrap (`as u16`).
put_u16(n) == <<n % Base, (n \div Base) % Base>>
put_u32(n) == put_u16(n) \o put_u16(n \div U16Values)
put_u64(n) == put_u32(n) \o put_u32(n \div U32Values)

\* from_le_bytes of the first two, four, eight bytes.
le_u16(bytes) == bytes[1] + (Base * bytes[2])
le_u32(bytes) == le_u16(bytes) + (U16Values * le_u16(SubSeq(bytes, 3, 4)))
le_u64(bytes) == le_u32(bytes) + (U32Values * le_u32(SubSeq(bytes, 5, 8)))

put_bool(b) == <<IF b THEN 1 ELSE 0>>

\* A length is capped at u16::MAX.
Capped(len) == IF len < U16Values THEN len ELSE U16Values - 1

\* Faulty variant: the length is that of the uncut string.
FaultyPutString(s) == put_u16(Len(s)) \o SubSeq(s, 1, Capped(Len(s)))

put_string(s) == put_u16(Capped(Len(s))) \o SubSeq(s, 1, Capped(Len(s)))

\* The strings of a list from the last k on, written after one another.
Written(list) ==
    LET last[k \in 0..Len(list)] ==
            IF k = 0 THEN <<>> ELSE put_string(list[Len(list) - k + 1]) \o last[k - 1]
    IN  last

put_strings(list) == put_u16(Len(list)) \o Written(list)[Len(list)]
put_data(bytes)   == put_u16(Len(bytes)) \o bytes

\* What a get_ function returns: a value and the input left, or an error.
Got(v, rest) == [ok |-> TRUE, v |-> v, rest |-> rest]
Eof          == [ok |-> FALSE]

Took(v, w, input) == IF Len(input) < w THEN Eof ELSE Got(v, SubSeq(input, w + 1, Len(input)))

get_u8(input)  == Took(input[1], 1, input)
get_u16(input) == Took(le_u16(input), 2, input)
get_u32(input) == Took(le_u32(input), 4, input)
get_u64(input) == Took(le_u64(input), 8, input)

Lead == Base - 1
Cont == Base - 2

\* std::str::from_utf8: every lead byte has its continuation and vice versa.
from_utf8(s) ==
    /\ \A k \in DOMAIN s : s[k] = Lead => k < Len(s) /\ s[k + 1] = Cont
    /\ \A k \in DOMAIN s : s[k] = Cont => k > 1 /\ s[k - 1] = Lead

\* What follows a result r, unless it is an error (the ? operator): as many bytes
\* as r says, their check, a bool for a byte, an option for a string.
Bytes(r)    == IF r.ok THEN Took(SubSeq(r.rest, 1, r.v), r.v, r.rest) ELSE Eof
Utf8(r)     == IF r.ok /\ from_utf8(r.v) THEN r ELSE Eof
NonZero(r)  == IF r.ok THEN Got(r.v # 0, r.rest) ELSE Eof
NonEmpty(r) == IF r.ok THEN Got(IF r.v = <<>> THEN <<>> ELSE <<r.v>>, r.rest) ELSE Eof

get_data(input)   == Bytes(get_u16(input))
get_string(input) == Utf8(get_data(input))

\* One string more for the list that r holds.
Pushed(list, r) == IF r.ok THEN Got(Append(list, r.v), r.rest) ELSE Eof
get_one_more(r) == IF r.ok THEN Pushed(r.v, get_string(r.rest)) ELSE Eof

ReadStrings(count, input) ==
    LET read[k \in 0..count] == IF k = 0 THEN Got(<<>>, input) ELSE get_one_more(read[k - 1])
    IN  read

\* As many strings as r says.
Strings(r)         == IF r.ok THEN ReadStrings(r.v, r.rest)[r.v] ELSE Eof
get_strings(input) == Strings(get_u16(input))

\* One field of a payload, by its kind.
get(kind, input) ==
    CASE kind = "bool"     -> NonZero(get_u8(input))
      [] kind = "u32"      -> get_u32(input)
      [] kind = "u64"      -> get_u64(input)
      [] kind = "string"   -> get_string(input)
      [] kind = "nonempty" -> NonEmpty(get_string(input))
      [] kind = "strings"  -> get_strings(input)
      [] kind = "data"     -> get_data(input)
-----------------------------------------------------------------------------
(* Payloads.                                                               *)

encode_daemon_payload(m) ==
    CASE m.type = "HelloAck" -> put_string(m.version) \o put_string(m.server_name)
                                    \o put_strings(m.features)
      [] m.type = "Pong"         -> put_u64(m.id)
      [] m.type = "Ifaces"       -> put_strings(m.items)
      [] m.type = "Subscribed"   -> put_strings(m.ifaces)
      [] m.type = "Unsubscribed" -> <<>>
      [] m.type = "SendAck"      -> put_bool(m.ok)
                                    \o put_string(IF m.error_message = <<>> THEN <<>> ELSE m.error_message[1])
      [] m.type = "FrameEvent"   -> put_u64(m.ts_ms) \o put_string(m.iface) \o put_string(m.dir)
                                    \o put_u32(m.id) \o put_bool(m.is_fd) \o put_data(m.data)
      [] m.type = "Error"        -> put_string(m.message)

encode_client_payload(m) ==
    CASE m.type = "ClientHello" -> put_string(m.client) \o put_string(m.protocol)
      [] m.type = "Ping"        -> put_u64(m.id)
      [] m.type = "Subscribe"   -> put_strings(m.ifaces)
      [] m.type = "SendFrame"   -> put_string(m.iface) \o put_u32(m.id) \o put_bool(m.is_fd)
                                   \o put_bool(m.brs) \o put_bool(m.esi) \o put_data(m.data)
      [] OTHER                  -> <<>>

\* The fields each decoder reads, in order.
Field(name, kind) == [name |-> name, kind |-> kind]

DaemonFields ==
    [HelloAck     |-> <<Field("version", "string"), Field("server_name", "string"), Field("features", "strings")>>,
     Pong         |-> <<Field("id", "u64")>>,
     Ifaces       |-> <<Field("items", "strings")>>,
     Subscribed   |-> <<Field("ifaces", "strings")>>,
     Unsubscribed |-> <<>>,
     SendAck      |-> <<Field("ok", "bool"), Field("error_message", "nonempty")>>,
     FrameEvent   |-> <<Field("ts_ms", "u64"), Field("iface", "string"), Field("dir", "string"),
                        Field("id", "u32"), Field("is_fd", "bool"), Field("data", "data")>>,
     Error        |-> <<Field("message", "string")>>]

ClientFields ==
    [ClientHello |-> <<Field("client", "string"), Field("protocol", "string")>>,
     Ping        |-> <<Field("id", "u64")>>,
     ListIfaces  |-> <<>>,
     Subscribe   |-> <<Field("ifaces", "strings")>>,
     Unsubscribe |-> <<>>,
     SendFrame   |-> <<Field("iface", "string"), Field("id", "u32"), Field("is_fd", "bool"),
                       Field("brs", "bool"), Field("esi", "bool"), Field("data", "data")>>]

\* The message that r holds, with one field more.
With(msg, name, v) == [f \in DOMAIN msg \cup {name} |-> IF f = name THEN v ELSE msg[f]]
Set(msg, name, r)  == IF r.ok THEN Got(With(msg, name, r.v), r.rest) ELSE Eof
get_field(r, f)    == IF r.ok THEN Set(r.v, f.name, get(f.kind, r.rest)) ELSE Eof

\* Field after field, stopping at the first error.  Bytes left over are ignored.
ReadFields(fields, type, payload) ==
    LET read[k \in 0..Len(fields)] ==
            IF k = 0 THEN Got([type |-> type], payload) ELSE get_field(read[k - 1], fields[k])
    IN  read

decode_fields(fields, type, payload) == ReadFields(fields, type, payload)[Len(fields)]

\* The other side's types are refused.
decode_daemon_payload(type, payload) ==
    IF type \in Range(DaemonTypes) THEN decode_fields(DaemonFields[type], type, payload) ELSE Eof

decode_client_payload(type, payload) ==
    IF type \in Range(ClientTypes) THEN decode_fields(ClientFields[type], type, payload) ELSE Eof
-----------------------------------------------------------------------------
(* Packets.                                                                *)

encode_packet(code, payload) ==
    MAGIC \o put_u16(code) \o put_u16(0) \o put_u32(Len(payload)) \o payload

encode_payload(m) ==
    IF m.type \in Range(DaemonTypes) THEN encode_daemon_payload(m) ELSE encode_client_payload(m)

\* encode_daemon, encode_client.
encode(m) == encode_packet(Code(m.type), encode_payload(m))

None  == [st |-> "none"]
Error == [st |-> "error"]

payload_len(buffer) == le_u32(SubSeq(buffer, 9, 12))
msg_type(buffer)    == le_u16(SubSeq(buffer, 5, 6))

Packet(buffer) ==
    [st |-> "some", type |-> MsgType[msg_type(buffer)], consumed |-> HEADER_LEN + payload_len(buffer),
     payload |-> SubSeq(buffer, HEADER_LEN + 1, HEADER_LEN + payload_len(buffer))]

\* Faulty variants: a packet waits for a byte beyond its end; an unknown type
\* is refused before its packet is complete.
FaultyDecodePacket(buffer) ==
    IF Len(buffer) < HEADER_LEN THEN None
    ELSE IF SubSeq(buffer, 1, 4) # MAGIC THEN Error
    ELSE IF Len(buffer) <= HEADER_LEN + payload_len(buffer) THEN None
    ELSE IF msg_type(buffer) \notin DOMAIN MsgType THEN Error
    ELSE Packet(buffer)

FaultyTypeFirst(buffer) ==
    IF Len(buffer) < HEADER_LEN THEN None
    ELSE IF SubSeq(buffer, 1, 4) # MAGIC \/ msg_type(buffer) \notin DOMAIN MsgType THEN Error
    ELSE IF Len(buffer) < HEADER_LEN + payload_len(buffer) THEN None
    ELSE Packet(buffer)

decode_packet(buffer) ==
    IF Len(buffer) < HEADER_LEN THEN None
    ELSE IF SubSeq(buffer, 1, 4) # MAGIC THEN Error
    ELSE IF Len(buffer) < HEADER_LEN + payload_len(buffer) THEN None
    ELSE IF msg_type(buffer) \notin DOMAIN MsgType THEN Error
    ELSE Packet(buffer)

Message(packet, m) ==
    IF m.ok THEN [st |-> "some", msg |-> m.v, consumed |-> packet.consumed] ELSE Error

Parsed(side, packet) ==
    IF packet.st # "some" THEN packet
    ELSE Message(packet, IF side = "daemon" THEN decode_client_payload(packet.type, packet.payload)
                                            ELSE decode_daemon_payload(packet.type, packet.payload))

\* decode_client_from (side "daemon" decodes requests) and decode_daemon_from.
decode_from(side, buffer) == Parsed(side, decode_packet(buffer))
=============================================================================
