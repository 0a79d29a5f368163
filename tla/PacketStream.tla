---------------------------- MODULE PacketStream ----------------------------
(***************************************************************************)
(* One direction of a binary connection, byte by byte: a peer sends        *)
(* packets, bytes arrive in reads of any size and extend receive_buffer,   *)
(* the decoder takes packets off its front (tcp_binary.rs, ws_binary.rs).  *)
(* Side "daemon" decodes requests, side "client" decodes responses.        *)
(*                                                                         *)
(* Most packets come from the codec's own encoders.  The others are those  *)
(* of a peer built from another version or speaking another protocol: a    *)
(* payload with a field more or one byte less, a type this version does    *)
(* not know, another magic.                                                *)
(***************************************************************************)
EXTENDS BinaryCodec

CONSTANTS
    Messages,       \* the messages peers send
    OtherVersion,   \* those that peers of another version send in another form
    MaxSent         \* bound on the packets sent

ASSUME MaxSentAssumption == MaxSent \in Nat

\* What the fields of each kind hold: &str is a sequence of bytes, Option<String>
\* a sequence of at most one.
Byte     == 0..(Base - 1)
Text     == Seq(Byte)
Values(kind) ==
    CASE kind = "bool"     -> BOOLEAN
      [] kind = "u32"      -> 0..(U32Values - 1)
      [] kind = "u64"      -> 0..(U64Values - 1)
      [] kind = "nonempty" -> {o \in Seq(Text) : Len(o) <= 1}
      [] kind = "strings"  -> Seq(Text)
      [] OTHER             -> Text

Fields(type) == IF type \in Range(DaemonTypes) THEN DaemonFields[type] ELSE ClientFields[type]

\* DaemonBinaryResponse and ClientBinaryRequest.
IsMessage(m) ==
    /\ m.type \in Range(MsgType)
    /\ DOMAIN m = {"type"} \cup {f.name : f \in Range(Fields(m.type))}
    /\ \A f \in Range(Fields(m.type)) : m[f.name] \in Values(f.kind)

\* No payload, even with a byte more, is so long (4 GiB) that payload_len wraps.
ASSUME MessagesAssumption ==
    \A m \in Messages \cup OtherVersion :
        IsMessage(m) /\ Len(encode_payload(m)) + 1 < U32Values

VARIABLES
    side,           \* whose decoder this is
    sent,           \* ghost: for each packet what it should decode to and where in the stream it ends
    wire,           \* bytes on their way
    receive_buffer,
    decoded,        \* messages decoded
    status          \* "open", or "failed" once decoding returned an error

vars == <<side, sent, wire, receive_buffer, decoded, status>>
-----------------------------------------------------------------------------
(* What a message should decode to, without reference to its encoding.     *)

Bad == [type |-> "Bad"]

StringFields == {"version", "server_name", "client", "protocol", "iface", "dir", "message"}
ListFields   == {"features", "items", "ifaces"}

CutString(s) == SubSeq(s, 1, Capped(Len(s)))

\* Strings are cut, counts wrap, and an empty error message is none.
Kept(name, v) ==
    CASE name \in StringFields        -> CutString(v)
      [] name \in ListFields          -> [k \in 1..(Len(v) % U16Values) |-> CutString(v[k])]
      [] name = "data"           -> SubSeq(v, 1, Len(v) % U16Values)
      [] name = "error_message"  -> IF v \in {<<>>, <<<<>>>>} THEN <<>> ELSE <<CutString(v[1])>>
      [] OTHER                   -> v

Whole(name, v) ==
    CASE name \in StringFields                        -> from_utf8(v)
      [] name \in ListFields \cup {"error_message"}   -> \A k \in DOMAIN v : from_utf8(v[k])
      [] OTHER                                   -> TRUE

\* A cut inside a character, and a message of the decoder's own side, are Bad.
Outcome(m) ==
    LET kept == [f \in DOMAIN m |-> Kept(f, m[f])]
        own  == IF side = "daemon" THEN DaemonTypes ELSE ClientTypes
    IN  IF m.type \in Range(own) \/ \E f \in DOMAIN m : ~Whole(f, kept[f]) THEN Bad ELSE kept

\* No list and no data is so long that its count wraps.
CountsFit(m) == \A f \in DOMAIN m : f \in ListFields \cup {"data"} => Len(m[f]) < U16Values
-----------------------------------------------------------------------------
Init ==
    /\ side \in {"client", "daemon"}
    /\ sent = <<>> /\ wire = <<>> /\ receive_buffer = <<>>
    /\ decoded = <<>> /\ status = "open"

\* Where packet k ends in the stream of bytes.
End(k) == IF k = 0 THEN 0 ELSE sent[k].end

Send(bytes, outcome) ==
    /\ Len(sent) < MaxSent
    /\ sent' = Append(sent, [holds |-> outcome, end |-> End(Len(sent)) + Len(bytes)])
    /\ wire' = wire \o bytes
    /\ UNCHANGED <<side, receive_buffer, decoded, status>>

\* encode_client, encode_daemon.
Encode(m) == Send(encode(m), Outcome(m))

\* A peer that appends a field of its own: the message is decoded all the same.
Extended(m) ==
    /\ CountsFit(m)
    /\ Send(encode_packet(Code(m.type), Append(encode_payload(m), 1)), Outcome(m))

Front(s) == SubSeq(s, 1, Len(s) - 1)

\* A peer that leaves out the last byte of the last field.
Truncated(m) ==
    /\ CountsFit(m) /\ encode_payload(m) # <<>>
    /\ Send(encode_packet(Code(m.type), Front(encode_payload(m))), Bad)

\* A type that MsgType::from_u16 does not know.
UnknownType(m) == Send(encode_packet(0, encode_payload(m)), Bad)

\* Another protocol: noticed with the first twelve bytes.
OtherMagic == Send([k \in 1..HEADER_LEN |-> 0], Bad)

\* receive_buffer.extend_from_slice: a read of n bytes is n of these steps.
Read ==
    /\ status = "open" /\ wire # <<>>
    /\ receive_buffer' = Append(receive_buffer, Head(wire))
    /\ wire' = Tail(wire)
    /\ UNCHANGED <<side, sent, decoded, status>>

\* decode_client_from(&receive_buffer)? and receive_buffer.drain(0..consumed).
Decode ==
    /\ status = "open"
    /\ \E r \in {decode_from(side, receive_buffer)} :
           \/ /\ r.st = "some"
              /\ decoded' = Append(decoded, r.msg)
              /\ receive_buffer' = SubSeq(receive_buffer, r.consumed + 1, Len(receive_buffer))
              /\ UNCHANGED status
           \/ /\ r.st = "error"
              /\ status' = "failed"
              /\ UNCHANGED <<decoded, receive_buffer>>
    /\ UNCHANGED <<side, sent, wire>>

Peer ==
    \/ \E m \in Messages : Encode(m)
    \/ \E m \in OtherVersion : Extended(m) \/ Truncated(m) \/ UnknownType(m)
    \/ OtherMagic

Next == Peer \/ Read \/ Decode

Spec == Init /\ [][Next]_vars
-----------------------------------------------------------------------------
\* What the decoder of a side makes of a packet that holds o: nothing of a part
\* of it, and of all of it o, or an error, whatever follows.
Behaves(sd, p, o) ==
    /\ p \in Text /\ Len(p) >= 12
    /\ \A k \in 0..(Len(p) - 1) : decode_from(sd, SubSeq(p, 1, k)) = None
    /\ \A t \in Text : decode_from(sd, p \o t) =
                           IF o = Bad THEN Error ELSE [st |-> "some", msg |-> o, consumed |-> Len(p)]

(* What decoding yields is what was sent, in order, up to what the         *)
(* encoder cut: an oversized string, list or payload of one packet never   *)
(* shifts a byte into a later field or a later packet, and an option, a    *)
(* bool and every integer survive the round trip                           *)
(* (encode_*_payload against decode_*_payload).                            *)
DecodedAsSent ==
    \A k \in DOMAIN decoded : k <= Len(sent) /\ decoded[k] = sent[k].holds

(* The bytes of the buffer behave like the queue of packets that           *)
(* BinarySession models: a packet is decoded once, only when it is         *)
(* complete, in order; an error comes only from a complete packet that     *)
(* holds no message; and nothing is decoded after it (decode_packet,       *)
(* drain(0..consumed)).                                                    *)
Received == End(Len(decoded)) + Len(receive_buffer)

Complete == {k \in DOMAIN sent : k > Len(decoded) /\ End(k) <= Received}

\* The last packet that is decoded or complete.
Last == CHOOSE k \in Len(decoded)..Len(sent) :
            End(k) <= Received /\ (k = Len(sent) \/ End(k + 1) > Received)

Buffer == INSTANCE PacketBuffer WITH
    queue   <- [j \in 1..(Last - Len(decoded)) |-> sent[Len(decoded) + j].holds],
    partial <- Received > End(Last),
    taken   <- decoded

ImplementsBuffer == Buffer!Spec

(* The decoder never waits for more bytes while a packet is complete: the  *)
(* last packet a peer sends is decoded however its bytes were split over   *)
(* reads, and does not wait for the packet after it (the decode loops of   *)
(* tcp_binary.rs and ws_binary.rs stop at None and read again).            *)
NoPacketIsStuck ==
    status = "open" /\ decode_from(side, receive_buffer).st = "none" => Complete = {}
=============================================================================
