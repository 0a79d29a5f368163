--------------------------- MODULE BinarySession ---------------------------
(***************************************************************************)
(* What the two binary transports share: a receive buffer of CBD1 packets  *)
(* (domain/binary_message.rs) and the dispatch of decoded requests.        *)
(*                                                                         *)
(* The bytes in the buffer are the packets that are complete followed by   *)
(* the first bytes of at most one more (partial).  A packet decodes to a   *)
(* request or is Malformed: bad magic, unknown or daemon-only msg_type,    *)
(* or a payload that does not parse.  Bad magic is noticed with the        *)
(* header, everything else with the last byte of the payload.              *)
(***************************************************************************)
EXTENDS Session

CONSTANT MaxChunk   \* packets that one read can complete

ASSUME MaxChunkAssumption == MaxChunk \in Nat \ {0}

VARIABLES
    receive_buffer,     \* complete packets not decoded yet
    partial             \* the buffer ends in an incomplete packet

bufferVars == <<receive_buffer, partial>>
vars       == <<sessionVars, bufferVars>>

Malformed == [kind |-> "Malformed"]

\* The daemon makes the hex string itself, so data_hex always parses; the
\* binary Subscribe has no filters.
BinaryRequests ==
    {req \in Requests : /\ req.kind = "SendFrame" => req.hex_ok
                        /\ req.kind = "Subscribe" => req.classes = Classes}

Packets == BinaryRequests \cup {Malformed}

\* The packets one read completes.
Chunks == UNION {[1..k -> Packets] : k \in 0..MaxChunk}

TypeOKBuffer ==
    /\ TypeOK
    /\ receive_buffer \in Seq(Packets)
    /\ partial \in BOOLEAN

BufferInit == receive_buffer = <<>> /\ partial = FALSE

Init == SessionInit /\ BufferInit

\* A read brings at least one byte: it completes packets, or begins one.
Arrives(chunk, rest) ==
    /\ chunk # <<>> \/ (rest /\ ~partial)
    /\ owed + Len(receive_buffer) + Len(chunk) <= MaxReq

\* decode_client_from(&receive_buffer)?, then drain(0..consumed).
decode_client_from(req) ==
    /\ rpc = "decode" /\ receive_buffer # <<>>
    /\ Head(receive_buffer) = req
    /\ receive_buffer' = Tail(receive_buffer)
    /\ UNCHANGED partial

\* The error of an undecodable packet leaves the session; no reply.
DecodeError ==
    /\ decode_client_from(Malformed)
    /\ Return
    /\ UNCHANGED <<busVars, svcVars, outgoing, writerVars, subVars, owed>>

\* Ping is answered by the transport; ClientHello must not come again.
AnswerNow(req) ==
    /\ decode_client_from(req) /\ req.kind \in {"Ping", "ClientHello"}
    /\ Answer(IF req.kind = "Ping" THEN "Pong" ELSE "Error")
    /\ UNCHANGED <<busVars, svcVars, writerVars, rpc, sender_open, subVars>>

CallService(req) ==
    /\ decode_client_from(req) /\ req.kind \in {"ListIfaces", "SendFrame"}
    /\ Take
    /\ call' = handle(req, owed)
    /\ rpc' = "handle"
    /\ UNCHANGED <<busVars, accepted, echoed, outgoing, writerVars, sender_open, subVars>>

SendResponse ==
    /\ ReplyHandled
    /\ rpc' = "decode"
    /\ UNCHANGED bufferVars

\* Faulty variant: the set is not cleared.
FaultyUnsubscribe(req) ==
    /\ decode_client_from(req) /\ req.kind = "Unsubscribe"
    /\ Take
    /\ asked' = NoSub
    /\ rpc' = "unsubscribed"
    /\ UNCHANGED <<busVars, svcVars, outgoing, writerVars, sender_open, subscribed_ifaces>>

\* update_subscription_set and clear_subscription_set, each under one lock.
Subscribe(req) ==
    /\ decode_client_from(req) /\ req.kind = "Subscribe"
    /\ Take
    /\ subscribed_ifaces' = req.ifaces
    /\ asked' = [ifaces |-> req.ifaces, classes |-> req.classes]
    /\ rpc' = "subscribed"
    /\ UNCHANGED <<busVars, svcVars, outgoing, writerVars, sender_open>>

Unsubscribe(req) ==
    /\ decode_client_from(req) /\ req.kind = "Unsubscribe"
    /\ Take
    /\ subscribed_ifaces' = {}
    /\ asked' = NoSub
    /\ rpc' = "unsubscribed"
    /\ UNCHANGED <<busVars, svcVars, outgoing, writerVars, sender_open>>

AckSubscribe ==
    /\ rpc = "subscribed"
    /\ QueueAck("Subscribed")
    /\ rpc' = "decode"
    /\ UNCHANGED bufferVars

AckUnsubscribe ==
    /\ rpc = "unsubscribed"
    /\ QueueAck("Unsubscribed")
    /\ rpc' = "decode"
    /\ UNCHANGED bufferVars

Dispatch ==
    \/ DecodeError
    \/ \E req \in BinaryRequests :
          AnswerNow(req) \/ CallService(req) \/ Subscribe(req) \/ Unsubscribe(req)
    \/ AckSubscribe \/ AckUnsubscribe
    \/ HandleStep /\ UNCHANGED bufferVars
    \/ SendResponse

\* The inner loop has run out of complete packets.
Decoded ==
    /\ rpc = "decode" /\ receive_buffer = <<>>
    /\ rpc' = "read"
    /\ UNCHANGED <<busVars, svcVars, outgoing, writerVars, sender_open, subVars, owed, bufferVars>>

writer_task ==
    /\ \/ RecvReply \/ RecvClosed \/ RecvFrame \/ RecvLagged
       \/ CheckIface("write")
       \/ Write \/ WriteFail
    /\ UNCHANGED bufferVars

\* The writer task is polled, and select! picks fairly.
WriterFairness ==
    /\ SF_vars(RecvReply /\ UNCHANGED bufferVars)
    /\ SF_vars(RecvClosed /\ UNCHANGED bufferVars)
    /\ SF_vars((RecvFrame \/ RecvLagged) /\ UNCHANGED bufferVars)
    /\ WF_vars(CheckIface("write") /\ UNCHANGED bufferVars)
    /\ WF_vars((Write \/ WriteFail) /\ UNCHANGED bufferVars)

\* While the session waits for the socket, no complete request is left
\* behind in the buffer: none waits for bytes that may never come.
NoStrandedRequest == rpc = "read" => receive_buffer = <<>>

\* Every complete request in the buffer is decoded sooner or later, whatever
\* the client does next, or the session is left.
RequestsAreHandled ==
    (receive_buffer # <<>>) ~> (receive_buffer = <<>> \/ rpc \in {"join", "ended", "returned"})
=============================================================================
