------------------------------ MODULE WsBinary ------------------------------
(***************************************************************************)
(* handle_ws_binary (infra/transport_ws/ws_binary.rs): CBD1 packets in     *)
(* WebSocket binary messages.  HelloAck answers ClientHello.  The main     *)
(* loop waits for a message first and decodes after it, so what followed   *)
(* ClientHello in the same message waits for the next binary message.      *)
(***************************************************************************)
EXTENDS BinarySession

\* The writer is spawned; nothing is queued before the handshake.
Start ==
    /\ rpc = "start"
    /\ rpc' = "handshake"
    /\ UNCHANGED <<busVars, svcVars, outgoing, writerVars, sender_open, subVars, owed, bufferVars>>

\* A binary message, which may be empty or end inside a packet.
Message(chunk, rest) ==
    /\ chunk = <<>> /\ partial => rest
    /\ owed + Len(receive_buffer) + Len(chunk) <= MaxReq

\* Faulty variant: the reader returns but its sender lives on.
FaultyLeakedSender ==
    /\ rpc = "handshake"
    /\ rpc' = "returned"
    /\ UNCHANGED <<busVars, svcVars, outgoing, writerVars, subVars, owed, sender_open, bufferVars>>

\* Timeout, Text, Close, or the end of the WebSocket.
WsHandshakeFails ==
    /\ rpc = "handshake"
    /\ Return
    /\ UNCHANGED <<busVars, svcVars, outgoing, writerVars, subVars, owed, bufferVars>>

\* A binary message that does not complete the first packet.
WsHandshakePartial ==
    /\ rpc = "handshake"
    /\ Message(<<>>, TRUE)
    /\ partial' = TRUE
    /\ UNCHANGED <<sessionVars, receive_buffer>>

\* One that does: only the first packet is decoded.  HelloAck is the reply
\* to ClientHello, an Error the reply to any other request.
WsHandshakePacket(chunk, rest) ==
    /\ rpc = "handshake"
    /\ Message(chunk, rest) /\ chunk # <<>>
    /\ receive_buffer' = Tail(chunk) /\ partial' = rest
    /\ \/ /\ Head(chunk).kind = "ClientHello"
          /\ Answer("HelloAck")
          /\ IF Gone THEN Return ELSE rpc' = "read" /\ UNCHANGED sender_open
       \/ /\ Head(chunk) = Malformed
          /\ Return
          /\ UNCHANGED <<outgoing, owed>>
       \/ /\ Head(chunk).kind \notin {"ClientHello", "Malformed"}
          /\ Answer("Error")
          /\ DropSender
    /\ UNCHANGED <<busVars, svcVars, writerVars, subVars>>

RecvBinary(chunk, rest) ==
    /\ rpc = "read"
    /\ Message(chunk, rest)
    /\ receive_buffer' = receive_buffer \o chunk /\ partial' = rest
    /\ rpc' = "decode"
    /\ UNCHANGED <<busVars, svcVars, outgoing, writerVars, sender_open, subVars, owed>>

\* Faulty variant: Text gets no answer.
FaultyRecvText ==
    /\ rpc = "read"
    /\ owed + Len(receive_buffer) < MaxReq
    /\ Take
    /\ UNCHANGED <<busVars, svcVars, outgoing, writerVars, rpc, sender_open, subVars, bufferVars>>

\* Text is rejected and the session goes on.
RecvText ==
    /\ rpc = "read"
    /\ owed + Len(receive_buffer) < MaxReq
    /\ Answer("Error")
    /\ UNCHANGED <<busVars, svcVars, writerVars, rpc, sender_open, subVars, bufferVars>>

\* Faulty variant: the writer is awaited while the sender is still open.
WsFaultyJoin ==
    /\ rpc = "read"
    /\ rpc' = "join"
    /\ UNCHANGED <<busVars, svcVars, outgoing, writerVars, subVars, owed, sender_open, bufferVars>>

\* Faulty variant: the writer is aborted and not awaited.
WsFaultyAbort ==
    /\ rpc = "read"
    /\ rpc' = "ended" /\ sender_open' = FALSE
    /\ wpc' = "done" /\ wmsg' = NoMsg /\ outgoing' = <<>>
    /\ drop_receiver
    /\ UNCHANGED <<svcVars, replied, sendAcks, acked, lastFrame, subVars, owed, bufferVars>>

\* Close, a receive error, or the end of the stream.  (Ping and Pong are
\* ignored and change nothing.)
RecvClose ==
    /\ rpc = "read"
    /\ DropSender
    /\ UNCHANGED <<busVars, svcVars, outgoing, writerVars, subVars, owed, bufferVars>>

dispatch == Dispatch

WsClientStep ==
    \/ WsHandshakePartial
    \/ \E chunk \in Chunks, rest \in BOOLEAN : WsHandshakePacket(chunk, rest) \/ RecvBinary(chunk, rest)
    \/ RecvText \/ RecvClose

WsReaderStep ==
    \/ Start \/ WsHandshakeFails
    \/ dispatch \/ Decoded
    \/ Joined /\ UNCHANGED bufferVars

ws_writer_task == writer_task

WsNext ==
    \/ WsClientStep \/ WsReaderStep \/ ws_writer_task
    \/ PublishOther /\ UNCHANGED bufferVars

WsFairness ==
    /\ WF_vars(WsReaderStep)
    /\ WriterFairness

WsSpec == Init /\ [][WsNext]_vars
WsFairSpec == WsSpec /\ WsFairness
=============================================================================
