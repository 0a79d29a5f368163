----------------------------- MODULE TcpBinary -----------------------------
(***************************************************************************)
(* run_binary_session (infra/transport_tcp/tcp_binary.rs): CBD1 packets    *)
(* over TCP.  As in the JSONL session HelloAck is queued at once.  A       *)
(* first packet that is not ClientHello is answered, and that answer is    *)
(* awaited; the main loop empties the buffer before it reads again.        *)
(***************************************************************************)
EXTENDS BinarySession

SendHelloAck ==
    /\ rpc = "start"
    /\ Answer("HelloAck")
    /\ IF Gone THEN Return ELSE rpc' = "handshake" /\ UNCHANGED sender_open
    /\ UNCHANGED <<busVars, svcVars, writerVars, subVars, bufferVars>>

\* Timeout, end of stream or read error.
TcpHandshakeFails ==
    /\ rpc = "handshake"
    /\ Return
    /\ UNCHANGED <<busVars, svcVars, outgoing, writerVars, subVars, owed, bufferVars>>

\* Bytes that do not complete the first packet.
TcpHandshakePartial ==
    /\ rpc = "handshake"
    /\ Arrives(<<>>, TRUE)
    /\ partial' = TRUE
    /\ UNCHANGED <<sessionVars, receive_buffer>>

\* Faulty variant: the main loop reads before it decodes.
FaultyReadFirst(chunk, rest) ==
    /\ rpc = "handshake"
    /\ Arrives(chunk, rest) /\ chunk # <<>>
    /\ Head(chunk).kind = "ClientHello"
    /\ receive_buffer' = Tail(chunk) /\ partial' = rest
    /\ rpc' = "read"
    /\ UNCHANGED <<busVars, svcVars, outgoing, writerVars, sender_open, subVars, owed>>

\* Bytes that do: the packet is decoded, what follows it stays buffered.
TcpHandshakePacket(chunk, rest) ==
    /\ rpc = "handshake"
    /\ Arrives(chunk, rest) /\ chunk # <<>>
    /\ receive_buffer' = Tail(chunk) /\ partial' = rest
    /\ \/ /\ Head(chunk).kind = "ClientHello"
          /\ rpc' = "decode"
          /\ UNCHANGED <<outgoing, sender_open, owed>>
       \/ /\ Head(chunk) = Malformed
          /\ Return
          /\ UNCHANGED <<outgoing, owed>>
       \/ /\ Head(chunk).kind \notin {"ClientHello", "Malformed"}
          /\ Answer("Error")
          /\ DropSender
    /\ UNCHANGED <<busVars, svcVars, writerVars, subVars>>

\* read_half.read(..).await? brings bytes, end of stream, or an error.
Read(chunk, rest) ==
    /\ rpc = "read"
    /\ Arrives(chunk, rest)
    /\ receive_buffer' = receive_buffer \o chunk /\ partial' = rest
    /\ rpc' = "decode"
    /\ UNCHANGED <<busVars, svcVars, outgoing, writerVars, sender_open, subVars, owed>>

\* Faulty variant: the writer is awaited while the sender is still open.
TcpFaultyJoin ==
    /\ rpc = "read"
    /\ rpc' = "join"
    /\ UNCHANGED <<busVars, svcVars, outgoing, writerVars, subVars, owed, sender_open, bufferVars>>

ReadEof ==
    /\ rpc = "read"
    /\ DropSender
    /\ UNCHANGED <<busVars, svcVars, outgoing, writerVars, subVars, owed, bufferVars>>

ReadError ==
    /\ rpc = "read"
    /\ Return
    /\ UNCHANGED <<busVars, svcVars, outgoing, writerVars, subVars, owed, bufferVars>>

TcpClientStep ==
    \/ TcpHandshakePartial
    \/ \E chunk \in Chunks, rest \in BOOLEAN : TcpHandshakePacket(chunk, rest) \/ Read(chunk, rest)
    \/ ReadEof \/ ReadError

TcpReaderStep ==
    \/ SendHelloAck \/ TcpHandshakeFails
    \/ Dispatch \/ Decoded
    \/ Joined /\ UNCHANGED bufferVars

TcpNext ==
    \/ TcpClientStep \/ TcpReaderStep \/ writer_task
    \/ PublishOther /\ UNCHANGED bufferVars

TcpFairness ==
    /\ WF_vars(TcpReaderStep)
    /\ WriterFairness

TcpSpec == Init /\ [][TcpNext]_vars
TcpFairSpec == TcpSpec /\ TcpFairness
=============================================================================
