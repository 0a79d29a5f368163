------------------------------ MODULE TcpJsonl ------------------------------
(***************************************************************************)
(* run_jsonl_session (infra/transport_tcp/tcp_jsonl.rs): one JSON object   *)
(* per line over TCP.  HelloAck is queued before the client has said       *)
(* anything; the first line must be ClientHello and arrive within three    *)
(* seconds.  Capture filters of a Subscribe are ignored.                   *)
(***************************************************************************)
EXTENDS Session

vars == sessionVars

Init == SessionInit

\* The next line holds the request req (the bound keeps the model finite).
Line(req) == rpc = "read" /\ owed < MaxReq /\ req \in Requests

\* outgoing_sender.send(HelloAck).map_err(..)?
SendHelloAck ==
    /\ rpc = "start"
    /\ Answer("HelloAck")
    /\ IF Gone THEN Return ELSE rpc' = "handshake" /\ UNCHANGED sender_open
    /\ UNCHANGED <<busVars, svcVars, writerVars, subVars>>

\* Faulty variant: the reader returns but its sender lives on.
FaultyLeakedSender ==
    /\ rpc = "handshake"
    /\ rpc' = "returned"
    /\ UNCHANGED <<busVars, svcVars, outgoing, writerVars, subVars, owed, sender_open>>

\* Timeout, end of stream, read error, or a first line that is no request:
\* the reader returns and says nothing.
HandshakeFails ==
    /\ rpc = "handshake"
    /\ Return
    /\ UNCHANGED <<busVars, svcVars, outgoing, writerVars, subVars, owed>>

HandshakeHello ==
    /\ rpc = "handshake"
    /\ rpc' = "read"
    /\ UNCHANGED <<busVars, svcVars, outgoing, writerVars, sender_open, subVars, owed>>

\* Another request first: an Error is queued and the reader returns.
HandshakeOther ==
    /\ rpc = "handshake"
    /\ Answer("Error")
    /\ Return
    /\ UNCHANGED <<busVars, svcVars, writerVars, subVars>>

\* Faulty variant: the line is skipped without an Error.
FaultySilentReject ==
    /\ rpc = "read" /\ owed < MaxReq
    /\ Take
    /\ UNCHANGED <<busVars, svcVars, outgoing, writerVars, rpc, sender_open, subVars>>

\* A line that is not a request, or a second ClientHello: Error, and go on.
\* (A blank line is skipped and changes nothing.)
ReadRejected ==
    /\ rpc = "read" /\ owed < MaxReq
    /\ Answer("Error")
    /\ UNCHANGED <<busVars, svcVars, writerVars, rpc, sender_open, subVars>>

\* Faulty variants: the set is refilled without clear(), or not cleared.
FaultySubscribe(req) ==
    /\ Line(req) /\ req.kind = "Subscribe"
    /\ Take
    /\ subscribed_ifaces' = subscribed_ifaces \cup req.ifaces
    /\ asked' = [ifaces |-> req.ifaces, classes |-> req.classes]
    /\ rpc' = "subscribed"
    /\ UNCHANGED <<busVars, svcVars, outgoing, writerVars, sender_open>>

FaultyUnsubscribe(req) ==
    /\ Line(req) /\ req.kind = "Unsubscribe"
    /\ Take
    /\ asked' = NoSub
    /\ rpc' = "unsubscribed"
    /\ UNCHANGED <<busVars, svcVars, outgoing, writerVars, sender_open, subscribed_ifaces>>

\* update_subscription_set: clear and refill under one lock.
Subscribe(req) ==
    /\ Line(req) /\ req.kind = "Subscribe"
    /\ Take
    /\ subscribed_ifaces' = req.ifaces
    /\ asked' = [ifaces |-> req.ifaces, classes |-> req.classes]
    /\ rpc' = "subscribed"
    /\ UNCHANGED <<busVars, svcVars, outgoing, writerVars, sender_open>>

\* clear_subscription_set.
Unsubscribe(req) ==
    /\ Line(req) /\ req.kind = "Unsubscribe"
    /\ Take
    /\ subscribed_ifaces' = {}
    /\ asked' = NoSub
    /\ rpc' = "unsubscribed"
    /\ UNCHANGED <<busVars, svcVars, outgoing, writerVars, sender_open>>

AckSubscribe ==
    /\ rpc = "subscribed"
    /\ QueueAck("Subscribed")
    /\ rpc' = "read"

AckUnsubscribe ==
    /\ rpc = "unsubscribed"
    /\ QueueAck("Unsubscribed")
    /\ rpc' = "read"

\* Every other request goes to the service.
CallService(req) ==
    /\ Line(req) /\ req.kind \in {"Ping", "ListIfaces", "SendFrame"}
    /\ Take
    /\ call' = handle(req, owed)
    /\ rpc' = "handle"
    /\ UNCHANGED <<busVars, accepted, echoed, outgoing, writerVars, sender_open, subVars>>

SendResponse == ReplyHandled /\ rpc' = "read"

\* Faulty variant: the writer is awaited while the sender is still open.
FaultyJoin ==
    /\ rpc = "read"
    /\ rpc' = "join"
    /\ UNCHANGED <<busVars, svcVars, outgoing, writerVars, subVars, owed, sender_open>>

\* next_line() returns None, and next_line()? returns an error (I/O, or a
\* line that is not UTF-8).
ReadEof ==
    /\ rpc = "read"
    /\ DropSender
    /\ UNCHANGED <<busVars, svcVars, outgoing, writerVars, subVars, owed>>

ReadError ==
    /\ rpc = "read"
    /\ Return
    /\ UNCHANGED <<busVars, svcVars, outgoing, writerVars, subVars, owed>>

\* The client decides when these happen.
ClientStep ==
    \/ HandshakeHello \/ HandshakeOther
    \/ ReadRejected \/ ReadEof \/ ReadError
    \/ \E req \in Requests : Subscribe(req) \/ Unsubscribe(req) \/ CallService(req)

\* The reader does these by itself; HandshakeFails includes its timeout.
ReaderStep ==
    \/ SendHelloAck \/ HandshakeFails
    \/ AckSubscribe \/ AckUnsubscribe
    \/ HandleStep \/ SendResponse
    \/ Joined

\* Faulty variant: frames are skipped while replies are waiting.
FaultySkipWhileBusy ==
    \/ outgoing = <<>> /\ CheckIface("write")
    \/ outgoing # <<>> /\ CheckIface("select")

should_send_frame == CheckIface("write")

writer_task ==
    \/ RecvReply \/ RecvClosed \/ RecvFrame \/ RecvLagged
    \/ should_send_frame
    \/ Write \/ WriteFail

Next == ClientStep \/ ReaderStep \/ writer_task \/ PublishOther

\* The runtime polls both tasks.  select! starts at a random branch, so a
\* branch that is ready again and again is taken.  A write completes or
\* fails: the client reads what it is sent or the connection breaks.
Fairness ==
    /\ WF_vars(ReaderStep)
    /\ SF_vars(RecvReply) /\ SF_vars(RecvClosed)
    /\ SF_vars(RecvFrame \/ RecvLagged)
    /\ WF_vars(should_send_frame)
    /\ WF_vars(Write \/ WriteFail)

Spec == Init /\ [][Next]_vars
FairSpec == Spec /\ Fairness
=============================================================================
