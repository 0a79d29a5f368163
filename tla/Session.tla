------------------------------ MODULE Session ------------------------------
(***************************************************************************)
(* What the four streaming transports (TCP JSONL, TCP binary, WS text, WS  *)
(* binary) share.  A session is two tasks:                                 *)
(*   - the reader (the connection handler) takes requests off the socket,  *)
(*     changes the subscription, calls BridgeService::handle and queues    *)
(*     one reply per request on an unbounded mpsc channel;                 *)
(*   - the writer task selects between that channel and the frame bus and  *)
(*     is the only one to write to the socket.                             *)
(* They share the subscription set behind a mutex and nothing orders the   *)
(* two inputs of the writer: tokio::select! takes either ready branch.     *)
(*                                                                         *)
(* The client is the environment.  What it has been sent is summarised by  *)
(* ghosts: the subscription the last acknowledgement confirmed, the stamp  *)
(* of the last frame, the number of replies.                               *)
(***************************************************************************)
EXTENDS BridgeService

CONSTANT MaxReq     \* bound on the replies one session owes its client

ASSUME MaxReqAssumption == MaxReq \in Nat

VARIABLES
    outgoing,           \* the mpsc channel of replies
    sender_open,        \* outgoing_sender has not been dropped
    subscribed_ifaces,  \* the set behind the mutex
    asked,              \* the subscription request in the reader's hands
    rpc,                \* where the reader is
    wpc,                \* where the writer task is
    wmsg,               \* the event or message the writer holds
    owed,               \* ghost: replies owed so far, HelloAck included
    replied,            \* ghost: replies written to the socket
    sendAcks,           \* ghost: of these, the SendAcks, by their place among the replies
    acked,              \* ghost: the subscription last acknowledged to the client
    lastFrame           \* ghost: stamp of the last frame written

subVars     == <<subscribed_ifaces, asked>>
readerVars  == <<sender_open, subVars, rpc, owed>>
writerVars  == <<wpc, wmsg, replied, sendAcks, acked, lastFrame>>
sessionVars == <<busVars, svcVars, outgoing, readerVars, writerVars>>

-----------------------------------------------------------------------------
(* Messages.  re is a ghost: the number of the request a reply answers.    *)
(* sub is what an acknowledgement confirms; other replies carry NoSub.     *)

Subscription == [ifaces : SUBSET Ifaces, classes : SUBSET Classes]

\* No interface; an empty filter list lets every class through.
NoSub == [ifaces |-> {}, classes |-> Classes]

AckTypes   == {"Subscribed", "Unsubscribed"}
ReplyTypes == Responses \cup AckTypes \cup {"HelloAck"}

Reply   == [type : ReplyTypes, re : Nat, sub : Subscription]
Frame   == [type : {"Frame"}, iface : Ifaces, cls : Classes, n : 1..MaxStamp]
NoMsg   == [type |-> "none"]
IsAck(m)   == m.type \in AckTypes
IsReply(m) == m.type \in ReplyTypes
IsFrame(m) == m.type = "Frame"
IsSendAck(m) == m.type \in {"SendAckOk", "SendAckErr"}

\* A SendAck as the client understands it.  It names no request, so the client
\* takes the reply in place re for the answer to request re.
SendAcks == [re : Nat, ok : BOOLEAN]

FrameOf(ev) == [type |-> "Frame", iface |-> ev.iface, cls |-> ev.cls, n |-> ev.n]

\* Requests of a client.
Requests ==
    [kind : {"ClientHello", "Unsubscribe", "Ping", "ListIfaces"}]
    \cup [kind : {"Subscribe"}, ifaces : SUBSET Ifaces, classes : SUBSET Classes]
    \cup [kind : {"SendFrame"}, iface : Ifaces, cls : Classes, hex_ok : BOOLEAN]

Gone == wpc \in {"done", "failed"}      \* the writer task has ended

ReaderStates == {"start", "handshake", "read", "decode", "subscribed", "unsubscribed",
                 "set_filters", "clear_filters", "handle", "join", "ended", "returned"}
WriterStates == {"select", "check", "check_filters", "write", "done", "failed"}

TypeOK ==
    /\ BusTypeOK
    /\ SvcTypeOK
    /\ outgoing \in Seq(Reply)
    /\ sender_open \in BOOLEAN
    /\ subscribed_ifaces \in SUBSET Ifaces
    /\ asked \in Subscription
    /\ rpc \in ReaderStates
    /\ wpc \in WriterStates
    /\ wmsg \in Reply \cup Frame \cup {NoMsg}
    /\ owed \in Nat /\ replied \in Nat /\ sendAcks \subseteq SendAcks
    /\ acked \in Subscription
    /\ lastFrame \in 0..MaxStamp

SessionInit ==
    /\ subscribe_frames
    /\ SvcInit
    /\ outgoing = <<>> /\ sender_open = TRUE
    /\ subscribed_ifaces = {} /\ asked = NoSub
    /\ rpc = "start" /\ wpc = "select" /\ wmsg = NoMsg
    /\ owed = 0 /\ replied = 0 /\ sendAcks = {}
    /\ acked = NoSub /\ lastFrame = 0
-----------------------------------------------------------------------------
(* The reader's side of the channel.                                       *)

\* let _ = outgoing_sender.send(..): ignored once the writer has gone.
Queue(type, re, sub) ==
    outgoing' = IF Gone THEN outgoing
                        ELSE Append(outgoing, [type |-> type, re |-> re, sub |-> sub])

\* A request is taken off the socket and answered in the same step.
Answer(type) ==
    /\ owed' = owed + 1
    /\ Queue(type, owed, NoSub)

\* A request is taken off the socket; its reply is queued by a later step.
Take == owed' = owed + 1

\* The reader returns without awaiting the writer: the dropped JoinHandle
\* detaches the task and the dropped sender lets it run out.
Return ==
    /\ rpc' = "returned"
    /\ sender_open' = FALSE

\* drop(outgoing_sender); then writer_task.await.
DropSender ==
    /\ rpc' = "join"
    /\ sender_open' = FALSE

\* Faulty variant: the request is gone before its acknowledgement is made.
FaultyQueueAck(type) ==
    /\ Queue(type, owed - 1, NoSub)
    /\ asked' = NoSub
    /\ UNCHANGED <<busVars, svcVars, writerVars, sender_open, subscribed_ifaces, owed>>

\* The acknowledgement repeats what was asked for.
QueueAck(type) ==
    /\ Queue(type, owed - 1, asked)
    /\ asked' = NoSub
    /\ UNCHANGED <<busVars, svcVars, writerVars, sender_open, subscribed_ifaces, owed>>

\* The reply to a request BridgeService::handle has finished.
ReplyHandled ==
    /\ rpc = "handle" /\ call.st = "done"
    /\ Queue(call.resp, owed - 1, NoSub)
    /\ call' = Idle
    /\ UNCHANGED <<busVars, accepted, echoed, writerVars, sender_open, subVars, owed>>

\* A step of the awaited call; the reader stays where it is.
HandleStep ==
    /\ handle_step
    /\ UNCHANGED <<outgoing, readerVars, writerVars>>

\* writer_task.await returns.
Joined ==
    /\ rpc = "join" /\ Gone
    /\ rpc' = "ended"
    /\ UNCHANGED <<busVars, svcVars, outgoing, writerVars, sender_open, subVars, owed>>
-----------------------------------------------------------------------------
(* The writer task.                                                        *)

\* select!: the outgoing channel has a reply.
RecvReply ==
    /\ wpc = "select" /\ outgoing # <<>>
    /\ wmsg' = Head(outgoing) /\ outgoing' = Tail(outgoing)
    /\ wpc' = "write"
    /\ UNCHANGED <<busVars, svcVars, readerVars, replied, sendAcks, acked, lastFrame>>

\* Faulty variant: the task ends as soon as the sender is dropped.
FaultyRecvClosed ==
    /\ wpc = "select" /\ ~sender_open
    /\ wpc' = "done"
    /\ drop_receiver
    /\ UNCHANGED <<svcVars, outgoing, readerVars, wmsg, replied, sendAcks, acked, lastFrame>>

\* select!: the outgoing channel is empty and its sender dropped.
RecvClosed ==
    /\ wpc = "select" /\ outgoing = <<>> /\ ~sender_open
    /\ wpc' = "done"
    /\ drop_receiver
    /\ UNCHANGED <<svcVars, outgoing, readerVars, wmsg, replied, sendAcks, acked, lastFrame>>

\* Faulty variant: the receiver does not move past the event it returns.
FaultyRecvTwice ==
    /\ wpc = "select"
    /\ recv_event \/ UNCHANGED busVars
    /\ unread # <<>>
    /\ wmsg' = FrameOf(Head(unread))
    /\ wpc' = "check"
    /\ UNCHANGED <<svcVars, outgoing, readerVars, replied, sendAcks, acked, lastFrame>>

\* select!: the bus has an event for this receiver.
RecvFrame ==
    /\ wpc = "select"
    /\ recv_event
    /\ wmsg' = FrameOf(Head(unread))
    /\ wpc' = "check"
    /\ UNCHANGED <<svcVars, outgoing, readerVars, replied, sendAcks, acked, lastFrame>>

\* select!: the receiver lagged; the loss is logged and the loop goes on.
RecvLagged ==
    /\ wpc = "select"
    /\ recv_lagged
    /\ UNCHANGED <<svcVars, outgoing, readerVars, writerVars>>

\* should_send_frame: one look at the set under its mutex.
CheckIface(next) ==
    /\ wpc = "check"
    /\ IF wmsg.iface \in subscribed_ifaces
       THEN wpc' = next /\ UNCHANGED wmsg
       ELSE wpc' = "select" /\ wmsg' = NoMsg
    /\ UNCHANGED <<busVars, svcVars, outgoing, readerVars, replied, sendAcks, acked, lastFrame>>

\* The message is on the socket.
Write ==
    /\ wpc = "write"
    /\ wpc' = "select" /\ wmsg' = NoMsg
    /\ replied'   = IF IsReply(wmsg) THEN replied + 1 ELSE replied
    /\ sendAcks'  = IF IsSendAck(wmsg)
                    THEN sendAcks \cup {[re |-> replied, ok |-> wmsg.type = "SendAckOk"]}
                    ELSE sendAcks
    /\ acked'     = IF IsAck(wmsg) THEN wmsg.sub ELSE acked
    /\ lastFrame' = IF IsFrame(wmsg) THEN wmsg.n ELSE lastFrame
    /\ UNCHANGED <<busVars, svcVars, outgoing, readerVars>>

\* Faulty variant: the error of the write is logged and the loop goes on.
FaultyWriteFail ==
    /\ wpc = "write"
    /\ wpc' = "select" /\ wmsg' = NoMsg
    /\ UNCHANGED <<busVars, svcVars, outgoing, readerVars, replied, sendAcks, acked, lastFrame>>

\* The write fails: the task ends, and both receivers are dropped with it.
WriteFail ==
    /\ wpc = "write"
    /\ wpc' = "failed" /\ wmsg' = NoMsg
    /\ outgoing' = <<>>
    /\ drop_receiver
    /\ UNCHANGED <<svcVars, readerVars, replied, sendAcks, acked, lastFrame>>
-----------------------------------------------------------------------------
\* Everybody else who publishes: the SocketCAN readers, the fake generator
\* and the Tx events of other sessions.
PublishOther ==
    /\ \E i \in Ifaces, c \in Classes : publish_frame(i, c)
    /\ UNCHANGED <<svcVars, outgoing, readerVars, writerVars>>
-----------------------------------------------------------------------------
(* Properties every session has.                                           *)

\* Some acknowledgement is still on its way to the client.
AckOnItsWay ==
    \/ \E k \in DOMAIN outgoing : IsAck(outgoing[k])
    \/ wpc = "write" /\ IsAck(wmsg)

\* The reader has changed the set and not queued the acknowledgement yet.
Acknowledging == rpc \in {"subscribed", "unsubscribed", "set_filters", "clear_filters"}

\* Every frame the writer puts on the socket is of an interface the client
\* asked for: in the subscription last acknowledged to it, or in one whose
\* acknowledgement it is still to receive.  (The set is checked under the
\* mutex, then the lock is released before the write.)
FramesAreSubscribed ==
    (wpc = "write" /\ IsFrame(wmsg)) =>
        \/ wmsg.iface \in acked.ifaces
        \/ \E k \in DOMAIN outgoing :
              IsAck(outgoing[k]) /\ wmsg.iface \in outgoing[k].sub.ifaces
        \/ Acknowledging /\ wmsg.iface \in asked.ifaces

\* When no acknowledgement is on its way the daemon filters by exactly the
\* subscription the client believes in.
ViewsAgree ==
    (~Gone /\ ~Acknowledging /\ ~AckOnItsWay)
        => subscribed_ifaces = acked.ifaces

\* When no acknowledgement is on its way, the frame being written matches the
\* interfaces and the capture filters of the subscription last acknowledged,
\* although the check and the write are separate steps.
QuietFramesConform ==
    (wpc = "write" /\ IsFrame(wmsg) /\ ~Acknowledging /\ ~AckOnItsWay)
        => wmsg.iface \in acked.ifaces /\ wmsg.cls \in acked.classes

\* Frames reach the client in the order of publication and at most once,
\* across lag, filtering and changes of subscription.  Stamps saturate at
\* MaxStamp, where order can no longer be told.
FramesInOrder ==
    (wpc = "write" /\ IsFrame(wmsg)) => (wmsg.n > lastFrame \/ wmsg.n = MaxStamp)

\* Replies reach the client one per request and in the order of requests,
\* whichever of them waited for a port.
RepliesInOrder ==
    (wpc = "write" /\ IsReply(wmsg)) => wmsg.re = replied

\* A writer that ran out without a write error has written every reply the
\* session owed, whichever way the reader left.
NothingOwed == wpc = "done" => (replied = owed /\ outgoing = <<>>)

\* A client that takes replies for answers in their order is told the truth
\* about each of its own sends: ok: true exactly when the transmit port returned
\* Ok for the frame of that request, and then its Tx event is published before
\* the client knows.  (SendAck has no request id; handle awaits the port, and
\* the reply goes through the channel and the writer task.)
SendAcksAreTrue ==
    \A a \in sendAcks :
        /\ a.ok <=> \E f \in accepted : f.re = a.re
        /\ \A f \in accepted : f.re = a.re => f \in echoed

\* The reply in the writer's hands, then those in the channel; the frame it is
\* writing; how it ended.
Pending == IF wpc = "write" /\ IsReply(wmsg) THEN <<wmsg>> \o outgoing ELSE outgoing
Writing == IF wpc = "write" /\ IsFrame(wmsg) THEN wmsg ELSE NoMsg
Over    == IF wpc = "done" THEN "ended" ELSE IF wpc = "failed" THEN "broken" ELSE "no"

C == INSTANCE SessionContract WITH
         pending <- Pending, intent <- asked, frame <- Writing, over <- Over

\* The two tasks together implement the contract of SessionContract: the
\* unbounded channel, the mutex and the select! loop are invisible.
KeepsContract == C!Spec

\* Once the reader waits for the writer, the session ends, even while the
\* bus never runs dry.
SessionEnds == rpc = "join" ~> rpc = "ended"

\* A writer left behind by a reader that returned early ends as well.
DetachedWriterEnds == rpc = "returned" ~> Gone

\* Every request is answered on the socket unless a write fails, although the
\* reply competes with frames that never stop and the client may have left.
RequestsAreAnswered ==
    \A k \in 1..MaxReq : (owed >= k) ~> (replied >= k \/ wpc = "failed")

\* An event waiting for a subscribed session is written, unless it is lost to
\* lag, the subscription changes first or the writer ends.
Due(n) == \E k \in DOMAIN unread : unread[k].n = n /\ unread[k].iface \in subscribed_ifaces
FramesAreDelivered ==
    \A n \in 1..(MaxStamp - 1) :
        Due(n) ~> (lastFrame = n \/ lagged \/ Acknowledging \/ Gone)
=============================================================================
