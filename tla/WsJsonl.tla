------------------------------ MODULE WsJsonl ------------------------------
(***************************************************************************)
(* handle_ws_jsonl (infra/transport_ws/ws_jsonl.rs): one JSON object per   *)
(* WebSocket message.  The only transport that applies capture filters.    *)
(* The interface set and the filter list sit behind two mutexes; a         *)
(* Subscribe changes them one after the other, and the writer looks at     *)
(* them one after the other.                                               *)
(*                                                                         *)
(* A filter list is the set of event classes it lets through; the empty    *)
(* list lets all of them through.                                          *)
(***************************************************************************)
EXTENDS Session

VARIABLE frame_filters  \* the classes let through, behind a mutex of its own

jsonlVars == <<sessionVars, frame_filters>>

JsonlInit == SessionInit /\ frame_filters = Classes

FiltersTypeOK ==
    /\ TypeOK
    /\ frame_filters \in SUBSET Classes

TextMessage(req) == rpc = "read" /\ owed < MaxReq /\ req \in Requests

JsonlHelloAck ==
    /\ rpc = "start"
    /\ Answer("HelloAck")
    /\ IF Gone THEN Return ELSE rpc' = "handshake" /\ UNCHANGED sender_open
    /\ UNCHANGED <<busVars, svcVars, writerVars, subVars, frame_filters>>

\* Timeout, end or error of the WebSocket, Close, Ping or Pong, or a binary
\* message that is not UTF-8.
HandshakeFails ==
    /\ rpc = "handshake"
    /\ Return
    /\ UNCHANGED <<busVars, svcVars, outgoing, writerVars, subVars, owed, frame_filters>>

HandshakeHello ==
    /\ rpc = "handshake"
    /\ rpc' = "read"
    /\ UNCHANGED <<busVars, svcVars, outgoing, writerVars, sender_open, subVars, owed, frame_filters>>

\* Invalid JSON or another request: an Error is queued, the reader returns.
HandshakeRejected ==
    /\ rpc = "handshake"
    /\ Answer("Error")
    /\ Return
    /\ UNCHANGED <<busVars, svcVars, writerVars, subVars, frame_filters>>

\* Faulty variant: the message is skipped without an Error.
FaultySilentReject ==
    /\ rpc = "read" /\ owed < MaxReq
    /\ Take
    /\ UNCHANGED <<busVars, svcVars, outgoing, writerVars, rpc, sender_open, subVars, frame_filters>>

\* Invalid JSON or a binary message that is not UTF-8: Error, and go on.
ReadRejected ==
    /\ rpc = "read" /\ owed < MaxReq
    /\ Answer("Error")
    /\ UNCHANGED <<busVars, svcVars, writerVars, rpc, sender_open, subVars, frame_filters>>

\* First lock: the interface set.
SubscribeIfaces(req) ==
    /\ TextMessage(req) /\ req.kind = "Subscribe"
    /\ Take
    /\ subscribed_ifaces' = req.ifaces
    /\ asked' = [ifaces |-> req.ifaces, classes |-> req.classes]
    /\ rpc' = "set_filters"
    /\ UNCHANGED <<busVars, svcVars, outgoing, writerVars, sender_open, frame_filters>>

\* Second lock: the filter list.
SubscribeFilters ==
    /\ rpc = "set_filters"
    /\ frame_filters' = asked.classes
    /\ rpc' = "subscribed"
    /\ UNCHANGED <<busVars, svcVars, outgoing, writerVars, sender_open, subVars, owed>>

JsonlAckSubscribe ==
    /\ rpc = "subscribed"
    /\ QueueAck("Subscribed")
    /\ rpc' = "read"
    /\ UNCHANGED frame_filters

UnsubscribeIfaces(req) ==
    /\ TextMessage(req) /\ req.kind = "Unsubscribe"
    /\ Take
    /\ subscribed_ifaces' = {}
    /\ asked' = NoSub
    /\ rpc' = "clear_filters"
    /\ UNCHANGED <<busVars, svcVars, outgoing, writerVars, sender_open, frame_filters>>

\* Faulty variant: the filters outlive the subscription.
FaultyKeptFilters ==
    /\ rpc = "clear_filters"
    /\ rpc' = "unsubscribed"
    /\ UNCHANGED <<busVars, svcVars, outgoing, writerVars, sender_open, subVars, owed, frame_filters>>

UnsubscribeFilters ==
    /\ rpc = "clear_filters"
    /\ frame_filters' = Classes
    /\ rpc' = "unsubscribed"
    /\ UNCHANGED <<busVars, svcVars, outgoing, writerVars, sender_open, subVars, owed>>

JsonlAckUnsubscribe ==
    /\ rpc = "unsubscribed"
    /\ QueueAck("Unsubscribed")
    /\ rpc' = "read"
    /\ UNCHANGED frame_filters

\* Every other request, a second ClientHello included, goes to the service.
JsonlCallService(req) ==
    /\ TextMessage(req) /\ req.kind \in {"ClientHello", "Ping", "ListIfaces", "SendFrame"}
    /\ Take
    /\ call' = handle(req, owed)
    /\ rpc' = "handle"
    /\ UNCHANGED <<busVars, accepted, echoed, outgoing, writerVars, sender_open, subVars, frame_filters>>

JsonlSendResponse == ReplyHandled /\ rpc' = "read" /\ UNCHANGED frame_filters

\* Faulty variant: the writer is awaited while the sender is still open.
FaultyJoin ==
    /\ rpc = "read"
    /\ rpc' = "join"
    /\ UNCHANGED <<busVars, svcVars, outgoing, writerVars, subVars, owed, sender_open, frame_filters>>

\* Close, a receive error, or the end of the stream.  (Ping and Pong are
\* ignored and change nothing.)
ReadClose ==
    /\ rpc = "read"
    /\ DropSender
    /\ UNCHANGED <<busVars, svcVars, outgoing, writerVars, subVars, owed, frame_filters>>

ClientStep ==
    \/ HandshakeHello \/ HandshakeRejected
    \/ ReadRejected \/ ReadClose
    \/ \E req \in Requests : SubscribeIfaces(req) \/ UnsubscribeIfaces(req) \/ JsonlCallService(req)

ReaderStep ==
    \/ JsonlHelloAck \/ HandshakeFails
    \/ SubscribeFilters \/ JsonlAckSubscribe
    \/ UnsubscribeFilters \/ JsonlAckUnsubscribe
    \/ HandleStep /\ UNCHANGED frame_filters
    \/ JsonlSendResponse
    \/ Joined /\ UNCHANGED frame_filters

\* should_send_frame: the set under its mutex, then the filters under theirs.
CheckSet == CheckIface("check_filters") /\ UNCHANGED frame_filters

\* Faulty variants: no filter is looked at; an empty list matches nothing.
FaultyNoFilters ==
    /\ wpc = "check_filters" /\ wpc' = "write"
    /\ UNCHANGED <<busVars, svcVars, outgoing, readerVars, wmsg, replied, sendAcks, acked, lastFrame, frame_filters>>

FaultyEmptyList ==
    /\ wpc = "check_filters"
    /\ IF wmsg.cls \in frame_filters /\ frame_filters # Classes
       THEN wpc' = "write" /\ UNCHANGED wmsg
       ELSE wpc' = "select" /\ wmsg' = NoMsg
    /\ UNCHANGED <<busVars, svcVars, outgoing, readerVars, replied, sendAcks, acked, lastFrame, frame_filters>>

CheckFilters ==
    /\ wpc = "check_filters"
    /\ IF wmsg.cls \in frame_filters
       THEN wpc' = "write" /\ UNCHANGED wmsg
       ELSE wpc' = "select" /\ wmsg' = NoMsg
    /\ UNCHANGED <<busVars, svcVars, outgoing, readerVars, replied, sendAcks, acked, lastFrame, frame_filters>>

writer ==
    \/ (RecvReply \/ RecvClosed \/ RecvFrame \/ RecvLagged) /\ UNCHANGED frame_filters
    \/ CheckSet \/ CheckFilters
    \/ (Write \/ WriteFail) /\ UNCHANGED frame_filters

JsonlNext ==
    \/ ClientStep \/ ReaderStep \/ writer
    \/ PublishOther /\ UNCHANGED frame_filters

JsonlFairness ==
    /\ WF_jsonlVars(ReaderStep)
    /\ SF_jsonlVars(RecvReply /\ UNCHANGED frame_filters)
    /\ SF_jsonlVars(RecvClosed /\ UNCHANGED frame_filters)
    /\ SF_jsonlVars((RecvFrame \/ RecvLagged) /\ UNCHANGED frame_filters)
    /\ WF_jsonlVars(CheckSet \/ CheckFilters)
    /\ WF_jsonlVars((Write \/ WriteFail) /\ UNCHANGED frame_filters)

JsonlSpec == JsonlInit /\ [][JsonlNext]_jsonlVars
JsonlFairSpec == JsonlSpec /\ JsonlFairness
-----------------------------------------------------------------------------
\* When no acknowledgement is on its way the filters in force are the ones the
\* client was told of.
FilterViewsAgree ==
    (~Gone /\ ~Acknowledging /\ ~AckOnItsWay) => frame_filters = acked.classes

\* An event of a subscribed interface and class is written, unless it is lost
\* to lag, the subscription changes first or the writer ends.
DueFiltered(n) ==
    \E k \in DOMAIN unread :
        unread[k].n = n /\ unread[k].iface \in subscribed_ifaces /\ unread[k].cls \in frame_filters
FilteredFramesAreDelivered ==
    \A n \in 1..(MaxStamp - 1) :
        DueFiltered(n) ~> (lastFrame = n \/ lagged \/ Acknowledging \/ Gone)

\* The subscriptions the client may reckon with: the acknowledged one and
\* those whose acknowledgement is still to come.
Expected ==
    {acked}
    \cup {outgoing[k].sub : k \in {j \in DOMAIN outgoing : IsAck(outgoing[j])}}
    \cup (IF Acknowledging THEN {asked} ELSE {})

\* Every frame written matches both parts of one of these subscriptions.
FramesMatchOneSubscription ==
    (wpc = "write" /\ IsFrame(wmsg)) =>
        \E s \in Expected : wmsg.iface \in s.ifaces /\ wmsg.cls \in s.classes
=============================================================================
