--------------------------- MODULE TcpJsonlProofs ---------------------------
(***************************************************************************)
(* The TCP JSONL session keeps the invariant of SessionProofs, and with    *)
(* it the safety properties of Session and the contract, for any           *)
(* interfaces, any capacity of the bus and any number of requests.  The    *)
(* last part follows the send acknowledgements.                            *)
(***************************************************************************)
EXTENDS TcpJsonl, SessionProofs

\* Every reader state a step of this transport starts from or leads to.
LEMMA ClientInv == SessionInv /\ ClientStep => SessionInv' /\ Kept
<1> SUFFICES ASSUME SessionInv, ClientStep PROVE SessionInv' /\ Kept
  BY Zenon
<1>a. sender_open \in BOOLEAN /\ (~sender_open => Leaving)
  BY Zenon DEF SessionInv, Inv, TypeInv, TypeOK, ReplyInv
<1> USE DEF ReaderStates, Busy, Acknowledging, Leaving
<1>1. CASE HandshakeHello
  BY <1>1, <1>a, MoveStep, Zenon DEF HandshakeHello
<1>2. CASE HandshakeOther
  BY <1>2, <1>a, AnswerStep, Zenon DEF HandshakeOther, Return, ReplyTypes, AckTypes, Responses
<1>3. CASE ReadRejected
  BY <1>3, <1>a, AnswerStep, Zenon DEF ReadRejected, ReplyTypes, AckTypes, Responses
<1>4. CASE ReadEof
  BY <1>4, MoveStep, Zenon DEF ReadEof, DropSender
<1>5. CASE ReadError
  BY <1>5, MoveStep, Zenon DEF ReadError, Return
<1>6. ASSUME NEW req \in Requests, Subscribe(req) PROVE SessionInv' /\ Kept
  <2>1. req.ifaces \in SUBSET Ifaces /\ req.classes \in SUBSET Classes
    BY <1>6, Zenon DEF Subscribe, Requests
  <2>2. asked' \in Subscription /\ subscribed_ifaces' = asked'.ifaces
    BY <1>6, <2>1, Zenon DEF Subscribe, Subscription
  <2> QED
    BY <1>6, <2>2, TakeStep, SMTT(30) DEF Subscribe, Line, svcVars
<1>7. ASSUME NEW req \in Requests, Unsubscribe(req) PROVE SessionInv' /\ Kept
  <2>1. asked' \in Subscription /\ subscribed_ifaces' = asked'.ifaces
    BY <1>7, Zenon DEF Unsubscribe, Subscription, NoSub
  <2> QED
    BY <1>7, <2>1, TakeStep, Zenon DEF Unsubscribe, Line, svcVars
<1>8. ASSUME NEW req \in Requests, CallService(req) PROVE SessionInv' /\ Kept
  <2>1. SvcTypeOK' /\ (call'.st \in {"can_tx", "publish"} => call'.ev \in Sends)
    BY <1>8, HandleType, Zenon DEF CallService, SessionInv, Inv
  <2> QED
    BY <1>8, <2>1, TakeStep, Zenon DEF CallService, Line
<1> QED
  BY <1>1, <1>2, <1>3, <1>4, <1>5, <1>6, <1>7, <1>8, SMTT(30) DEF ClientStep

\* What the reader does by itself.
LEMMA ReaderInv == SessionInv /\ ReaderStep => SessionInv' /\ Kept
<1> SUFFICES ASSUME SessionInv, ReaderStep PROVE SessionInv' /\ Kept
  BY Zenon
<1>a. sender_open \in BOOLEAN /\ (~sender_open => Leaving)
  BY Zenon DEF SessionInv, Inv, TypeInv, TypeOK, ReplyInv
<1>1. CASE SendHelloAck
  BY <1>1, <1>a, AnswerStep, Zenon DEF SendHelloAck, Return, ReplyTypes, AckTypes, Responses,
     ReaderStates, Busy, Acknowledging, Leaving
<1>2. CASE HandshakeFails
  BY <1>2, MoveStep, Zenon DEF HandshakeFails, Return, ReaderStates, Busy, Acknowledging, Leaving
<1>3. CASE AckSubscribe \/ AckUnsubscribe
  BY <1>3, OwedReplyStep, Zenon DEF AckSubscribe, AckUnsubscribe, AckTypes,
     ReaderStates, Busy, Acknowledging, Leaving
<1>4. CASE SendResponse
  BY <1>4, OwedReplyStep, Zenon DEF SendResponse, ReplyHandled, ReaderStates, Busy, Acknowledging, Leaving
<1>5. CASE HandleStep \/ Joined
  BY <1>5, SharedStep, Zenon
<1> QED
  BY <1>1, <1>2, <1>3, <1>4, <1>5, SMTT(30) DEF ReaderStep

\* Every step keeps the invariant, and is one of the contract or one it does
\* not see.
LEMMA StepInv == SessionInv /\ [Next]_vars => SessionInv' /\ Kept
<1> SUFFICES ASSUME SessionInv, [Next]_vars PROVE SessionInv' /\ Kept
  BY Zenon
<1>1. CASE ClientStep
  BY <1>1, ClientInv, Zenon
<1>2. CASE ReaderStep
  BY <1>2, ReaderInv, Zenon
<1>3. CASE writer_task \/ PublishOther
  BY <1>3, SharedStep, Zenon DEF writer_task, should_send_frame
<1>4. CASE UNCHANGED vars
  BY <1>4, StutterStep, Zenon DEF vars
<1> QED
  BY <1>1, <1>2, <1>3, <1>4 DEF Next

\* The invariant of SessionProofs is an invariant of the TCP JSONL session.
THEOREM TcpJsonlInv == Spec => []SessionInv
<1>1. Init => SessionInv
  BY InitStep, Zenon DEF Init
<1> QED
  BY <1>1, StepInv, PTL DEF Spec

\* The TCP JSONL session implements the contract: one reply per request, in
\* order; only announced frames, in order and at most once; nothing owed at
\* the end.
THEOREM TcpJsonlKeepsContract == Spec => KeepsContract
<1>1. Init => C!Init
  BY InitStep, Zenon DEF Init
<1>2. SessionInv /\ [Next]_vars => [C!Next]_(C!vars)
  BY StepInv, Zenon DEF Kept
<1> QED
  BY <1>1, <1>2, TcpJsonlInv, PTL DEF Spec, KeepsContract, C!Spec

\* Every variable of the session keeps its type.
THEOREM TcpJsonlTypeCorrect == Spec => []TypeOK
  BY TcpJsonlInv, SessionImplies, PTL

\* Every frame written is of an interface of a subscription the client has
\* been, or is about to be, told is in force.
THEOREM TcpJsonlFramesAreSubscribed == Spec => []FramesAreSubscribed
  BY TcpJsonlInv, SessionImplies, PTL

\* With no acknowledgement on its way, daemon and client agree on the
\* interfaces subscribed.
THEOREM TcpJsonlViewsAgree == Spec => []ViewsAgree
  BY TcpJsonlInv, SessionImplies, PTL

\* Frames are written in the order of publication and at most once.
THEOREM TcpJsonlFramesInOrder == Spec => []FramesInOrder
  BY TcpJsonlInv, SessionImplies, PTL

\* Replies are written one per request, in the order of the requests.
THEOREM TcpJsonlRepliesInOrder == Spec => []RepliesInOrder
  BY TcpJsonlInv, SessionImplies, PTL

\* A writer task that ends without a write error has written every reply.
THEOREM TcpJsonlNothingOwed == Spec => []NothingOwed
  BY TcpJsonlInv, SessionImplies, PTL
-----------------------------------------------------------------------------
(* Send acknowledgements.                                                  *)

\* The answer to request k, ok or not, is true.
Truth(k, ok) ==
    /\ ok <=> \E f \in accepted : f.re = k
    /\ \A f \in accepted : f.re = k => f \in echoed

\* Request k has been taken and the service is not at work on it.
Past(k) == k \in Nat /\ k < owed /\ (call.st # "idle" => k # owed - 1)

\* Reply r is between the reader and the client.
OnTheWay(r) ==
    \/ \E k \in DOMAIN outgoing : r = outgoing[k]
    \/ HoldsReply /\ r = wmsg

\* What was acknowledged, or is on its way, is true and remains so: no frame
\* will be sent any more for that request.
AcksTrue ==
    /\ \A a \in sendAcks : Past(a.re) /\ Truth(a.re, a.ok)
    /\ \A r \in Reply : OnTheWay(r) /\ IsSendAck(r) =>
          Past(r.re) /\ Truth(r.re, r.type = "SendAckOk")

\* The call at work is for the newest request: no frame was accepted for it
\* before, its own alone while it is published, and then its answer is true.
CallTrue ==
    /\ \A f \in accepted : f.re < owed
    /\ call.st # "idle" => rpc = "handle"
    /\ call.st = "can_tx" => call.ev.re = owed - 1 /\ \A f \in accepted : f.re # owed - 1
    /\ call.st = "publish" =>
          /\ call.ev.re = owed - 1 /\ call.ev \in accepted
          /\ \A f \in accepted : f.re = owed - 1 => f = call.ev
    /\ call.st = "done" /\ call.resp \in {"SendAckOk", "SendAckErr"} => Truth(owed - 1, call.resp = "SendAckOk")

SendInv == AcksTrue /\ CallTrue

\* An answer remains true while no frame is accepted for its request.
LEMMA TruthStays ==
    ASSUME NEW k, NEW ok, Truth(k, ok), echoed \subseteq echoed',
           \A f \in accepted : f \in accepted', \A f \in accepted' : f \in accepted \/ f.re # k
    PROVE  Truth(k, ok)'
  BY Zenon DEF Truth

\* So do all those past.
LEMMA AcksStay ==
    ASSUME AcksTrue, UNCHANGED sendAcks, echoed \subseteq echoed',
           \A k \in Nat : Past(k) => Past(k)',
           \A r \in Reply : OnTheWay(r)' /\ IsSendAck(r) => OnTheWay(r),
           \A f \in accepted : f \in accepted', \A f \in accepted' : f \in accepted \/ ~Past(f.re)
    PROVE  AcksTrue'
<1>1. ASSUME NEW k, NEW ok, Past(k), Truth(k, ok) PROVE Past(k)' /\ Truth(k, ok)'
  <2>1. k \in Nat /\ \A f \in accepted' : f \in accepted \/ f.re # k
    BY <1>1, Zenon DEF Past
  <2> QED
    BY <1>1, <2>1, TruthStays, Zenon
<1>2. ASSUME NEW a \in sendAcks PROVE Past(a.re)' /\ Truth(a.re, a.ok)'
  BY <1>1, <1>2, Zenon DEF AcksTrue
<1>3. ASSUME NEW r \in Reply, OnTheWay(r)', IsSendAck(r)
      PROVE  Past(r.re)' /\ Truth(r.re, r.type = "SendAckOk")'
  BY <1>1, <1>3, Zenon DEF AcksTrue
<1> QED
  BY <1>2, <1>3, Zenon DEF AcksTrue

\* A step that leaves the service alone: of the writer, or of a reader that is
\* not waiting for it.
LEMMA QuietSends ==
    ASSUME Inv, SendInv, UNCHANGED <<call, accepted, echoed, sendAcks>>,
           \A r \in Reply : OnTheWay(r)' /\ IsSendAck(r) => OnTheWay(r),
           UNCHANGED <<rpc, owed>> \/ (rpc # "handle" /\ owed' \in {owed, owed + 1})
    PROVE  SendInv'
<1>1. owed \in Nat /\ accepted \subseteq Sends /\ (rpc # "handle" => call.st = "idle")
  BY Zenon DEF Inv, TypeInv, TypeOK, SvcTypeOK, SendInv, CallTrue
<1>2. \A k \in Nat : Past(k) => Past(k)'
  BY <1>1 DEF Past
<1>3. AcksTrue'
  BY <1>2, AcksStay, Zenon DEF SendInv
<1>4. CASE UNCHANGED <<rpc, owed>>
  BY <1>3, <1>4, Zenon DEF SendInv, CallTrue, Truth
<1>5. CASE rpc # "handle" /\ owed' \in {owed, owed + 1}
  <2>1. \A f \in accepted : f.re \in Nat /\ f.re < owed
    BY <1>1, Zenon DEF Sends, SendInv, CallTrue
  <2>2. \A f \in accepted : f.re < owed'
    BY <1>1, <1>5, <2>1
  <2> QED
    BY <1>1, <1>3, <1>5, <2>2, Zenon DEF SendInv, CallTrue
<1> QED
  BY <1>3, <1>4, <1>5, Zenon DEF SendInv

\* What the channel holds after a reply is queued.
LEMMA QueueOnTheWay ==
    ASSUME Inv, NEW t \in ReplyTypes, NEW re \in Nat, NEW sub \in Subscription, Queue(t, re, sub),
           UNCHANGED <<wpc, wmsg>>, NEW r \in Reply, OnTheWay(r)'
    PROVE  OnTheWay(r) \/ r = [type |-> t, re |-> re, sub |-> sub]
<1> DEFINE q == [type |-> t, re |-> re, sub |-> sub]
<1>1. outgoing \in Seq(Reply) /\ q \in Reply
  BY Zenon DEF Inv, TypeInv, TypeOK, Reply
<1>2. outgoing' = outgoing \/ outgoing' = Append(outgoing, q)
  BY Zenon DEF Queue
<1>3. HoldsReply' <=> HoldsReply
  BY Zenon DEF HoldsReply, IsReply
<1> HIDE DEF q
<1>4. ASSUME outgoing' = Append(outgoing, q), NEW k \in DOMAIN outgoing'
      PROVE  outgoing'[k] = q \/ (k \in DOMAIN outgoing /\ outgoing'[k] = outgoing[k])
  BY <1>1, <1>4, AppendFacts
<1>5. OnTheWay(r) \/ r = q
  BY <1>2, <1>3, <1>4, Zenon DEF OnTheWay
<1> QED
  BY <1>5, Zenon DEF q

\* What the writer takes off the channel it holds.
LEMMA RecvOnTheWay ==
    ASSUME Inv, RecvReply, NEW r \in Reply, OnTheWay(r)'
    PROVE  OnTheWay(r)
<1>1. outgoing \in Seq(Reply) /\ outgoing # <<>> /\ outgoing' = Tail(outgoing) /\ wmsg' = Head(outgoing)
  BY Zenon DEF RecvReply, Inv, TypeInv, TypeOK
<1>2. 1 \in DOMAIN outgoing /\ wmsg' = outgoing[1]
      /\ \A k \in DOMAIN outgoing' : k + 1 \in DOMAIN outgoing /\ outgoing'[k] = outgoing[k + 1]
  BY <1>1, TailFacts
<1> QED
  BY <1>2, Zenon DEF OnTheWay

\* An acknowledgement that reaches the client was on its way.
LEMMA WriteSends ==
    ASSUME Inv, SendInv, Write
    PROVE  SendInv'
<1> DEFINE a == [re |-> replied, ok |-> wmsg.type = "SendAckOk"]
<1>1. /\ wpc = "write" /\ wpc' = "select" /\ UNCHANGED <<outgoing, call, accepted, echoed, rpc, owed>>
      /\ sendAcks' = IF IsSendAck(wmsg) THEN sendAcks \cup {a} ELSE sendAcks
  BY Zenon DEF Write, svcVars, readerVars
<1>2. \A r : OnTheWay(r)' => OnTheWay(r)
  BY <1>1, Zenon DEF OnTheWay, HoldsReply
<1>3. CallTrue'
  BY <1>1, Zenon DEF SendInv, CallTrue, Truth
<1>4. ASSUME NEW k, NEW ok, Past(k), Truth(k, ok) PROVE Past(k)' /\ Truth(k, ok)'
  BY <1>1, <1>4, Zenon DEF Past, Truth
<1>5. ASSUME NEW r \in Reply, OnTheWay(r)', IsSendAck(r)
      PROVE  Past(r.re)' /\ Truth(r.re, r.type = "SendAckOk")'
  BY <1>2, <1>4, <1>5, Zenon DEF SendInv, AcksTrue
<1>6. ASSUME NEW b \in sendAcks PROVE Past(b.re)' /\ Truth(b.re, b.ok)'
  BY <1>4, <1>6, Zenon DEF SendInv, AcksTrue
<1>7. ASSUME NEW b, b = a, IsSendAck(wmsg) PROVE Past(b.re)' /\ Truth(b.re, b.ok)'
  <2>1. HoldsReply /\ wmsg.re = replied /\ wmsg \in Reply
    <3>1. IsReply(wmsg)
      BY <1>7, Zenon DEF IsSendAck, IsReply, ReplyTypes, Responses
    <3>2. wmsg \in Reply
      BY <3>1, SeenTypes, Kinds, Zenon
    <3> QED
      BY <1>1, <3>1, <3>2, Zenon DEF HoldsReply, Inv, ReplyInv, Gone
  <2>2. Past(wmsg.re) /\ Truth(wmsg.re, wmsg.type = "SendAckOk")
    BY <1>7, <2>1, Zenon DEF SendInv, AcksTrue, OnTheWay
  <2>3. b.re = wmsg.re /\ b.ok = (wmsg.type = "SendAckOk")
    BY <1>7, <2>1, Zenon
  <2>4. Past(b.re) /\ Truth(b.re, b.ok)
    BY <2>2, <2>3, Zenon
  <2> QED
    BY <1>4, <2>4, Zenon
<1> HIDE DEF a
<1>8. AcksTrue'
  BY <1>1, <1>5, <1>6, <1>7, Zenon DEF AcksTrue
<1> QED
  BY <1>3, <1>8, Zenon DEF SendInv

\* The port accepts the frame of the newest request, which is then published,
\* and then answered.
LEMMA HandleSends ==
    ASSUME Inv, SendInv, HandleStep
    PROVE  SendInv'
<1>1. UNCHANGED <<outgoing, wpc, wmsg, sendAcks, rpc, owed>>
  BY Zenon DEF HandleStep, readerVars, writerVars
<1>2. \A r : OnTheWay(r)' => OnTheWay(r)
  BY <1>1, Zenon DEF OnTheWay, HoldsReply
<1>3. call.st # "idle" /\ call'.st # "idle"
  BY Zenon DEF HandleStep, handle_step, handle_list_ifaces, handle_can_tx_ok, handle_can_tx_err,
     handle_publish_tx, Done, Idle, Inv, TypeInv, TypeOK, SvcTypeOK
<1>4. \A k \in Nat : Past(k) => Past(k)'
  BY <1>1, <1>3, Zenon DEF Past
<1>5. owed \in Nat /\ owed > 0
  BY <1>3 DEF SendInv, CallTrue, Inv, TypeInv, TypeOK, Busy
<1>6. CASE handle_list_ifaces \/ handle_can_tx_err
  <2>1. UNCHANGED <<accepted, echoed>> /\ call'.st = "done"
        /\ (call'.resp \in {"SendAckOk", "SendAckErr"} => call'.resp = "SendAckErr" /\ call.st = "can_tx")
    BY <1>6, Zenon DEF handle_list_ifaces, handle_can_tx_err, Done, Idle
  <2>2. AcksTrue'
    BY <1>1, <1>2, <1>4, <2>1, AcksStay, Zenon DEF SendInv
  <2>3. CallTrue'
    BY <1>1, <1>3, <2>1, Zenon DEF SendInv, CallTrue, Truth
  <2> QED
    BY <2>2, <2>3, Zenon DEF SendInv
<1>7. CASE handle_can_tx_ok
  <2>1. /\ call.st = "can_tx" /\ call'.st = "publish" /\ call'.ev = call.ev
        /\ accepted' = accepted \cup {call.ev} /\ echoed' = echoed
    BY <1>7, Zenon DEF handle_can_tx_ok, Inv, TypeInv, TypeOK, SvcTypeOK
  <2>2. call.ev.re = owed - 1 /\ ~Past(call.ev.re) /\ \A f \in accepted : f.re # owed - 1
    BY <1>3, <2>1, Zenon DEF SendInv, CallTrue, Past
  <2>3. AcksTrue'
    BY <1>1, <1>2, <1>4, <2>1, <2>2, AcksStay, Zenon DEF SendInv
  <2>4. \A f \in accepted' : f.re < owed
    BY <1>5, <2>1, <2>2 DEF SendInv, CallTrue
  <2>5. CallTrue'
    BY <1>1, <1>3, <2>1, <2>2, <2>4, Zenon DEF SendInv, CallTrue
  <2> QED
    BY <2>3, <2>5, Zenon DEF SendInv
<1>8. CASE handle_publish_tx
  <2>1. /\ call.st = "publish" /\ call'.st = "done" /\ call'.resp = "SendAckOk"
        /\ accepted' = accepted /\ echoed' = echoed \cup {call.ev}
    BY <1>8, Zenon DEF handle_publish_tx, Done, Idle
  <2>2. AcksTrue'
    BY <1>1, <1>2, <1>4, <2>1, AcksStay, Zenon DEF SendInv
  <2>3. Truth(owed - 1, call.resp = "SendAckOk")'
    BY <1>1, <2>1, Zenon DEF SendInv, CallTrue, Truth
  <2>4. CallTrue'
    BY <1>1, <1>3, <2>1, <2>3, Zenon DEF SendInv, CallTrue
  <2> QED
    BY <2>2, <2>4, Zenon DEF SendInv
<1> QED
  BY <1>6, <1>7, <1>8, Zenon DEF HandleStep, handle_step

\* The answer of the service is queued.
LEMMA ResponseSends ==
    ASSUME Inv, SendInv, ReplyHandled
    PROVE  SendInv'
<1>1. /\ rpc = "handle" /\ call.st = "done" /\ call' = Idle /\ Queue(call.resp, owed - 1, NoSub)
      /\ UNCHANGED <<accepted, echoed, sendAcks, owed, wpc, wmsg>>
  BY Zenon DEF ReplyHandled, writerVars
<1>2. call'.st = "idle"
  BY <1>1, Zenon DEF Idle
<1>3. owed \in Nat /\ owed - 1 \in Nat /\ call.resp \in ReplyTypes /\ NoSub \in Subscription
  BY <1>1, ReaderFacts, Zenon DEF Inv, Busy, ReplyTypes
<1>4. \A k : Past(k) => Past(k)'
  BY <1>1, <1>2, Zenon DEF Past
<1>5. ASSUME NEW k, NEW ok, Truth(k, ok) PROVE Truth(k, ok)'
  BY <1>1, <1>5, Zenon DEF Truth
<1>6. CallTrue'
  BY <1>1, <1>2, Zenon DEF SendInv, CallTrue
<1>7. ASSUME NEW r \in Reply, OnTheWay(r)', IsSendAck(r)
      PROVE  Past(r.re)' /\ Truth(r.re, r.type = "SendAckOk")'
  <2>1. CASE OnTheWay(r)
    BY <1>4, <1>5, <1>7, <2>1, Zenon DEF SendInv, AcksTrue
  <2>2. CASE r = [type |-> call.resp, re |-> owed - 1, sub |-> NoSub]
    <3>1. r.type = call.resp /\ r.re = owed - 1
      BY <2>2, Zenon
    <3>2. Truth(r.re, r.type = "SendAckOk")
      BY <1>1, <1>7, <3>1, Zenon DEF SendInv, CallTrue, IsSendAck
    <3>3. Past(r.re)'
      BY <1>1, <1>2, <1>3, <3>1 DEF Past
    <3> QED
      BY <1>5, <3>2, <3>3, Zenon
  <2> QED
    BY <1>1, <1>3, <1>7, <2>1, <2>2, QueueOnTheWay, Zenon
<1>8. AcksTrue'
  BY <1>1, <1>4, <1>5, <1>7, Zenon DEF SendInv, AcksTrue
<1> QED
  BY <1>6, <1>8, Zenon DEF SendInv

\* A call starts for a request for which nothing was accepted.
LEMMA CallSends ==
    ASSUME Inv, SendInv, NEW req \in Requests, CallService(req)
    PROVE  SendInv'
<1>1. /\ rpc = "read" /\ rpc' = "handle" /\ owed' = owed + 1 /\ call' = handle(req, owed)
      /\ req.kind \in {"Ping", "ListIfaces", "SendFrame"}
      /\ UNCHANGED <<accepted, echoed, sendAcks, outgoing, wpc, wmsg>>
  BY Zenon DEF CallService, Line, Take, writerVars
<1>2. call.st = "idle" /\ owed \in Nat /\ accepted \subseteq Sends
  BY <1>1, Zenon DEF SendInv, CallTrue, Inv, TypeInv, TypeOK, SvcTypeOK
<1>3. owed' - 1 = owed /\ \A k \in Nat : Past(k) => Past(k)'
  BY <1>1, <1>2 DEF Past
<1>4. \A r : OnTheWay(r)' => OnTheWay(r)
  BY <1>1, Zenon DEF OnTheWay, HoldsReply
<1>5. AcksTrue'
  BY <1>1, <1>3, <1>4, AcksStay, Zenon DEF SendInv
<1>6. \A f \in accepted : f.re \in Nat /\ f.re < owed /\ f.re < owed' /\ f.re # owed
  <2>1. \A f \in accepted : f.re \in Nat /\ f.re < owed
    BY <1>2, Zenon DEF Sends, SendInv, CallTrue
  <2> QED
    BY <1>1, <1>2, <2>1
<1>7. CASE req.kind = "Ping" \/ (req.kind = "SendFrame" /\ ~req.hex_ok)
  <2>1. call'.st = "done" /\ call'.resp # "SendAckOk"
    BY <1>1, <1>7, Zenon DEF handle, Done, Idle
  <2>2. CallTrue'
    BY <1>1, <1>3, <1>6, <2>1, ZenonT(40) DEF CallTrue, Truth
  <2> QED
    BY <1>5, <2>2, Zenon DEF SendInv
<1>8. CASE req.kind = "ListIfaces"
  <2>1. call'.st = "list"
    BY <1>1, <1>8, Zenon DEF handle, Idle
  <2> QED
    BY <1>1, <1>5, <1>6, <2>1, Zenon DEF SendInv, CallTrue
<1>9. CASE req.kind = "SendFrame" /\ req.hex_ok
  <2>1. call'.st = "can_tx" /\ call'.ev.re = owed
    BY <1>1, <1>9, Zenon DEF handle, Idle
  <2> QED
    BY <1>1, <1>3, <1>5, <1>6, <2>1, Zenon DEF SendInv, CallTrue
<1> QED
  BY <1>1, <1>7, <1>8, <1>9, Zenon

\* The reader queues a reply of its own.
LEMMA AnswerSends ==
    ASSUME Inv, SendInv, NEW t \in ReplyTypes \ {"SendAckOk", "SendAckErr"}, NEW re \in Nat,
           NEW sub \in Subscription, Queue(t, re, sub), rpc # "handle", owed' \in {owed, owed + 1},
           UNCHANGED <<wpc, wmsg, sendAcks, call, accepted, echoed>>
    PROVE  SendInv'
<1>1. ASSUME NEW r \in Reply, OnTheWay(r)', IsSendAck(r) PROVE OnTheWay(r)
  <2>1. OnTheWay(r) \/ r = [type |-> t, re |-> re, sub |-> sub]
    BY <1>1, QueueOnTheWay, Zenon
  <2>2. r.type # t
    BY <1>1, Zenon DEF IsSendAck
  <2>3. [type |-> t, re |-> re, sub |-> sub].type = t
    BY Zenon
  <2> QED
    BY <2>1, <2>2, <2>3
<1> QED
  BY <1>1, QuietSends, Zenon

\* Every step keeps the acknowledgements true.
LEMMA StepSends == Inv /\ SendInv /\ [Next]_vars => SendInv'
<1> SUFFICES ASSUME Inv, SendInv, [Next]_vars PROVE SendInv'
  BY Zenon
<1>a. asked \in Subscription /\ NoSub \in Subscription /\ owed \in Nat /\ (Busy => owed - 1 \in Nat)
  BY ReaderFacts, Zenon DEF Inv
<1>b. AckTypes \cup {"Error", "HelloAck"} \subseteq ReplyTypes \ {"SendAckOk", "SendAckErr"}
  BY Zenon DEF ReplyTypes, Responses, AckTypes
<1> USE DEF svcVars, writerVars, readerVars
<1>1. CASE \/ HandshakeHello \/ HandshakeFails \/ ReadEof \/ ReadError \/ Joined
           \/ (\E req \in Requests : Subscribe(req) \/ Unsubscribe(req))
           \/ PublishOther \/ UNCHANGED vars
  <2>1. UNCHANGED <<outgoing, wpc, wmsg, sendAcks, call, accepted, echoed>>
        /\ (UNCHANGED <<rpc, owed>> \/ (rpc # "handle" /\ owed' \in {owed, owed + 1}))
    BY <1>1 DEF HandshakeHello, HandshakeFails, ReadEof, ReadError, Joined, Subscribe, Unsubscribe,
       PublishOther, Line, Take, Return, DropSender, vars, sessionVars
  <2>2. \A r : OnTheWay(r)' => OnTheWay(r)
    BY <2>1, Zenon DEF OnTheWay, HoldsReply
  <2> QED
    BY <2>1, <2>2, QuietSends, Zenon
<1>2. CASE RecvClosed \/ RecvFrame \/ RecvLagged \/ should_send_frame
  <2>1. /\ UNCHANGED <<outgoing, sendAcks, call, accepted, echoed, rpc, owed>>
        /\ wpc' = "write" => UNCHANGED wmsg /\ wpc = "check"
    BY <1>2, Zenon DEF RecvClosed, RecvFrame, RecvLagged, should_send_frame, CheckIface
  <2>2. wpc = "check" => ~IsReply(wmsg)
    BY Kinds DEF Inv, TypeInv
  <2>3. \A r : OnTheWay(r)' => OnTheWay(r)
    BY <2>1, <2>2, Zenon DEF OnTheWay, HoldsReply
  <2> QED
    BY <2>1, <2>3, QuietSends, Zenon
<1>3. CASE RecvReply
  BY <1>3, RecvOnTheWay, QuietSends, Zenon DEF RecvReply
<1>4. CASE WriteFail
  <2>1. UNCHANGED <<sendAcks, call, accepted, echoed, rpc, owed>> /\ outgoing' = <<>> /\ wpc' = "failed"
    BY <1>4, Zenon DEF WriteFail
  <2>2. DOMAIN outgoing' = {}
    BY <2>1
  <2>3. \A r : ~OnTheWay(r)'
    BY <2>1, <2>2, Zenon DEF OnTheWay, HoldsReply
  <2> QED
    BY <2>1, <2>3, QuietSends, Zenon
<1>5. CASE SendHelloAck \/ HandshakeOther \/ ReadRejected
  <2>1. PICK t \in {"HelloAck", "Error"} : Queue(t, owed, NoSub) /\ owed' = owed + 1
    BY <1>5, Zenon DEF SendHelloAck, HandshakeOther, ReadRejected, Answer
  <2>2. UNCHANGED <<wpc, wmsg, sendAcks, call, accepted, echoed>> /\ rpc # "handle"
    BY <1>5, Zenon DEF SendHelloAck, HandshakeOther, ReadRejected
  <2> QED
    BY <1>a, <1>b, <2>1, <2>2, AnswerSends, Zenon
<1>6. CASE AckSubscribe \/ AckUnsubscribe
  <2>1. PICK t \in AckTypes : Queue(t, owed - 1, asked)
    BY <1>6, Zenon DEF AckSubscribe, AckUnsubscribe, QueueAck, AckTypes
  <2>2. /\ UNCHANGED <<wpc, wmsg, sendAcks, call, accepted, echoed, owed>> /\ rpc # "handle"
        /\ owed - 1 \in Nat
    BY <1>6, <1>a, Zenon DEF AckSubscribe, AckUnsubscribe, QueueAck, Busy, Acknowledging
  <2> QED
    BY <1>a, <1>b, <2>1, <2>2, AnswerSends, Zenon
<1>7. CASE SendResponse
  BY <1>7, ResponseSends, Zenon DEF SendResponse
<1> QED
  BY <1>1, <1>2, <1>3, <1>4, <1>5, <1>6, <1>7, CallSends, WriteSends, HandleSends, Zenon
  DEF Next, ClientStep, ReaderStep, writer_task

\* A client that counts replies is told of each of its sends what the port said
\* of that very frame, and of no success before the Tx event is published
\* (handle, the channel and the writer task).  What makes this inductive is
\* that an answer once given cannot become false: only the newest request has
\* a frame on its way to the port.
THEOREM TcpJsonlSendAcksAreTrue == Spec => []SendAcksAreTrue
<1>1. Init => SendInv
  <2> SUFFICES ASSUME Init PROVE SendInv
    BY Zenon
  <2>1. outgoing = <<>> /\ wpc = "select" /\ sendAcks = {} /\ accepted = {} /\ call.st = "idle"
    BY Zenon DEF Init, SessionInit, SvcInit, Idle
  <2>2. DOMAIN outgoing = {}
    BY <2>1
  <2> QED
    BY <2>1, <2>2, Zenon DEF SendInv, AcksTrue, CallTrue, OnTheWay, HoldsReply
<1>2. SessionInv => Inv
  BY Zenon DEF SessionInv
<1>3. SendInv => SendAcksAreTrue
  BY Zenon DEF SendInv, AcksTrue, Truth, SendAcksAreTrue
<1> QED
  BY <1>1, <1>2, <1>3, StepSends, TcpJsonlInv, PTL DEF Spec
=============================================================================
