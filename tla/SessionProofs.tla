--------------------------- MODULE SessionProofs ---------------------------
(***************************************************************************)
(* The inductive invariant of a session and the refinement of              *)
(* SessionContract, over the state the transports share, so that each of   *)
(* them can use both.  The steps all transports share keep the invariant   *)
(* (the writer task, other publishers, the awaited service call), and so   *)
(* does every reader step of one of four shapes; each of them is a step of *)
(* the contract, or one it does not see.                                   *)
(***************************************************************************)
EXTENDS Session, TLAPS

-----------------------------------------------------------------------------
(* Types, stamps and replies: the part of the invariant that orders what   *)
(* reaches the client.  It adds to the properties of Session what they need*)
(* to survive a step.                                                      *)

\* The reader owes the reply to a request it has taken off the socket.
Busy  == Acknowledging \/ rpc = "handle"
BusyN == IF Busy THEN 1 ELSE 0

\* The writer holds a frame, or a reply it is writing.
HoldsFrame == wpc \in {"check", "check_filters", "write"} /\ IsFrame(wmsg)
HoldsReply == wpc = "write" /\ IsReply(wmsg)
InHand     == IF HoldsReply THEN 1 ELSE 0

\* The reader has let go of the channel and reads no more requests.
Leaving == rpc \in {"join", "ended", "returned"}

\* Types, and what they depend on: an awaited transmission knows its frame, a
\* reader that owes a reply has counted the request, and the writer checks
\* nothing but frames.
TypeInv ==
    /\ TypeOK
    /\ call.st \in {"can_tx", "publish"} => call.ev \in Sends
    /\ Busy => owed > 0
    /\ wpc \in {"check", "check_filters"} => wmsg \in Frame

\* Replies are numbered without a gap from the client to the reader.
ReplyInv ==
    /\ ~Gone =>
          /\ \A k \in DOMAIN outgoing : outgoing[k].re = replied + InHand + k - 1
          /\ HoldsReply => wmsg.re = replied
          /\ owed = replied + InHand + Len(outgoing) + BusyN
    /\ wpc = "done" => replied = owed /\ outgoing = <<>> /\ ~sender_open
    /\ ~sender_open => Leaving

\* Stamp m was given before stamp n, as far as saturated stamps can tell.
Before(m, n) == m < n \/ n = MaxStamp

\* Stamps increase from the client to the bus.
OrderInv ==
    /\ \A j, k \in DOMAIN unread : j < k => Before(unread[j].n, unread[k].n)
    /\ \A k \in DOMAIN unread : Before(lastFrame, unread[k].n) /\ unread[k].n <= published
    /\ HoldsFrame =>
          /\ Before(lastFrame, wmsg.n) /\ wmsg.n <= published
          /\ \A k \in DOMAIN unread : Before(wmsg.n, unread[k].n)
    /\ lastFrame <= published
-----------------------------------------------------------------------------
(* Sequences.                                                              *)

\* What is left of a channel when its head is taken.
LEMMA TailFacts ==
    ASSUME NEW S, NEW s \in Seq(S), s # <<>>
    PROVE  /\ Tail(s) \in Seq(S) /\ Len(Tail(s)) = Len(s) - 1
           /\ DOMAIN Tail(s) = 1..(Len(s) - 1) /\ DOMAIN s = 1..Len(s) /\ Len(s) \in Nat \ {0}
           /\ \A k \in DOMAIN Tail(s) : Tail(s)[k] = s[k + 1]
           /\ Head(s) = s[1] /\ Head(s) \in S
  OBVIOUS

\* A channel with one more element at its end.
LEMMA AppendFacts ==
    ASSUME NEW S, NEW s \in Seq(S), NEW e \in S
    PROVE  /\ Append(s, e) \in Seq(S) /\ Len(Append(s, e)) = Len(s) + 1
           /\ DOMAIN Append(s, e) = 1..(Len(s) + 1) /\ DOMAIN s = 1..Len(s) /\ Len(s) \in Nat
           /\ \A k \in DOMAIN s : Append(s, e)[k] = s[k]
           /\ Append(s, e)[Len(s) + 1] = e
  OBVIOUS
-----------------------------------------------------------------------------
(* Types.                                                                  *)

\* Publishing keeps the bus typed, whoever publishes.
LEMMA PublishType ==
    ASSUME BusTypeOK, NEW i \in Ifaces, NEW c \in Classes, publish_frame(i, c)
    PROVE  BusTypeOK'
<1> DEFINE ev == [iface |-> i, cls |-> c, n |-> NextStamp]
<1>1. NextStamp \in 0..MaxStamp /\ ev \in Event
  BY BusAssumption DEF BusTypeOK, NextStamp, Event
<1>2. unread \in Seq(Event)
  BY Zenon DEF BusTypeOK
<1> HIDE DEF ev
<1>3. unread' \in Seq(Event)
  <2>1. CASE unread' = unread
    BY <1>2, <2>1, Zenon
  <2>2. CASE unread' = Append(unread, ev)
    BY <1>1, <1>2, <2>2, AppendFacts, Zenon
  <2>3. CASE ~(Len(unread) < Cap) /\ unread' = Append(Tail(unread), ev)
    <3>1. unread # <<>>
      BY <2>3, BusAssumption
    <3>2. Tail(unread) \in Seq(Event)
      BY <1>2, <3>1, TailFacts, Zenon
    <3> QED
      BY <1>1, <2>3, <3>2, AppendFacts, Zenon
  <2> QED
    BY <2>1, <2>2, <2>3, Zenon DEF publish_frame, broadcast_send, ev
<1>4. lagged' \in BOOLEAN /\ attached' \in BOOLEAN
  BY Zenon DEF publish_frame, broadcast_send, BusTypeOK
<1> QED
  BY <1>1, <1>3, <1>4, Zenon DEF publish_frame, BusTypeOK

\* So does dropping the receiver.
LEMMA DropType ==
    ASSUME BusTypeOK, drop_receiver
    PROVE  BusTypeOK'
<1>1. <<>> \in Seq(Event)
  OBVIOUS
<1> QED
  BY <1>1, Zenon DEF BusTypeOK, drop_receiver

\* The writer task keeps the session typed.
LEMMA WriterType ==
    ASSUME TypeInv,
           \/ RecvReply \/ RecvClosed \/ RecvFrame \/ RecvLagged
           \/ CheckIface("write") \/ CheckIface("check_filters")
           \/ Write \/ WriteFail
    PROVE  TypeInv'
<1> USE DEF TypeInv, TypeOK, busVars, svcVars, subVars, readerVars, writerVars,
            SvcTypeOK, WriterStates, Busy, Acknowledging
<1>1. CASE RecvReply
  BY <1>1 DEF RecvReply, BusTypeOK
<1>2. CASE RecvClosed
  BY <1>2, DropType, Zenon DEF RecvClosed
<1>3. CASE RecvFrame
  <2>1. Head(unread) \in Event /\ Tail(unread) \in Seq(Event)
    BY <1>3 DEF RecvFrame, recv_event, BusTypeOK
  <2>2. FrameOf(Head(unread)) \in Frame
    BY <2>1, Zenon DEF FrameOf, Frame, Event
  <2> QED
    BY <1>3, <2>1, <2>2, Zenon DEF RecvFrame, recv_event, BusTypeOK
<1>4. CASE RecvLagged
  <2>1. BusTypeOK'
    BY <1>4, Zenon DEF RecvLagged, recv_lagged, BusTypeOK
  <2> QED
    BY <1>4, <2>1, Zenon DEF RecvLagged
<1>5. CASE CheckIface("write") \/ CheckIface("check_filters")
  <2>1. BusTypeOK'
    BY <1>5, Zenon DEF CheckIface, BusTypeOK
  <2>2. /\ wpc' \in WriterStates /\ wmsg' \in {wmsg, NoMsg}
        /\ wpc' # "select" => wmsg' = wmsg /\ wpc = "check"
    BY <1>5, Zenon DEF CheckIface
  <2> QED
    BY <1>5, <2>1, <2>2 DEF CheckIface
<1>6. CASE Write
  <2>1. IsAck(wmsg) => wmsg.sub \in Subscription
    BY <1>6 DEF IsAck, Reply, Frame, NoMsg, AckTypes
  <2>2. IsFrame(wmsg) => wmsg.n \in 0..MaxStamp
    BY BusAssumption DEF IsFrame, Reply, Frame, NoMsg, ReplyTypes, AckTypes, Responses
  <2>3. sendAcks' \subseteq SendAcks
    <3> DEFINE a == [re |-> replied, ok |-> wmsg.type = "SendAckOk"]
    <3>1. a \in SendAcks
      BY DEF SendAcks
    <3>2. sendAcks' = sendAcks \/ sendAcks' = sendAcks \cup {a}
      BY <1>6, Zenon DEF Write
    <3> HIDE DEF a
    <3> QED
      BY <3>1, <3>2, Zenon
  <2>4. replied' \in Nat /\ lastFrame' \in 0..MaxStamp /\ acked' \in Subscription
    BY <1>6, <2>1, <2>2 DEF Write
  <2> QED
    BY <1>6, <2>3, <2>4, Zenon DEF Write, BusTypeOK
<1>7. CASE WriteFail
  <2>1. <<>> \in Seq(Reply)
    OBVIOUS
  <2> QED
    BY <1>7, <2>1, DropType, Zenon DEF WriteFail
<1> QED
  BY <1>1, <1>2, <1>3, <1>4, <1>5, <1>6, <1>7, Zenon

\* An answer of the service.
LEMMA DoneType ==
    ASSUME NEW resp \in Responses
    PROVE  /\ Done(resp).st = "done"
           /\ Done(resp) \in [st   : {"idle", "list", "can_tx", "publish", "done"},
                              ev   : Sends \cup {NoEvent},
                              resp : Responses]
  BY Zenon DEF Done, Idle

\* So do other publishers, the awaited call and the end of the join.
LEMMA OtherType ==
    ASSUME TypeInv, PublishOther \/ HandleStep \/ Joined
    PROVE  TypeInv'
<1> USE DEF TypeInv, TypeOK, busVars, svcVars, subVars, readerVars, writerVars
<1>1. CASE PublishOther
  BY <1>1, PublishType, SMTT(30) DEF PublishOther, SvcTypeOK, Busy, Acknowledging
<1>2. CASE HandleStep
  <2>1. Busy' = Busy
    BY <1>2, Zenon DEF HandleStep, Busy, Acknowledging
  <2>2. {"Ifaces", "Error", "SendAckErr", "SendAckOk"} \subseteq Responses
    BY Zenon DEF Responses
  <2>3. BusTypeOK'
    <3>1. CASE handle_publish_tx
      BY <3>1, PublishType, Zenon DEF handle_publish_tx, Sends
    <3>2. CASE UNCHANGED busVars
      BY <3>2, Zenon DEF BusTypeOK
    <3> QED
      BY <1>2, <3>1, <3>2, Zenon DEF HandleStep, handle_step, handle_list_ifaces, handle_can_tx_ok,
         handle_can_tx_err
  <2>4. SvcTypeOK' /\ (call'.st \in {"can_tx", "publish"} => call'.ev \in Sends)
    <3>1. CASE handle_list_ifaces
      BY <2>2, <3>1, DoneType DEF handle_list_ifaces, SvcTypeOK
    <3>2. CASE handle_can_tx_ok
      BY <3>2, SMTT(30) DEF handle_can_tx_ok, SvcTypeOK
    <3>3. CASE handle_can_tx_err
      BY <2>2, <3>3, DoneType, Zenon DEF handle_can_tx_err, SvcTypeOK
    <3>4. CASE handle_publish_tx
      BY <2>2, <3>4, DoneType DEF handle_publish_tx, SvcTypeOK
    <3> QED
      BY <1>2, <3>1, <3>2, <3>3, <3>4, Zenon DEF HandleStep, handle_step
  <2> QED
    BY <1>2, <2>1, <2>3, <2>4, Zenon DEF HandleStep
<1>3. CASE Joined
  BY <1>3 DEF Joined, BusTypeOK, SvcTypeOK, ReaderStates, Busy, Acknowledging
<1> QED
  BY <1>1, <1>2, <1>3, Zenon
-----------------------------------------------------------------------------
(* Order of frames.                                                        *)

\* The events of the bus have stamps.
LEMMA UnreadStamps ==
    ASSUME TypeInv
    PROVE  /\ unread \in Seq(Event) /\ Len(unread) \in Nat /\ DOMAIN unread = 1..Len(unread)
           /\ \A k \in 1..Len(unread) : unread[k].n \in 1..MaxStamp
           /\ published \in 0..MaxStamp /\ lastFrame \in 0..MaxStamp /\ MaxStamp \in Nat
<1>1. unread \in Seq(Event) /\ published \in 0..MaxStamp /\ lastFrame \in 0..MaxStamp
  BY Zenon DEF TypeInv, TypeOK, BusTypeOK
<1>2. Len(unread) \in Nat /\ DOMAIN unread = 1..Len(unread)
      /\ \A k \in 1..Len(unread) : unread[k] \in Event
  BY <1>1
<1> QED
  BY <1>1, <1>2, BusAssumption, Zenon DEF Event

\* A published event gets a stamp that is not before any other, and pushes
\* out the oldest one at most.
LEMMA PublishOrder ==
    ASSUME TypeInv, OrderInv, NEW i \in Ifaces, NEW c \in Classes, publish_frame(i, c),
           UNCHANGED <<wpc, wmsg, lastFrame>>
    PROVE  OrderInv'
<1> DEFINE ev == [iface |-> i, cls |-> c, n |-> NextStamp]
<1> USE BusAssumption
<1>1. /\ unread \in Seq(Event) /\ published \in 0..MaxStamp /\ lastFrame \in 0..MaxStamp
  BY Zenon DEF TypeInv, TypeOK, BusTypeOK
<1>2. /\ NextStamp \in 1..MaxStamp /\ published <= NextStamp
      /\ \A m \in 0..published : Before(m, NextStamp)
  BY <1>1 DEF NextStamp, Before
<1>3. ev \in Event /\ ev.n = NextStamp
  BY <1>2, Zenon DEF Event
<1>4. \A k \in DOMAIN unread : unread[k].n \in 1..MaxStamp
  BY UnreadStamps, Zenon
<1>5. HoldsFrame => wmsg.n \in 1..MaxStamp
  BY DEF HoldsFrame, IsFrame, TypeInv, TypeOK, Reply, Frame, NoMsg, ReplyTypes, AckTypes, Responses
<1>6. HoldsFrame' = HoldsFrame /\ published' = NextStamp
  BY Zenon DEF HoldsFrame, IsFrame, publish_frame
<1>7. CASE ~attached
  BY <1>1, <1>2, <1>4, <1>5, <1>6, <1>7 DEF OrderInv, publish_frame, Before
<1>8. CASE attached /\ Len(unread) < Cap
  <2>1. unread' = Append(unread, ev)
    BY <1>8, Zenon DEF publish_frame, broadcast_send
  <2>2. \A k \in DOMAIN unread' : unread'[k] = IF k <= Len(unread) THEN unread[k] ELSE ev
    BY <1>1, <1>3, <2>1, AppendFacts
  <2>3. DOMAIN unread' = 1..(Len(unread) + 1) /\ DOMAIN unread = 1..Len(unread) /\ Len(unread) \in Nat
    BY <1>1, <1>3, <2>1, AppendFacts
  <2>4. \A k \in DOMAIN unread' : unread'[k].n = IF k <= Len(unread) THEN unread[k].n ELSE NextStamp
    BY <1>3, <2>2, Zenon
  <2>5. \A j, k \in DOMAIN unread' : j < k => Before(unread'[j].n, unread'[k].n)
    BY <1>2, <1>4, <2>3, <2>4, UnreadStamps, SMTT(30) DEF OrderInv
  <2>6. \A k \in DOMAIN unread' : Before(lastFrame, unread'[k].n) /\ unread'[k].n <= published'
    BY <1>1, <1>2, <1>4, <1>6, <2>3, <2>4 DEF OrderInv
  <2>7. HoldsFrame => \A k \in DOMAIN unread' : Before(wmsg.n, unread'[k].n)
    BY <1>2, <1>5, <2>3, <2>4 DEF OrderInv
  <2> QED
    BY <1>1, <1>2, <1>5, <1>6, <2>5, <2>6, <2>7 DEF OrderInv
<1>9. CASE attached /\ ~(Len(unread) < Cap)
  <2>1. unread # <<>> /\ unread' = Append(Tail(unread), ev)
    BY <1>1, <1>9 DEF publish_frame, broadcast_send
  <2>2. Tail(unread) \in Seq(Event) /\ Len(unread) \in Nat \ {0} /\ DOMAIN unread = 1..Len(unread)
        /\ Len(Tail(unread)) = Len(unread) - 1
        /\ \A k \in 1..(Len(unread) - 1) : Tail(unread)[k] = unread[k + 1]
    BY <1>1, <2>1, TailFacts, Zenon
  <2>3. DOMAIN unread' = 1..Len(unread)
        /\ \A k \in DOMAIN unread' : unread'[k] = IF k < Len(unread) THEN unread[k + 1] ELSE ev
    BY <1>3, <2>1, <2>2, AppendFacts
  <2>4. \A k \in 1..Len(unread) : unread'[k].n = IF k < Len(unread) THEN unread[k + 1].n ELSE NextStamp
    BY <1>3, <2>2, <2>3, Zenon
  <2>5. \A j, k \in DOMAIN unread' : j < k => Before(unread'[j].n, unread'[k].n)
    <3> SUFFICES ASSUME NEW j \in 1..Len(unread), NEW k \in 1..Len(unread), j < k
                 PROVE  Before(unread'[j].n, unread'[k].n)
      BY <2>3, Zenon
    <3>1. j + 1 \in 1..Len(unread) /\ unread'[j].n = unread[j + 1].n
      BY <2>2, <2>4
    <3>2. unread[j + 1].n \in 0..published
      BY <3>1, UnreadStamps DEF OrderInv
    <3>3. CASE k < Len(unread)
      <4>1. k + 1 \in 1..Len(unread) /\ unread'[k].n = unread[k + 1].n /\ j + 1 < k + 1
        BY <2>2, <2>4, <3>3
      <4> QED
        BY <2>2, <3>1, <4>1, Zenon DEF OrderInv
    <3>4. CASE ~(k < Len(unread))
      BY <1>2, <2>4, <3>1, <3>2, <3>4, Zenon
    <3> QED
      BY <3>3, <3>4, Zenon
  <2>6. \A k \in DOMAIN unread' : Before(lastFrame, unread'[k].n) /\ unread'[k].n <= published'
    <3> SUFFICES ASSUME NEW k \in 1..Len(unread)
                 PROVE  Before(lastFrame, unread'[k].n) /\ unread'[k].n <= published'
      BY <2>3, Zenon
    <3>1. CASE k < Len(unread)
      <4>1. k + 1 \in 1..Len(unread) /\ unread'[k].n = unread[k + 1].n
        BY <2>2, <2>4, <3>1
      <4> QED
        BY <1>2, <1>6, <4>1, UnreadStamps, SMTT(30) DEF OrderInv
    <3>2. CASE ~(k < Len(unread))
      <4>1. unread'[k].n = NextStamp
        BY <2>4, <3>2, Zenon
      <4>2. lastFrame \in 0..published
        BY UnreadStamps DEF OrderInv
      <4> QED
        BY <1>2, <1>6, <4>1, <4>2
    <3> QED
      BY <3>1, <3>2, Zenon
  <2>7. HoldsFrame => \A k \in DOMAIN unread' : Before(wmsg.n, unread'[k].n)
    BY <1>2, <1>5, <2>3, <2>4, UnreadStamps, SMTT(30) DEF OrderInv, Before
  <2> QED
    BY <1>2, <1>5, <1>6, <2>5, <2>6, <2>7, UnreadStamps DEF OrderInv, Before
<1> QED
  BY <1>7, <1>8, <1>9, Zenon

\* A receiver that is dropped leaves nothing to order.
LEMMA DropOrder ==
    ASSUME OrderInv, drop_receiver, UNCHANGED lastFrame, ~HoldsFrame'
    PROVE  OrderInv'
  BY DEF OrderInv, drop_receiver

\* The writer task takes stamps in order.
LEMMA WriterOrder ==
    ASSUME TypeInv, OrderInv,
           \/ RecvReply \/ RecvClosed \/ RecvFrame \/ RecvLagged
           \/ CheckIface("write") \/ CheckIface("check_filters")
           \/ Write \/ WriteFail
    PROVE  OrderInv'
<1> USE DEF busVars, svcVars, writerVars
<1>1. /\ unread \in Seq(Event) /\ published \in 0..MaxStamp /\ lastFrame \in 0..MaxStamp
  BY Zenon DEF TypeInv, TypeOK, BusTypeOK
<1>2. CASE RecvReply
  <2>1. outgoing \in Seq(Reply) /\ outgoing # <<>>
    BY <1>2, Zenon DEF RecvReply, TypeInv, TypeOK
  <2>2. Head(outgoing) \in Reply
    BY <2>1, TailFacts, Zenon
  <2>3. ~HoldsFrame'
    BY <1>2, <2>2, Zenon DEF RecvReply, HoldsFrame, IsFrame, Reply, ReplyTypes, AckTypes, Responses
  <2> QED
    BY <1>2, <2>3, Zenon DEF RecvReply, OrderInv
<1>3. CASE RecvClosed
  BY <1>3, DropOrder, Zenon DEF RecvClosed, HoldsFrame
<1>4. CASE RecvFrame
  <2>1. unread # <<>> /\ unread' = Tail(unread) /\ UNCHANGED <<published, lastFrame>>
        /\ wmsg' = FrameOf(Head(unread))
    BY <1>4, Zenon DEF RecvFrame, recv_event
  <2>2. Len(unread) \in Nat \ {0} /\ DOMAIN unread = 1..Len(unread)
        /\ DOMAIN unread' = 1..(Len(unread) - 1) /\ Head(unread) = unread[1]
        /\ \A k \in 1..(Len(unread) - 1) : unread'[k] = unread[k + 1]
    BY <1>1, <2>1, TailFacts, Zenon
  <2>3. wmsg'.n = unread[1].n
    BY <2>1, <2>2, Zenon DEF FrameOf
  <2> QED
    <3>1. \A j, k \in DOMAIN unread' : j < k => Before(unread'[j].n, unread'[k].n)
      <4> SUFFICES ASSUME NEW j \in 1..(Len(unread) - 1), NEW k \in 1..(Len(unread) - 1), j < k
                   PROVE  Before(unread'[j].n, unread'[k].n)
        BY <2>2, Zenon
      <4>1. j + 1 \in DOMAIN unread /\ k + 1 \in DOMAIN unread /\ j + 1 < k + 1
        BY <2>2
      <4> QED
        BY <2>2, <4>1, Zenon DEF OrderInv
    <3>2. \A k \in DOMAIN unread' : k + 1 \in DOMAIN unread /\ 1 < k + 1 /\ unread'[k] = unread[k + 1]
      BY <2>2
    <3>3. 1 \in DOMAIN unread
      BY <2>2
    <3> QED
      BY <2>1, <2>3, <3>1, <3>2, <3>3, Zenon DEF OrderInv
<1>5. CASE RecvLagged
  BY <1>5, Zenon DEF RecvLagged, recv_lagged, OrderInv, HoldsFrame
<1>6. CASE CheckIface("write") \/ CheckIface("check_filters")
  <2>1. HoldsFrame' => HoldsFrame /\ wmsg' = wmsg
    BY <1>6, Zenon DEF CheckIface, HoldsFrame
  <2> QED
    BY <1>6, <2>1, Zenon DEF CheckIface, OrderInv
<1>7. CASE Write
  <2>1. ~HoldsFrame'
    BY <1>7, Zenon DEF Write, HoldsFrame
  <2>2. unread' = unread /\ published' = published
    BY <1>7, Zenon DEF Write
  <2>3. CASE IsFrame(wmsg)
    <3>1. HoldsFrame /\ lastFrame' = wmsg.n
      BY <1>7, <2>3, Zenon DEF Write, HoldsFrame
    <3> QED
      BY <2>1, <2>2, <3>1, Zenon DEF OrderInv
  <2>4. CASE ~IsFrame(wmsg)
    BY <1>7, <2>1, <2>2, <2>4, Zenon DEF Write, OrderInv
  <2> QED
    BY <2>3, <2>4, Zenon
<1>8. CASE WriteFail
  BY <1>8, DropOrder, Zenon DEF WriteFail, HoldsFrame
<1> QED
  BY <1>2, <1>3, <1>4, <1>5, <1>6, <1>7, <1>8, Zenon

\* Publishing is the only other step that touches the bus.
LEMMA OtherOrder ==
    ASSUME TypeInv, OrderInv, PublishOther \/ HandleStep \/ Joined
    PROVE  OrderInv'
<1> USE DEF busVars, svcVars, writerVars
<1>1. CASE PublishOther
  BY <1>1, PublishOrder, Zenon DEF PublishOther
<1>2. CASE HandleStep
  <2>1. CASE handle_publish_tx
    BY <1>2, <2>1, PublishOrder, Zenon DEF HandleStep, handle_publish_tx, TypeInv, Sends
  <2>2. CASE UNCHANGED busVars
    BY <1>2, <2>2, Zenon DEF HandleStep, OrderInv, HoldsFrame
  <2> QED
    BY <1>2, <2>1, <2>2, Zenon DEF HandleStep, handle_step, handle_list_ifaces, handle_can_tx_ok, handle_can_tx_err
<1>3. CASE Joined
  BY <1>3, Zenon DEF Joined, OrderInv, HoldsFrame
<1> QED
  BY <1>1, <1>2, <1>3, Zenon
-----------------------------------------------------------------------------
(* Order and number of replies.                                            *)

\* The writer takes replies off the front of the channel, one at a time, and
\* ends without an error only when there is none left.
LEMMA WriterReplies ==
    ASSUME TypeInv, ReplyInv,
           \/ RecvReply \/ RecvClosed \/ RecvFrame \/ RecvLagged
           \/ CheckIface("write") \/ CheckIface("check_filters")
           \/ Write \/ WriteFail
    PROVE  ReplyInv'
<1> USE DEF busVars, svcVars, readerVars, subVars, writerVars
<1>1. outgoing \in Seq(Reply) /\ Len(outgoing) \in Nat /\ replied \in Nat /\ owed \in Nat
  BY DEF TypeInv, TypeOK
<1>2. CASE RecvReply
  <2>1. /\ wpc = "select" /\ wpc' = "write" /\ outgoing # <<>>
        /\ wmsg' = Head(outgoing) /\ outgoing' = Tail(outgoing)
        /\ UNCHANGED <<sender_open, rpc, owed, replied>>
    BY <1>2, Zenon DEF RecvReply
  <2>2. /\ Len(outgoing) \in Nat \ {0} /\ DOMAIN outgoing = 1..Len(outgoing)
        /\ Len(outgoing') = Len(outgoing) - 1 /\ DOMAIN outgoing' = 1..(Len(outgoing) - 1)
        /\ \A k \in DOMAIN outgoing' : outgoing'[k] = outgoing[k + 1]
        /\ wmsg' = outgoing[1] /\ wmsg' \in Reply
    BY <1>1, <2>1, TailFacts, Zenon
  <2>3. InHand = 0 /\ HoldsReply' /\ InHand' = 1 /\ BusyN' = BusyN /\ (Leaving' <=> Leaving)
    BY <2>1, <2>2, Zenon DEF InHand, HoldsReply, IsReply, Reply, BusyN, Busy, Acknowledging, Leaving
  <2>4. ~Gone /\ BusyN \in {0, 1}
    BY <2>1, Zenon DEF Gone, BusyN
  <2>5. \A k \in DOMAIN outgoing' : k + 1 \in DOMAIN outgoing /\ outgoing'[k].re = replied + k
    <3> SUFFICES ASSUME NEW k \in DOMAIN outgoing'
                 PROVE  k + 1 \in DOMAIN outgoing /\ outgoing'[k].re = replied + k
      BY Zenon
    <3>1. k \in Nat /\ k + 1 \in DOMAIN outgoing /\ outgoing'[k] = outgoing[k + 1]
      BY <2>2
    <3>2. outgoing[k + 1].re = replied + InHand + (k + 1) - 1
      BY <2>4, <3>1, Zenon DEF ReplyInv
    <3> QED
      BY <1>1, <2>3, <3>1, <3>2
  <2>6. wmsg'.re = replied
    BY <1>1, <2>2, <2>3, <2>4 DEF ReplyInv
  <2>7. owed = replied + 1 + Len(outgoing') + BusyN
    BY <1>1, <2>2, <2>3, <2>4 DEF ReplyInv
  <2>8. /\ \A k \in DOMAIN outgoing' : outgoing'[k].re = replied' + InHand' + k - 1
        /\ owed' = replied' + InHand' + Len(outgoing') + BusyN'
    BY <1>1, <2>1, <2>2, <2>3, <2>4, <2>5, <2>7
  <2> QED
    BY <2>1, <2>3, <2>6, <2>8, Zenon DEF ReplyInv
<1>3. CASE RecvClosed
  <2>1. /\ wpc = "select" /\ wpc' = "done" /\ outgoing = <<>> /\ ~sender_open
        /\ UNCHANGED <<outgoing, sender_open, rpc, owed, replied>>
    BY <1>3, Zenon DEF RecvClosed
  <2>2. InHand = 0 /\ BusyN = 0 /\ Len(outgoing) = 0 /\ Leaving /\ Leaving'
    BY <2>1, Zenon DEF InHand, HoldsReply, ReplyInv, Leaving, BusyN, Busy, Acknowledging
  <2> QED
    BY <1>1, <2>1, <2>2 DEF ReplyInv, Gone
<1>4. CASE RecvFrame \/ RecvLagged \/ CheckIface("write") \/ CheckIface("check_filters")
  <2>1. /\ UNCHANGED <<outgoing, sender_open, rpc, owed, replied>>
        /\ wpc \in {"select", "check"} /\ wpc' \in {"select", "check", "check_filters", "write"}
    BY <1>4, Zenon DEF RecvFrame, RecvLagged, CheckIface
  <2>2. wpc' = "write" => wpc = "check" /\ wmsg' = wmsg
    BY <1>4, Zenon DEF RecvFrame, RecvLagged, CheckIface
  <2>3. ~HoldsReply /\ ~HoldsReply'
    BY <2>1, <2>2, Zenon DEF HoldsReply, IsReply, TypeInv, Frame, ReplyTypes, AckTypes, Responses
  <2>4. InHand = 0 /\ InHand' = 0 /\ BusyN' = BusyN /\ (Leaving' <=> Leaving) /\ ~Gone /\ wpc' # "done"
    BY <2>1, <2>3, Zenon DEF InHand, BusyN, Busy, Acknowledging, Leaving, Gone
  <2> QED
    BY <2>1, <2>3, <2>4, Zenon DEF ReplyInv
<1>5. CASE Write
  <2>1. /\ wpc = "write" /\ wpc' = "select" /\ UNCHANGED <<outgoing, sender_open, rpc, owed>>
        /\ replied' = IF IsReply(wmsg) THEN replied + 1 ELSE replied
    BY <1>5, Zenon DEF Write
  <2>2. /\ replied' = replied + InHand /\ InHand' = 0 /\ InHand \in {0, 1}
        /\ ~HoldsReply' /\ ~Gone /\ ~Gone'
    BY <1>1, <2>1 DEF InHand, HoldsReply, Gone
  <2>3. BusyN' = BusyN /\ (Leaving' <=> Leaving) /\ BusyN \in {0, 1}
    BY <2>1, Zenon DEF BusyN, Busy, Acknowledging, Leaving
  <2>4. \A k \in DOMAIN outgoing : outgoing[k].re = replied' + InHand' + k - 1
    BY <1>1, <2>2 DEF ReplyInv
  <2> QED
    BY <1>1, <2>1, <2>2, <2>3, <2>4 DEF ReplyInv
<1>6. CASE WriteFail
  BY <1>6, Zenon DEF WriteFail, ReplyInv, Gone, Leaving
<1> QED
  BY <1>2, <1>3, <1>4, <1>5, <1>6, Zenon

\* The reader takes a request whose reply it still owes, or moves on.
LEMMA TakeReplies ==
    ASSUME TypeInv, ReplyInv, UNCHANGED <<outgoing, wpc, wmsg, replied>>,
           owed' = owed + BusyN' - BusyN,
           wpc = "done" => ~sender_open' /\ BusyN' = BusyN,
           ~sender_open' => Leaving'
    PROVE  ReplyInv'
<1>1. replied \in Nat /\ owed \in Nat /\ Len(outgoing) \in Nat /\ outgoing \in Seq(Reply)
  BY DEF TypeInv, TypeOK
<1>2. InHand' = InHand /\ (HoldsReply' <=> HoldsReply) /\ (Gone' <=> Gone) /\ InHand \in {0, 1}
  BY Zenon DEF InHand, HoldsReply, Gone, IsReply
<1>3. BusyN \in {0, 1} /\ BusyN' \in {0, 1}
  BY Zenon DEF BusyN
<1>4. wpc' = "done" => replied' = owed' /\ outgoing' = <<>> /\ ~sender_open'
  BY <1>1, <1>3 DEF ReplyInv
<1>5. ~Gone => owed' = replied' + InHand' + Len(outgoing') + BusyN'
  BY <1>1, <1>2, <1>3 DEF ReplyInv
<1>6. ~Gone => \A k \in DOMAIN outgoing' : outgoing'[k].re = replied' + InHand' + k - 1
  BY <1>2, Zenon DEF ReplyInv
<1> QED
  BY <1>2, <1>4, <1>5, <1>6, Zenon DEF ReplyInv

\* The reader queues a reply: to the request it owed one for, or to a request
\* it has just taken.
LEMMA QueueReplies ==
    ASSUME TypeInv, ReplyInv, ~Leaving, UNCHANGED <<wpc, wmsg, replied>>,
           NEW t \in ReplyTypes, NEW sub \in Subscription, Queue(t, owed - BusyN, sub),
           ~Busy', owed' = owed - BusyN + 1,
           ~sender_open' => Leaving'
    PROVE  ReplyInv'
<1> DEFINE r == [type |-> t, re |-> owed - BusyN, sub |-> sub]
<1>1. replied \in Nat /\ owed \in Nat /\ Len(outgoing) \in Nat /\ outgoing \in Seq(Reply)
  BY DEF TypeInv, TypeOK
<1>2. InHand' = InHand /\ (HoldsReply' <=> HoldsReply) /\ (Gone' <=> Gone) /\ InHand \in {0, 1}
  BY Zenon DEF InHand, HoldsReply, Gone, IsReply
<1>3. BusyN \in {0, 1} /\ BusyN' = 0
  BY Zenon DEF BusyN
<1>4. wpc # "done"
  BY Zenon DEF ReplyInv
<1>5. CASE Gone
  BY <1>2, <1>4, <1>5, Zenon DEF ReplyInv
<1>6. CASE ~Gone
  <2>1. owed - BusyN = replied + InHand + Len(outgoing) /\ owed - BusyN \in Nat
    BY <1>1, <1>2, <1>3, <1>6 DEF ReplyInv
  <2>2. outgoing' = Append(outgoing, r) /\ r \in Reply
    BY <1>6, <2>1, Zenon DEF Queue, Reply
  <2>3. /\ Len(outgoing') = Len(outgoing) + 1 /\ DOMAIN outgoing' = 1..(Len(outgoing) + 1)
        /\ DOMAIN outgoing = 1..Len(outgoing)
        /\ \A k \in 1..Len(outgoing) : outgoing'[k] = outgoing[k]
        /\ outgoing'[Len(outgoing) + 1] = r
    BY <1>1, <2>2, AppendFacts
  <2>4. outgoing'[Len(outgoing) + 1].re = replied + InHand + (Len(outgoing) + 1) - 1
    BY <1>1, <1>2, <2>1, <2>3
  <2>5. \A k \in DOMAIN outgoing' : outgoing'[k].re = replied + InHand + k - 1
    BY <1>1, <1>6, <2>3, <2>4 DEF ReplyInv
  <2>6. owed' = replied + InHand + Len(outgoing') + BusyN'
    BY <1>1, <1>2, <1>3, <2>1, <2>3
  <2> QED
    BY <1>2, <1>4, <1>6, <2>5, <2>6, Zenon DEF ReplyInv
<1> QED
  BY <1>5, <1>6, Zenon

\* The other shared steps do not touch the channel.
LEMMA OtherReplies ==
    ASSUME TypeInv, ReplyInv, PublishOther \/ HandleStep \/ Joined
    PROVE  ReplyInv'
<1> USE DEF busVars, svcVars, readerVars, subVars, writerVars
<1>1. UNCHANGED <<outgoing, wpc, wmsg, replied, owed, sender_open>>
  BY Zenon DEF PublishOther, HandleStep, Joined
<1>2. BusyN' = BusyN /\ BusyN \in {0, 1} /\ (Leaving => Leaving')
  BY Zenon DEF PublishOther, HandleStep, Joined, BusyN, Busy, Acknowledging, Leaving
<1>3. owed' = owed + BusyN' - BusyN
  BY <1>1, <1>2 DEF TypeInv, TypeOK
<1> QED
  BY <1>1, <1>2, <1>3, TakeReplies, Zenon DEF ReplyInv
-----------------------------------------------------------------------------
(* Which subscription is in force: the rest of the invariant.              *)

\* The writer holds an acknowledgement it is writing.
HoldsAck == wpc = "write" /\ IsAck(wmsg)

\* The last acknowledgement in the channel is number k.
LastAck(k) ==
    /\ k \in DOMAIN outgoing /\ IsAck(outgoing[k])
    /\ \A j \in DOMAIN outgoing : j > k => ~IsAck(outgoing[j])

NoAckQueued == \A k \in DOMAIN outgoing : ~IsAck(outgoing[k])

\* s is the newest subscription whose acknowledgement has left the reader:
\* it is in the channel, with the writer, or with the client.
Newest(s) ==
    \/ \E k \in DOMAIN outgoing : LastAck(k) /\ outgoing[k].sub = s
    \/ NoAckQueued /\ HoldsAck /\ wmsg.sub = s
    \/ NoAckQueued /\ ~HoldsAck /\ acked = s

\* The set in force is the one of the subscription in the reader's hands, or
\* else of the newest one, wherever its acknowledgement is.
ViewInv ==
    ~Gone => IF Acknowledging
             THEN subscribed_ifaces = asked.ifaces
             ELSE \E s \in Subscription : Newest(s) /\ subscribed_ifaces = s.ifaces

\* A frame that passed the look at the set is of an interface the client
\* knows of or is about to be told of.
FrameInv ==
    (wpc \in {"check_filters", "write"} /\ IsFrame(wmsg)) =>
        \/ wmsg.iface \in acked.ifaces
        \/ \E k \in DOMAIN outgoing :
              IsAck(outgoing[k]) /\ wmsg.iface \in outgoing[k].sub.ifaces
        \/ Acknowledging /\ wmsg.iface \in asked.ifaces
-----------------------------------------------------------------------------
(* The newest subscription.                                                *)

\* It stays the newest while no acknowledgement moves.
LEMMA KeepNewest ==
    ASSUME NEW s, Newest(s), UNCHANGED <<outgoing, acked>>,
           HoldsAck' <=> HoldsAck, HoldsAck => UNCHANGED wmsg
    PROVE  Newest(s)'
<1>1. (NoAckQueued' <=> NoAckQueued) /\ \A k : LastAck(k)' <=> LastAck(k)
  BY Zenon DEF NoAckQueued, LastAck
<1> QED
  BY <1>1, Zenon DEF Newest

\* The writer moves acknowledgements towards the client and changes none.
LEMMA WriterNewest ==
    ASSUME TypeInv, NEW s, Newest(s), ~Gone',
           \/ RecvReply \/ RecvClosed \/ RecvFrame \/ RecvLagged
           \/ CheckIface("write") \/ CheckIface("check_filters")
           \/ Write \/ WriteFail
    PROVE  Newest(s)'
<1> USE DEF busVars, svcVars, readerVars, subVars, writerVars
<1>1. outgoing \in Seq(Reply)
  BY Zenon DEF TypeInv, TypeOK
<1>2. CASE RecvReply
  <2>1. /\ wpc = "select" /\ wpc' = "write" /\ outgoing # <<>>
        /\ wmsg' = Head(outgoing) /\ outgoing' = Tail(outgoing) /\ acked' = acked
    BY <1>2, Zenon DEF RecvReply
  <2>2. /\ Len(outgoing) \in Nat \ {0} /\ DOMAIN outgoing = 1..Len(outgoing)
        /\ DOMAIN outgoing' = 1..(Len(outgoing) - 1)
        /\ \A k \in DOMAIN outgoing' : outgoing'[k] = outgoing[k + 1]
        /\ wmsg' = outgoing[1]
    BY <1>1, <2>1, TailFacts, Zenon
  <2>3. ~HoldsAck
    BY <2>1, Zenon DEF HoldsAck
  <2>4. CASE NoAckQueued
    <3>1. NoAckQueued' /\ ~HoldsAck'
      BY <2>2, <2>4 DEF NoAckQueued, HoldsAck
    <3>2. acked = s
      BY <2>3, <2>4, Zenon DEF Newest, LastAck, NoAckQueued
    <3> QED
      BY <2>1, <3>1, <3>2, Zenon DEF Newest
  <2>5. CASE ~NoAckQueued
    <3>1. PICK k \in DOMAIN outgoing : LastAck(k) /\ outgoing[k].sub = s
      BY <2>5, Zenon DEF Newest
    <3>2. CASE k = 1
      <4>1. NoAckQueued' /\ HoldsAck' /\ wmsg'.sub = s
        BY <2>1, <2>2, <3>1, <3>2 DEF LastAck, NoAckQueued, HoldsAck
      <4> QED
        BY <4>1, Zenon DEF Newest
    <3>3. CASE k # 1
      <4>1. ASSUME NEW j, j = k - 1
            PROVE  j \in DOMAIN outgoing' /\ LastAck(j)' /\ outgoing'[j].sub = s
        <5>1. j \in DOMAIN outgoing' /\ outgoing'[j] = outgoing[k]
          BY <2>2, <3>3, <4>1
        <5>2. \A i \in DOMAIN outgoing' : i > j =>
                 i + 1 \in DOMAIN outgoing /\ i + 1 > k /\ outgoing'[i] = outgoing[i + 1]
          BY <2>2, <4>1
        <5> QED
          BY <3>1, <5>1, <5>2, Zenon DEF LastAck
      <4> QED
        BY <4>1, Zenon DEF Newest
    <3> QED
      BY <3>2, <3>3, Zenon
  <2> QED
    BY <2>4, <2>5, Zenon
<1>3. CASE RecvClosed \/ WriteFail
  BY <1>3, Zenon DEF RecvClosed, WriteFail, Gone
<1>4. CASE RecvFrame \/ RecvLagged \/ CheckIface("write") \/ CheckIface("check_filters")
  <2>1. UNCHANGED <<outgoing, acked>> /\ wpc \in {"select", "check"}
    BY <1>4, Zenon DEF RecvFrame, RecvLagged, CheckIface
  <2>2. wpc' = "write" => wpc = "check" /\ wmsg' = wmsg
    BY <1>4, Zenon DEF RecvFrame, RecvLagged, CheckIface
  <2>3. ~HoldsAck /\ ~HoldsAck'
    BY <2>1, <2>2, Zenon DEF TypeInv, HoldsAck, IsAck, Frame, AckTypes
  <2> QED
    BY <2>1, <2>3, KeepNewest, Zenon
<1>5. CASE Write
  <2>1. /\ outgoing' = outgoing /\ wpc = "write" /\ wpc' = "select"
        /\ acked' = IF IsAck(wmsg) THEN wmsg.sub ELSE acked
    BY <1>5, Zenon DEF Write
  <2>2. /\ ~HoldsAck' /\ (HoldsAck <=> IsAck(wmsg))
        /\ (NoAckQueued' <=> NoAckQueued) /\ \A k : LastAck(k)' <=> LastAck(k)
    BY <2>1, Zenon DEF HoldsAck, NoAckQueued, LastAck
  <2> QED
    BY <2>1, <2>2, Zenon DEF Newest
<1> QED
  BY <1>2, <1>3, <1>4, <1>5, Zenon

\* What queueing a reply does to it.
LEMMA QueueNewest ==
    ASSUME TypeInv, ~Gone, UNCHANGED <<wpc, wmsg, acked>>,
           NEW t \in ReplyTypes, NEW re \in Nat, NEW sub \in Subscription, Queue(t, re, sub)
    PROVE  /\ \A k \in DOMAIN outgoing : k \in DOMAIN outgoing' /\ outgoing'[k] = outgoing[k]
           /\ t \in AckTypes =>
                 /\ Newest(sub)' /\ ~NoAckQueued'
                 /\ \E k \in DOMAIN outgoing' : IsAck(outgoing'[k]) /\ outgoing'[k].sub = sub
           /\ t \notin AckTypes => (NoAckQueued' <=> NoAckQueued) /\ \A s : Newest(s) => Newest(s)'
<1> DEFINE r == [type |-> t, re |-> re, sub |-> sub]
<1>1. outgoing \in Seq(Reply) /\ r \in Reply /\ outgoing' = Append(outgoing, r)
      /\ (IsAck(r) <=> t \in AckTypes) /\ r.sub = sub
  BY Zenon DEF TypeInv, TypeOK, Reply, IsAck, Queue
<1> HIDE DEF r
<1>2. /\ DOMAIN outgoing' = 1..(Len(outgoing) + 1) /\ DOMAIN outgoing = 1..Len(outgoing)
      /\ Len(outgoing) \in Nat /\ \A k \in DOMAIN outgoing : outgoing'[k] = outgoing[k]
      /\ outgoing'[Len(outgoing) + 1] = r
  BY <1>1, AppendFacts
<1>3. \A k \in DOMAIN outgoing : k \in DOMAIN outgoing' /\ outgoing'[k] = outgoing[k]
  BY <1>2
<1>4. CASE t \in AckTypes
  <2>1. ASSUME NEW k, k = Len(outgoing) + 1
        PROVE  k \in DOMAIN outgoing' /\ LastAck(k)' /\ outgoing'[k].sub = sub
    <3>1. k \in DOMAIN outgoing' /\ outgoing'[k] = r /\ \A j \in DOMAIN outgoing' : ~(j > k)
      BY <1>2, <2>1, SMTT(30)
    <3> QED
      BY <1>1, <1>4, <3>1, Zenon DEF LastAck
  <2>2. \E k \in DOMAIN outgoing' : LastAck(k)' /\ outgoing'[k].sub = sub
    BY <2>1, Zenon
  <2> QED
    BY <1>3, <1>4, <2>2, Zenon DEF Newest, NoAckQueued, LastAck
<1>5. CASE t \notin AckTypes
  <2>1. \A k \in DOMAIN outgoing' : k \in DOMAIN outgoing \/ ~IsAck(outgoing'[k])
    <3> SUFFICES ASSUME NEW k \in DOMAIN outgoing', k \notin DOMAIN outgoing
                 PROVE  ~IsAck(outgoing'[k])
      BY Zenon
    <3>1. k = Len(outgoing) + 1
      BY <1>2
    <3> QED
      BY <1>1, <1>2, <1>5, <3>1, Zenon
  <2>2. HoldsAck' <=> HoldsAck
    BY Zenon DEF HoldsAck
  <2>3. NoAckQueued' <=> NoAckQueued
    BY <1>3, <2>1, Zenon DEF NoAckQueued
  <2>4. \A k \in DOMAIN outgoing : LastAck(k) => LastAck(k)'
    BY <1>3, <2>1, Zenon DEF LastAck
  <2> QED
    BY <1>3, <1>5, <2>2, <2>3, <2>4, Zenon DEF Newest
<1> QED
  BY <1>4, <1>5, Zenon
-----------------------------------------------------------------------------
(* Subscriptions.                                                          *)

\* The writer passes acknowledgements on to the client and lets a frame
\* through only when its interface is in the set in force.
LEMMA WriterView ==
    ASSUME TypeInv, ViewInv, FrameInv,
           \/ RecvReply \/ RecvClosed \/ RecvFrame \/ RecvLagged
           \/ CheckIface("write") \/ CheckIface("check_filters")
           \/ Write \/ WriteFail
    PROVE  ViewInv' /\ FrameInv'
<1> USE DEF busVars, svcVars, readerVars, subVars, writerVars
<1>1. UNCHANGED <<subscribed_ifaces, asked, rpc>> /\ ~Gone
  BY Zenon DEF RecvReply, RecvClosed, RecvFrame, RecvLagged, CheckIface, Write, WriteFail, Gone
<1>2. Acknowledging' <=> Acknowledging
  BY <1>1, Zenon DEF Acknowledging
<1>3. ASSUME ~Gone', ~Acknowledging'
      PROVE  \E s \in Subscription : Newest(s)' /\ subscribed_ifaces' = s.ifaces
  <2>1. PICK s \in Subscription : Newest(s) /\ subscribed_ifaces = s.ifaces
    BY <1>1, <1>2, <1>3, Zenon DEF ViewInv
  <2>2. Newest(s)'
    BY <1>3, <2>1, WriterNewest, Zenon
  <2> QED
    BY <1>1, <2>1, <2>2, Zenon
<1>4. ViewInv'
  BY <1>1, <1>2, <1>3, Zenon DEF ViewInv
<1>5. CASE RecvReply
  <2>1. wmsg' \in Reply
    BY <1>5, TailFacts, SMTT(30) DEF RecvReply, TypeInv, TypeOK
  <2> QED
    BY <1>4, <2>1, SMTT(30) DEF FrameInv, IsFrame, Reply, ReplyTypes, AckTypes, Responses
<1>6. CASE RecvClosed \/ WriteFail \/ RecvFrame \/ RecvLagged \/ Write
  BY <1>4, <1>6, Zenon DEF RecvClosed, WriteFail, RecvFrame, RecvLagged, Write, FrameInv
<1>7. CASE CheckIface("write") \/ CheckIface("check_filters")
  <2>1. /\ UNCHANGED <<outgoing, acked>> /\ wpc = "check"
        /\ wpc' # "select" => wmsg' = wmsg /\ wmsg.iface \in subscribed_ifaces
    BY <1>7, Zenon DEF CheckIface
  <2>2. ASSUME wpc' # "select", ~Acknowledging
        PROVE  \/ wmsg.iface \in acked.ifaces
               \/ \E k \in DOMAIN outgoing : IsAck(outgoing[k]) /\ wmsg.iface \in outgoing[k].sub.ifaces
    <3>1. PICK s \in Subscription : Newest(s) /\ subscribed_ifaces = s.ifaces
      BY <1>1, <2>2, Zenon DEF ViewInv
    <3>2. ~HoldsAck
      BY <2>1, Zenon DEF HoldsAck
    <3> QED
      BY <2>1, <2>2, <3>1, <3>2, Zenon DEF Newest, LastAck
  <2>3. Acknowledging => subscribed_ifaces = asked.ifaces
    BY <1>1, Zenon DEF ViewInv
  <2> QED
    BY <1>1, <1>2, <1>4, <2>1, <2>2, <2>3, SMTT(30) DEF FrameInv
<1> QED
  BY <1>5, <1>6, <1>7, Zenon

\* The reader moves on and changes neither the set nor the channel.
LEMMA StayView ==
    ASSUME ViewInv, FrameInv, Acknowledging' <=> Acknowledging,
           UNCHANGED <<outgoing, wpc, wmsg, acked, subscribed_ifaces, asked>>
    PROVE  ViewInv' /\ FrameInv'
<1>1. (Gone' <=> Gone) /\ (HoldsAck' <=> HoldsAck)
  BY Zenon DEF Gone, HoldsAck
<1>2. \A s : Newest(s) => Newest(s)'
  BY <1>1, KeepNewest, Zenon
<1>3. ViewInv'
  BY <1>1, <1>2, Zenon DEF ViewInv
<1>4. FrameInv'
  BY Zenon DEF FrameInv
<1> QED
  BY <1>3, <1>4, Zenon

\* The reader changes the set and turns to the acknowledgement.
LEMMA ChangeView ==
    ASSUME FrameInv, ~Acknowledging, Acknowledging', subscribed_ifaces' = asked'.ifaces,
           UNCHANGED <<outgoing, wpc, wmsg, acked>>
    PROVE  ViewInv' /\ FrameInv'
  BY Zenon DEF ViewInv, FrameInv

\* The reader queues a reply that is no acknowledgement.
LEMMA QueueView ==
    ASSUME TypeInv, ViewInv, FrameInv, Acknowledging' <=> Acknowledging,
           UNCHANGED <<wpc, wmsg, acked, subscribed_ifaces, asked>>,
           NEW t \in ReplyTypes \ AckTypes, NEW re \in Nat, Queue(t, re, NoSub)
    PROVE  ViewInv' /\ FrameInv'
<1>1. CASE Gone
  BY <1>1, StayView, Zenon DEF Queue
<1>2. CASE ~Gone
  <2>1. NoSub \in Subscription /\ t \in ReplyTypes /\ t \notin AckTypes
    BY Zenon DEF NoSub, Subscription
  <2>2. /\ \A k \in DOMAIN outgoing : k \in DOMAIN outgoing' /\ outgoing'[k] = outgoing[k]
        /\ \A s : Newest(s) => Newest(s)'
    BY <1>2, <2>1, QueueNewest, Zenon
  <2>3. ViewInv'
    BY <1>2, <2>2, Zenon DEF ViewInv
  <2>4. FrameInv'
    BY <2>2, Zenon DEF FrameInv
  <2> QED
    BY <2>3, <2>4, Zenon
<1> QED
  BY <1>1, <1>2, Zenon

\* The reader queues the acknowledgement of what was asked for.
LEMMA AckView ==
    ASSUME TypeInv, ViewInv, FrameInv, Acknowledging, ~Acknowledging',
           UNCHANGED <<wpc, wmsg, acked, subscribed_ifaces>>,
           NEW t \in AckTypes, Queue(t, owed - 1, asked)
    PROVE  ViewInv' /\ FrameInv'
<1>1. CASE Gone
  BY <1>1, Zenon DEF ViewInv, FrameInv, Gone
<1>2. CASE ~Gone
  <2>1. PICK s \in Subscription : s = asked
    BY Zenon DEF TypeInv, TypeOK
  <2>2. t \in ReplyTypes /\ owed - 1 \in Nat /\ Queue(t, owed - 1, s)
    BY <2>1 DEF TypeInv, TypeOK, Busy, ReplyTypes
  <2>3. /\ \A k \in DOMAIN outgoing : k \in DOMAIN outgoing' /\ outgoing'[k] = outgoing[k]
        /\ Newest(s)'
        /\ \E k \in DOMAIN outgoing' : IsAck(outgoing'[k]) /\ outgoing'[k].sub = s
    BY <1>2, <2>2, QueueNewest, Zenon
  <2>4. ViewInv'
    BY <1>2, <2>1, <2>3, Zenon DEF ViewInv
  <2>5. FrameInv'
    BY <2>1, <2>3, Zenon DEF FrameInv
  <2> QED
    BY <2>4, <2>5, Zenon
<1> QED
  BY <1>1, <1>2, Zenon

\* The other shared steps do not touch what the client is told.
LEMMA OtherView ==
    ASSUME TypeInv, ViewInv, FrameInv, PublishOther \/ HandleStep \/ Joined
    PROVE  ViewInv' /\ FrameInv'
<1> USE DEF busVars, svcVars, readerVars, subVars, writerVars
<1>1. UNCHANGED <<outgoing, wpc, wmsg, acked, subscribed_ifaces, asked>>
  BY Zenon DEF PublishOther, HandleStep, Joined
<1>2. Acknowledging' <=> Acknowledging
  BY Zenon DEF PublishOther, HandleStep, Joined, Acknowledging
<1> QED
  BY <1>1, <1>2, StayView, Zenon
-----------------------------------------------------------------------------
(* Steps of a reader, whatever the transport.                              *)

\* What the invariant says of the types of the reader's variables.
LEMMA ReaderFacts ==
    ASSUME TypeInv
    PROVE  /\ outgoing \in Seq(Reply) /\ sender_open \in BOOLEAN /\ owed \in Nat
           /\ subscribed_ifaces \in SUBSET Ifaces /\ asked \in Subscription /\ NoSub \in Subscription
           /\ SvcTypeOK /\ call.resp \in Responses /\ (Busy => owed - 1 \in Nat)
           /\ call.st \in {"can_tx", "publish"} => call.ev \in Sends
<1>1. owed \in Nat /\ (Busy => owed > 0) /\ SvcTypeOK
  BY Zenon DEF TypeInv, TypeOK
<1>2. call.resp \in Responses
  BY <1>1, Zenon DEF SvcTypeOK
<1>3. NoSub \in Subscription
  BY Zenon DEF NoSub, Subscription
<1> QED
  BY <1>1, <1>2, <1>3 DEF TypeInv, TypeOK

\* The order of the stamps is of no concern to the reader.
LEMMA StayOrder ==
    ASSUME OrderInv, UNCHANGED <<busVars, wpc, wmsg, lastFrame>>
    PROVE  OrderInv'
<1>1. UNCHANGED <<unread, published>> /\ (HoldsFrame' <=> HoldsFrame)
  BY Zenon DEF busVars, HoldsFrame
<1> QED
  BY <1>1, Zenon DEF OrderInv

\* A reader step that leaves the writer, the service and the bus alone keeps
\* the session typed when it keeps its own variables typed.
LEMMA ReaderType ==
    ASSUME TypeInv, UNCHANGED <<busVars, writerVars>>,
           outgoing' \in Seq(Reply), sender_open' \in BOOLEAN,
           subscribed_ifaces' \in SUBSET Ifaces, asked' \in Subscription,
           rpc' \in ReaderStates, owed' \in Nat, Busy' => owed' > 0,
           SvcTypeOK', call'.st \in {"can_tx", "publish"} => call'.ev \in Sends
    PROVE  TypeInv'
  BY Zenon DEF TypeInv, TypeOK, busVars, writerVars, BusTypeOK

\* A queued reply keeps the channel typed.
LEMMA QueueType ==
    ASSUME TypeInv, NEW t \in ReplyTypes, NEW re \in Nat, NEW sub \in Subscription, Queue(t, re, sub)
    PROVE  outgoing' \in Seq(Reply)
<1>1. outgoing \in Seq(Reply) /\ [type |-> t, re |-> re, sub |-> sub] \in Reply
  BY Zenon DEF TypeInv, TypeOK, Reply
<1> QED
  BY <1>1, AppendFacts, Zenon DEF Queue

\* A call of the service starts well typed.
LEMMA HandleType ==
    ASSUME TypeInv, NEW req \in Requests, req.kind \in {"ClientHello", "Ping", "ListIfaces", "SendFrame"},
           call' = handle(req, owed), UNCHANGED <<accepted, echoed>>
    PROVE  /\ SvcTypeOK'
           /\ call'.st \in {"can_tx", "publish"} => call'.ev \in Sends
<1>1. req.kind = "SendFrame" => req.iface \in Ifaces /\ req.cls \in Classes
  BY Zenon DEF Requests
<1>2. accepted' \subseteq Sends /\ echoed' \subseteq Sends /\ owed \in Nat
  BY Zenon DEF TypeInv, TypeOK, SvcTypeOK
<1>3. {"Pong", "SendAckErr", "Error"} \subseteq Responses
  BY Zenon DEF Responses
<1>4. CASE req.kind = "Ping" \/ req.kind = "ClientHello" \/ (req.kind = "SendFrame" /\ ~req.hex_ok)
  <2>1. \E resp \in Responses : call' = Done(resp)
    BY <1>3, <1>4, Zenon DEF handle
  <2> QED
    BY <1>2, <2>1, DoneType, Zenon DEF SvcTypeOK
<1>5. CASE req.kind = "ListIfaces"
  BY <1>2, <1>3, <1>5, Zenon DEF handle, Idle, SvcTypeOK
<1>6. CASE req.kind = "SendFrame" /\ req.hex_ok
  <2> DEFINE f == [re |-> owed, iface |-> req.iface, cls |-> req.cls]
  <2>1. f \in Sends /\ call' = [Idle EXCEPT !.st = "can_tx", !.ev = f]
    BY <1>1, <1>2, <1>6, Zenon DEF handle, Sends
  <2> HIDE DEF f
  <2> QED
    BY <1>2, <1>3, <2>1, Zenon DEF Idle, SvcTypeOK
<1> QED
  BY <1>4, <1>5, <1>6, Zenon
-----------------------------------------------------------------------------
(* The whole invariant.                                                    *)

Inv == TypeInv /\ OrderInv /\ ReplyInv /\ ViewInv /\ FrameInv

\* A new session satisfies it.
LEMMA InitInv == SessionInit => Inv
<1> SUFFICES ASSUME SessionInit PROVE Inv
  BY Zenon
<1> USE DEF SessionInit, subscribe_frames, SvcInit
<1>1. <<>> \in Seq(Event) /\ <<>> \in Seq(Reply) /\ Len(<<>>) = 0 /\ DOMAIN <<>> = {}
  OBVIOUS
<1>2. TypeInv
  <2>1. BusTypeOK
    <3>1. 0 \in 0..MaxStamp
      BY BusAssumption
    <3> QED
      BY <1>1, <3>1, Zenon DEF BusTypeOK
  <2>2. SvcTypeOK /\ call.st = "idle"
    BY Zenon DEF SvcTypeOK, Idle, Responses
  <2> QED
    BY <1>1, <2>1, <2>2, BusAssumption DEF TypeInv, TypeOK, Subscription, NoSub, ReaderStates,
       WriterStates, Busy, Acknowledging
<1>3. OrderInv
  BY <1>1 DEF OrderInv, HoldsFrame
<1>4. ReplyInv
  BY <1>1 DEF ReplyInv, InHand, HoldsReply, BusyN, Busy, Acknowledging, Gone
<1>5. ViewInv /\ FrameInv
  <2>1. Newest(NoSub)
    BY <1>1, Zenon DEF Newest, NoAckQueued, HoldsAck
  <2>2. NoSub \in Subscription /\ NoSub.ifaces = {}
    BY Zenon DEF NoSub, Subscription
  <2> QED
    BY <2>1, <2>2, Zenon DEF ViewInv, FrameInv, Acknowledging
<1> QED
  BY <1>2, <1>3, <1>4, <1>5, Zenon DEF Inv

\* The steps all transports share preserve it.
LEMMA SharedInv ==
    ASSUME Inv,
           \/ RecvReply \/ RecvClosed \/ RecvFrame \/ RecvLagged
           \/ CheckIface("write") \/ CheckIface("check_filters")
           \/ Write \/ WriteFail
           \/ PublishOther \/ HandleStep \/ Joined
    PROVE  Inv'
<1>1. CASE \/ RecvReply \/ RecvClosed \/ RecvFrame \/ RecvLagged
           \/ CheckIface("write") \/ CheckIface("check_filters")
           \/ Write \/ WriteFail
  BY <1>1, WriterType, WriterOrder, WriterReplies, WriterView, Zenon DEF Inv
<1>2. CASE PublishOther \/ HandleStep \/ Joined
  BY <1>2, OtherType, OtherOrder, OtherReplies, OtherView, Zenon DEF Inv
<1> QED
  BY <1>1, <1>2, Zenon

\* A reader step that answers at once: an Error, a Pong, HelloAck.
LEMMA AnswerInv ==
    ASSUME Inv, ~Leaving, ~Busy, NEW t \in ReplyTypes \ AckTypes, Answer(t),
           UNCHANGED <<busVars, svcVars, writerVars, subVars>>,
           rpc' \in ReaderStates, ~Busy', sender_open' \in BOOLEAN, ~sender_open' => Leaving'
    PROVE  Inv'
<1>1. TypeInv /\ OrderInv /\ ReplyInv /\ ViewInv /\ FrameInv
  BY Zenon DEF Inv
<1>2. /\ Queue(t, owed, NoSub) /\ owed' = owed + 1 /\ BusyN = 0 /\ (Acknowledging' <=> Acknowledging)
      /\ UNCHANGED <<wpc, wmsg, replied, acked, lastFrame>>
      /\ UNCHANGED <<subscribed_ifaces, asked, call, accepted, echoed>>
  BY Zenon DEF Answer, writerVars, subVars, svcVars, BusyN, Busy
<1>3. owed \in Nat /\ owed' \in Nat /\ t \in ReplyTypes
  BY <1>1, <1>2, ReaderFacts
<1>4. TypeInv'
  <2>1. outgoing' \in Seq(Reply)
    BY <1>1, <1>2, <1>3, QueueType, ReaderFacts, Zenon
  <2>2. SvcTypeOK' /\ subscribed_ifaces' \in SUBSET Ifaces /\ asked' \in Subscription
    BY <1>1, <1>2, ReaderFacts, Zenon DEF SvcTypeOK
  <2>3. call'.st \in {"can_tx", "publish"} => call'.ev \in Sends
    BY <1>1, <1>2, ReaderFacts, Zenon
  <2> QED
    BY <1>1, <1>3, <2>1, <2>2, <2>3, ReaderType, Zenon
<1>5. OrderInv'
  BY <1>1, <1>2, StayOrder, Zenon
<1>6. ReplyInv'
  <2>1. Queue(t, owed - BusyN, NoSub) /\ owed' = owed - BusyN + 1
    BY <1>2, <1>3
  <2>2. NoSub \in Subscription
    BY <1>1, ReaderFacts, Zenon
  <2> QED
    BY <1>1, <1>2, <1>3, <2>1, <2>2, QueueReplies, Zenon
<1>7. ViewInv' /\ FrameInv'
  BY <1>1, <1>2, <1>3, QueueView, Zenon
<1> QED
  BY <1>4, <1>5, <1>6, <1>7, Zenon DEF Inv

\* A reader step that neither takes nor answers a request.
LEMMA MoveInv ==
    ASSUME Inv, ~Leaving, ~Busy, ~Busy', rpc' \in ReaderStates,
           sender_open' \in BOOLEAN, ~sender_open' => Leaving',
           UNCHANGED <<busVars, svcVars, outgoing, writerVars, subVars, owed>>
    PROVE  Inv'
<1>1. TypeInv /\ OrderInv /\ ReplyInv /\ ViewInv /\ FrameInv
  BY Zenon DEF Inv
<1>2. /\ UNCHANGED <<wpc, wmsg, replied, acked, lastFrame, outgoing, owed>>
      /\ UNCHANGED <<subscribed_ifaces, asked, call, accepted, echoed>>
      /\ BusyN = 0 /\ BusyN' = 0 /\ (Acknowledging' <=> Acknowledging)
  BY Zenon DEF writerVars, subVars, svcVars, BusyN, Busy
<1>3. TypeInv'
  <2>1. SvcTypeOK' /\ subscribed_ifaces' \in SUBSET Ifaces /\ asked' \in Subscription
        /\ owed' \in Nat /\ outgoing' \in Seq(Reply)
    BY <1>1, <1>2, ReaderFacts, Zenon DEF SvcTypeOK
  <2>2. call'.st \in {"can_tx", "publish"} => call'.ev \in Sends
    BY <1>1, <1>2, ReaderFacts, Zenon
  <2> QED
    BY <1>1, <2>1, <2>2, ReaderType, Zenon
<1>4. OrderInv'
  BY <1>1, <1>2, StayOrder, Zenon
<1>5. ReplyInv'
  <2>1. wpc # "done" /\ owed' = owed + BusyN' - BusyN
    BY <1>1, <1>2, ReaderFacts DEF ReplyInv
  <2> QED
    BY <1>1, <1>2, <2>1, TakeReplies, Zenon
<1>6. ViewInv' /\ FrameInv'
  BY <1>1, <1>2, StayView, Zenon
<1> QED
  BY <1>3, <1>4, <1>5, <1>6, Zenon DEF Inv

\* A reader step that takes a request it will answer later: a subscription,
\* which changes the set at once, or a call of the service.
LEMMA TakeInv ==
    ASSUME Inv, ~Leaving, ~Busy, Busy', Take, rpc' \in ReaderStates,
           UNCHANGED <<busVars, accepted, echoed, outgoing, writerVars, sender_open>>,
           \/ /\ Acknowledging' /\ subscribed_ifaces' = asked'.ifaces
              /\ asked' \in Subscription /\ UNCHANGED call
           \/ /\ ~Acknowledging' /\ UNCHANGED subVars
              /\ SvcTypeOK'
              /\ call'.st \in {"can_tx", "publish"} => call'.ev \in Sends
    PROVE  Inv'
<1>1. TypeInv /\ OrderInv /\ ReplyInv /\ ViewInv /\ FrameInv
  BY Zenon DEF Inv
<1>2. /\ UNCHANGED <<wpc, wmsg, replied, acked, lastFrame, outgoing>>
      /\ owed' = owed + 1 /\ BusyN = 0 /\ BusyN' = 1 /\ ~Acknowledging
  BY Zenon DEF writerVars, BusyN, Take, Busy
<1>3. owed \in Nat /\ owed' \in Nat /\ owed' > 0
  BY <1>1, <1>2, ReaderFacts
<1>4. TypeInv'
  <2>1. outgoing' \in Seq(Reply) /\ sender_open' \in BOOLEAN
    BY <1>1, <1>2, ReaderFacts, Zenon
  <2>2. subscribed_ifaces' \in SUBSET Ifaces /\ asked' \in Subscription
    BY <1>1, ReaderFacts, Zenon DEF subVars, Subscription
  <2>3. SvcTypeOK' /\ (call'.st \in {"can_tx", "publish"} => call'.ev \in Sends)
    BY <1>1, ReaderFacts, Zenon DEF SvcTypeOK
  <2> QED
    BY <1>1, <1>3, <2>1, <2>2, <2>3, ReaderType, Zenon
<1>5. OrderInv'
  BY <1>1, <1>2, StayOrder, Zenon
<1>6. ReplyInv'
  <2>1. sender_open /\ wpc # "done"
    BY <1>1, Zenon DEF ReplyInv
  <2>2. owed' = owed + BusyN' - BusyN
    BY <1>2, <1>3, SMTT(30)
  <2> QED
    BY <1>1, <1>2, <2>1, <2>2, TakeReplies, Zenon
<1>7. ViewInv' /\ FrameInv'
  <2>1. CASE Acknowledging'
    BY <1>1, <1>2, <2>1, ChangeView, Zenon
  <2>2. CASE ~Acknowledging'
    BY <1>1, <1>2, <2>2, StayView, Zenon DEF subVars
  <2> QED
    BY <2>1, <2>2, Zenon
<1> QED
  BY <1>4, <1>5, <1>6, <1>7, Zenon DEF Inv

\* The reader queues the reply it owes: an acknowledgement, or what the
\* service answered.
LEMMA OwedReplyInv ==
    ASSUME Inv, ~Leaving, Busy, ~Busy', rpc' \in ReaderStates,
           \/ Acknowledging /\ \E t \in AckTypes : QueueAck(t)
           \/ ReplyHandled
    PROVE  Inv'
<1>1. TypeInv /\ OrderInv /\ ReplyInv /\ ViewInv /\ FrameInv
  BY Zenon DEF Inv
<1>2. /\ UNCHANGED <<busVars, writerVars, sender_open, subscribed_ifaces, owed>>
      /\ UNCHANGED <<wpc, wmsg, replied, acked, lastFrame>>
  BY Zenon DEF QueueAck, ReplyHandled, writerVars, subVars
<1>3. /\ owed \in Nat /\ owed - 1 \in Nat /\ asked \in Subscription /\ NoSub \in Subscription
      /\ sender_open' \in BOOLEAN /\ subscribed_ifaces' \in SUBSET Ifaces /\ BusyN = 1
  BY <1>1, <1>2, ReaderFacts, Zenon DEF BusyN
<1>4. /\ owed' \in Nat /\ owed' = owed - BusyN + 1 /\ owed - BusyN = owed - 1
      /\ sender_open /\ sender_open'
  BY <1>1, <1>2, <1>3 DEF ReplyInv
<1>5. OrderInv'
  BY <1>1, <1>2, StayOrder, Zenon
<1>6. CASE Acknowledging /\ \E t \in AckTypes : QueueAck(t)
  <2>1. PICK t \in AckTypes : QueueAck(t)
    BY <1>6, Zenon
  <2>2. t \in ReplyTypes /\ Queue(t, owed - 1, asked) /\ asked' = NoSub /\ UNCHANGED <<call, accepted, echoed>>
    BY <2>1, Zenon DEF QueueAck, ReplyTypes, svcVars
  <2>3. TypeInv'
    <3>1. outgoing' \in Seq(Reply)
      BY <1>1, <1>3, <2>2, QueueType, Zenon
    <3>2. SvcTypeOK' /\ (call'.st \in {"can_tx", "publish"} => call'.ev \in Sends)
      BY <1>1, <2>2, ReaderFacts, Zenon DEF SvcTypeOK
    <3> QED
      BY <1>1, <1>2, <1>3, <1>4, <2>2, <3>1, <3>2, ReaderType, Zenon
  <2>4. ReplyInv'
    BY <1>1, <1>2, <1>3, <1>4, <2>2, QueueReplies, Zenon
  <2>5. ViewInv' /\ FrameInv'
    <3>1. ~Acknowledging'
      BY Zenon DEF Busy
    <3> QED
      BY <1>1, <1>2, <1>6, <2>2, <3>1, AckView, Zenon
  <2> QED
    BY <1>5, <2>3, <2>4, <2>5, Zenon DEF Inv
<1>7. CASE ReplyHandled
  <2>1. /\ Queue(call.resp, owed - 1, NoSub) /\ call' = Idle
        /\ UNCHANGED <<accepted, echoed, subscribed_ifaces, asked>> /\ (Acknowledging' <=> Acknowledging)
    BY <1>7, Zenon DEF ReplyHandled, subVars, Busy, Acknowledging
  <2>2. call.resp \in ReplyTypes \ AckTypes
    BY <1>1, ReaderFacts, Zenon DEF ReplyTypes, AckTypes, Responses
  <2>3. TypeInv'
    <3>1. outgoing' \in Seq(Reply)
      BY <1>1, <1>3, <2>1, <2>2, QueueType, Zenon
    <3>2. SvcTypeOK' /\ call'.st = "idle"
      BY <1>1, <2>1, ReaderFacts, Zenon DEF Idle, SvcTypeOK, Responses
    <3> QED
      BY <1>1, <1>2, <1>3, <1>4, <2>1, <3>1, <3>2, ReaderType, Zenon
  <2>4. ReplyInv'
    BY <1>1, <1>2, <1>3, <1>4, <2>1, <2>2, QueueReplies, Zenon
  <2>5. ViewInv' /\ FrameInv'
    BY <1>1, <1>2, <1>3, <2>1, <2>2, QueueView, Zenon
  <2> QED
    BY <1>5, <2>3, <2>4, <2>5, Zenon DEF Inv
<1> QED
  BY <1>6, <1>7, Zenon

\* A step that changes nothing preserves it.
LEMMA StutterInv ==
    ASSUME Inv, UNCHANGED sessionVars
    PROVE  Inv'
<1> USE DEF sessionVars, busVars, svcVars, readerVars, subVars, writerVars
<1>1. TypeInv'
  <2>1. BusTypeOK' /\ SvcTypeOK' /\ (Busy' <=> Busy)
    BY Zenon DEF Inv, TypeInv, TypeOK, BusTypeOK, SvcTypeOK, Busy, Acknowledging
  <2> QED
    BY <2>1, Zenon DEF Inv, TypeInv, TypeOK
<1>2. OrderInv'
  BY StayOrder, Zenon DEF Inv
<1>3. ReplyInv'
  BY Zenon DEF Inv, ReplyInv, InHand, HoldsReply, BusyN, Busy, Acknowledging, Leaving, Gone
<1>4. ViewInv' /\ FrameInv'
  BY StayView, Zenon DEF Inv, Acknowledging
<1> QED
  BY <1>1, <1>2, <1>3, <1>4, Zenon DEF Inv

\* It implies the properties of Session that the runs check.
LEMMA InvImplies ==
    ASSUME Inv
    PROVE  /\ TypeOK /\ FramesAreSubscribed /\ ViewsAgree
           /\ FramesInOrder /\ RepliesInOrder /\ NothingOwed
<1>1. TypeOK
  BY Zenon DEF Inv, TypeInv
<1>2. FramesAreSubscribed
  BY Zenon DEF Inv, FrameInv, FramesAreSubscribed
<1>3. ViewsAgree
  <2> SUFFICES ASSUME ~Gone, ~Acknowledging, ~AckOnItsWay
               PROVE  subscribed_ifaces = acked.ifaces
    BY Zenon DEF ViewsAgree
  <2>1. NoAckQueued /\ ~HoldsAck
    BY Zenon DEF AckOnItsWay, NoAckQueued, HoldsAck
  <2>2. \A s : Newest(s) => acked = s
    BY <2>1, Zenon DEF Newest, NoAckQueued, LastAck
  <2> QED
    BY <2>2, Zenon DEF Inv, ViewInv
<1>4. FramesInOrder
  <2> SUFFICES ASSUME wpc = "write" /\ IsFrame(wmsg)
               PROVE  wmsg.n > lastFrame \/ wmsg.n = MaxStamp
    BY Zenon DEF FramesInOrder
  <2>1. Before(lastFrame, wmsg.n)
    BY Zenon DEF Inv, OrderInv, HoldsFrame
  <2> QED
    BY <2>1, Zenon DEF Before
<1>5. RepliesInOrder
  BY Zenon DEF Inv, ReplyInv, RepliesInOrder, HoldsReply, Gone
<1>6. NothingOwed
  BY Zenon DEF Inv, ReplyInv, NothingOwed
<1> QED
  BY <1>1, <1>2, <1>3, <1>4, <1>5, <1>6, Zenon
-----------------------------------------------------------------------------
(* The contract.  The lemmas have the hypotheses of those above, so that a *)
(* transport shows with one case analysis that it keeps the invariant and  *)
(* that it keeps the contract.                                             *)

\* No subscription is in the reader's hands but while it acknowledges one.
AskedInv == ~Acknowledging => asked = NoSub

SessionInv == Inv /\ AskedInv

\* The step is one of the contract, or leaves its variables alone.
Kept == [C!Next]_(C!vars)
-----------------------------------------------------------------------------
(* Sequences.                                                              *)

\* A sequence is its head before its tail.
LEMMA HeadTail ==
    ASSUME NEW S, NEW s \in Seq(S), s # <<>>
    PROVE  <<Head(s)>> \o Tail(s) = s
  OBVIOUS

\* A sequence with one element put in front: its ends and its length.
LEMMA ConsFacts ==
    ASSUME NEW S, NEW s \in Seq(S), NEW e \in S
    PROVE  /\ <<e>> \o s # <<>> /\ Head(<<e>> \o s) = e /\ Tail(<<e>> \o s) = s
           /\ Len(<<e>> \o s) = Len(s) + 1 /\ Len(s) \in Nat
  OBVIOUS

\* Putting in front and appending commute.
LEMMA ConsAppend ==
    ASSUME NEW S, NEW s \in Seq(S), NEW e \in S, NEW d \in S
    PROVE  <<e>> \o Append(s, d) = Append(<<e>> \o s, d)
  OBVIOUS
-----------------------------------------------------------------------------
(* What the contract sees of a session.                                    *)

\* The types the lemmas below use.
LEMMA SeenTypes ==
    ASSUME Inv
    PROVE  /\ outgoing \in Seq(Reply) /\ wmsg \in Reply \cup Frame \cup {NoMsg}
           /\ owed \in Nat /\ replied \in Nat /\ asked \in Subscription
           /\ wpc \in WriterStates
  BY Zenon DEF Inv, TypeInv, TypeOK

\* A message is a reply, a frame or nothing.
LEMMA Kinds ==
    ASSUME NEW m \in Reply \cup Frame \cup {NoMsg}
    PROVE  /\ IsReply(m) => m \in Reply /\ ~IsFrame(m)
           /\ IsFrame(m) => m \in Frame /\ ~IsReply(m) /\ m # NoMsg
           /\ IsAck(m) => IsReply(m)
           /\ m \in Reply => IsReply(m)
           /\ m \in Frame => IsFrame(m)
  BY DEF Reply, Frame, NoMsg, IsReply, IsFrame, IsAck, ReplyTypes, AckTypes, Responses

\* The replies that are decided and not delivered.
LEMMA PendingFacts ==
    ASSUME Inv
    PROVE  /\ Pending \in Seq(Reply)
           /\ HoldsReply => Pending = <<wmsg>> \o outgoing /\ wmsg \in Reply
           /\ ~HoldsReply => Pending = outgoing
           /\ Len(Pending) = InHand + Len(outgoing) /\ Len(outgoing) \in Nat
<1>1. outgoing \in Seq(Reply) /\ (HoldsReply => wmsg \in Reply)
  BY SeenTypes, Kinds, Zenon DEF HoldsReply
<1>2. CASE HoldsReply
  BY <1>1, <1>2, ConsFacts DEF Pending, HoldsReply, InHand
<1>3. CASE ~HoldsReply
  BY <1>1, <1>3 DEF Pending, HoldsReply, InHand
<1> QED
  BY <1>2, <1>3, Zenon

\* A request is undecided while the reader is busy with it.
LEMMA UndecidedIsBusy ==
    ASSUME Inv, ~Gone
    PROVE  C!Undecided <=> Busy
<1>0. InHand \in Nat /\ (Busy => BusyN = 1) /\ (~Busy => BusyN = 0)
  BY Zenon DEF InHand, BusyN
<1>1. owed = replied + InHand + Len(outgoing) + BusyN
  BY Zenon DEF Inv, ReplyInv
<1>2. Len(Pending) = InHand + Len(outgoing) /\ Len(outgoing) \in Nat
  BY PendingFacts, Zenon
<1>3. owed \in Nat /\ replied \in Nat
  BY SeenTypes, Zenon
<1>4. CASE Busy
  BY <1>0, <1>1, <1>2, <1>3, <1>4 DEF C!Undecided
<1>5. CASE ~Busy
  BY <1>0, <1>1, <1>2, <1>3, <1>5 DEF C!Undecided
<1> QED
  BY <1>4, <1>5, Zenon

\* How the position of the writer says whether the session is over.
LEMMA OverFacts ==
    /\ ~Gone => Over = "no"
    /\ wpc = "done" => Over = "ended"
    /\ wpc = "failed" => Over = "broken"
  BY Zenon DEF Over, Gone
-----------------------------------------------------------------------------
(* The writer task.                                                        *)

\* A step that moves no message is one the contract does not see.
LEMMA StayKept ==
    ASSUME UNCHANGED <<wpc, wmsg, outgoing, owed, replied, asked, acked, lastFrame>>
    PROVE  Kept /\ UNCHANGED Pending
<1>1. UNCHANGED <<Pending, Writing, Over>>
  BY Zenon DEF Pending, Writing, Over
<1> QED
  BY <1>1, Zenon DEF Kept, C!vars

\* Taking a reply off the channel changes nothing for the client.
LEMMA RecvReplyKept == Inv /\ RecvReply => Kept /\ UNCHANGED Pending
<1> SUFFICES ASSUME Inv, RecvReply PROVE Kept /\ UNCHANGED Pending
  BY Zenon
<1>1. /\ wpc = "select" /\ wpc' = "write" /\ outgoing # <<>>
      /\ wmsg' = Head(outgoing) /\ outgoing' = Tail(outgoing)
      /\ UNCHANGED <<owed, asked, replied, acked, lastFrame>>
  BY Zenon DEF RecvReply, readerVars, subVars
<1>2. outgoing \in Seq(Reply) /\ wmsg' \in Reply
  BY <1>1, SeenTypes, TailFacts, Zenon
<1>3. IsReply(wmsg') /\ ~IsFrame(wmsg')
  BY <1>2, Kinds, Zenon
<1>4. Pending' = Pending
  BY <1>1, <1>2, <1>3, HeadTail, Zenon DEF Pending
<1>5. Writing' = Writing /\ Over' = Over
  BY <1>1, <1>3, Zenon DEF Writing, Over
<1> QED
  BY <1>1, <1>4, <1>5, Zenon DEF Kept, C!vars

\* The writer runs out: every reply has been delivered.
LEMMA RecvClosedKept == Inv /\ RecvClosed => Kept
<1> SUFFICES ASSUME Inv, RecvClosed PROVE Kept
  BY Zenon
<1>1. /\ wpc = "select" /\ wpc' = "done" /\ outgoing = <<>> /\ ~sender_open
      /\ UNCHANGED <<outgoing, owed, asked, replied, acked, lastFrame>>
  BY Zenon DEF RecvClosed, readerVars, subVars
<1>2. owed = replied + InHand + Len(outgoing) + BusyN /\ Leaving
  BY <1>1, Zenon DEF Inv, ReplyInv, Gone
<1>3. InHand = 0 /\ BusyN = 0 /\ Len(outgoing) = 0 /\ replied \in Nat
  BY <1>1, <1>2, SeenTypes, Zenon DEF InHand, HoldsReply, BusyN, Busy, Acknowledging, Leaving
<1>4. Pending = <<>> /\ Pending' = <<>> /\ Writing = NoMsg /\ Writing' = NoMsg
  BY <1>1, Zenon DEF Pending, Writing
<1>5. Over = "no" /\ Over' = "ended"
  BY <1>1, Zenon DEF Over
<1>6. C!End
  BY <1>1, <1>2, <1>3, <1>4, <1>5 DEF C!End
<1> QED
  BY <1>6, Zenon DEF Kept, C!Next

\* A frame taken off the bus is not on its way before it passed the checks.
LEMMA RecvFrameKept == Inv /\ (RecvFrame \/ RecvLagged) => Kept
<1> SUFFICES ASSUME Inv, RecvFrame \/ RecvLagged PROVE Kept
  BY Zenon
<1>1. /\ wpc \in {"select"} /\ wpc' \in {"select", "check"}
      /\ UNCHANGED <<outgoing, owed, asked, replied, acked, lastFrame>>
  BY Zenon DEF RecvFrame, RecvLagged, readerVars, subVars, writerVars
<1>2. UNCHANGED <<Pending, Writing, Over>>
  BY <1>1, Zenon DEF Pending, Writing, Over
<1> QED
  BY <1>1, <1>2, Zenon DEF Kept, C!vars

\* A frame that has passed them is announced, and later than the last one.
LEMMA CheckedKept ==
    ASSUME Inv, Inv', wpc \in {"check", "check_filters"},
           \/ wpc' = "write" /\ UNCHANGED wmsg
           \/ wpc' = "check_filters"
           \/ wpc' = "select",
           UNCHANGED <<outgoing, owed, rpc, asked, replied, acked, lastFrame>>
    PROVE  Kept
<1>1. CASE wpc' \in {"select", "check_filters"}
  <2>1. UNCHANGED <<Pending, Writing, Over>>
    BY <1>1, Zenon DEF Pending, Writing, Over
  <2> QED
    BY <2>1, Zenon DEF Kept, C!vars
<1>2. CASE wpc' = "write" /\ UNCHANGED wmsg
  <2>1. wmsg \in Frame /\ IsFrame(wmsg) /\ ~IsReply(wmsg)
    BY Kinds, Zenon DEF Inv, TypeInv
  <2>2. Writing = NoMsg /\ Writing' = wmsg /\ Pending = outgoing /\ Pending' = outgoing
        /\ Over = "no" /\ Over' = "no"
    BY <1>2, <2>1, Zenon DEF Writing, Pending, Over
  <2>3. \/ wmsg.iface \in acked.ifaces
        \/ \E k \in DOMAIN outgoing : IsAck(outgoing[k]) /\ wmsg.iface \in outgoing[k].sub.ifaces
        \/ wmsg.iface \in asked.ifaces
    BY <1>2, <2>1, Zenon DEF Inv, FrameInv
  <2>4. C!Announced(wmsg.iface)
    BY <2>2, <2>3, Zenon DEF C!Announced, IsAck
  <2>5. wmsg.n > lastFrame \/ wmsg.n = MaxStamp
    BY <2>1, Zenon DEF Inv, OrderInv, HoldsFrame, Before
  <2>6. C!StartFrame
    BY <2>1, <2>2, <2>4, <2>5, Zenon DEF C!StartFrame
  <2> QED
    BY <2>6, Zenon DEF Kept, C!Next
<1> QED
  BY <1>1, <1>2, Zenon

\* The client gets a reply, or a frame.
LEMMA WriteKept == Inv /\ Write => Kept
<1> SUFFICES ASSUME Inv, Write PROVE Kept
  BY Zenon
<1>1. /\ wpc = "write" /\ wpc' = "select"
      /\ UNCHANGED <<outgoing, owed, asked>>
      /\ replied' = IF IsReply(wmsg) THEN replied + 1 ELSE replied
      /\ acked' = IF IsAck(wmsg) THEN wmsg.sub ELSE acked
      /\ lastFrame' = IF IsFrame(wmsg) THEN wmsg.n ELSE lastFrame
  BY Zenon DEF Write, readerVars, subVars
<1>2. Pending' = outgoing /\ Writing' = NoMsg /\ Over = "no" /\ Over' = "no"
  BY <1>1, Zenon DEF Pending, Writing, Over
<1>3. outgoing \in Seq(Reply) /\ wmsg \in Reply \cup Frame \cup {NoMsg}
  BY SeenTypes, Zenon
<1>4. CASE IsReply(wmsg)
  <2>1. wmsg \in Reply /\ ~IsFrame(wmsg) /\ Pending = <<wmsg>> \o outgoing /\ Writing = NoMsg
    BY <1>1, <1>3, <1>4, Kinds, Zenon DEF Pending, Writing
  <2>2. Pending # <<>> /\ Head(Pending) = wmsg /\ Tail(Pending) = outgoing
    BY <1>3, <2>1, ConsFacts, Zenon
  <2>3. wmsg.re = replied
    BY <1>1, <1>4, Zenon DEF Inv, ReplyInv, HoldsReply, Gone
  <2>4. C!DeliverReply
    BY <1>1, <1>2, <1>4, <2>1, <2>2, <2>3, Zenon DEF C!DeliverReply, IsAck
  <2> QED
    BY <2>4, Zenon DEF Kept, C!Next
<1>5. CASE IsFrame(wmsg)
  <2>1. ~IsReply(wmsg) /\ ~IsAck(wmsg) /\ wmsg # NoMsg /\ Pending = outgoing /\ Writing = wmsg
    BY <1>1, <1>3, <1>5, Kinds, Zenon DEF Pending, Writing
  <2>2. C!DeliverFrame
    BY <1>1, <1>2, <1>5, <2>1, Zenon DEF C!DeliverFrame
  <2> QED
    BY <2>2, Zenon DEF Kept, C!Next
<1>6. CASE ~IsReply(wmsg) /\ ~IsFrame(wmsg)
  <2>1. ~IsAck(wmsg)
    BY <1>3, <1>6, Kinds, Zenon
  <2>2. Pending = outgoing /\ Writing = NoMsg
    BY <1>6, Zenon DEF Pending, Writing
  <2> QED
    BY <1>1, <1>2, <1>6, <2>1, <2>2, Zenon DEF Kept, C!vars
<1> QED
  BY <1>4, <1>5, <1>6, Zenon

\* A failed write breaks the session.
LEMMA WriteFailKept == Inv /\ WriteFail => Kept
<1> SUFFICES ASSUME Inv, WriteFail PROVE Kept
  BY Zenon
<1>1. /\ wpc = "write" /\ wpc' = "failed" /\ outgoing' = <<>>
      /\ UNCHANGED <<owed, asked, replied, acked, lastFrame>>
  BY Zenon DEF WriteFail, readerVars, subVars
<1>2. Pending' = <<>> /\ Writing' = NoMsg /\ Over = "no" /\ Over' = "broken"
  BY <1>1, Zenon DEF Pending, Writing, Over
<1>3. C!Break
  BY <1>1, <1>2, Zenon DEF C!Break
<1> QED
  BY <1>3, Zenon DEF Kept, C!Next
-----------------------------------------------------------------------------
(* The reader.                                                             *)

\* While the reader serves its client, the writer is at work or has failed.
LEMMA NotDone ==
    ASSUME Inv, ~Leaving, Gone
    PROVE  wpc = "failed"
  BY Zenon DEF Inv, ReplyInv, Gone

\* A reply that is queued is the last of those on their way.
LEMMA QueuePending ==
    ASSUME Inv, ~Gone, NEW r \in Reply, outgoing' = Append(outgoing, r), UNCHANGED <<wpc, wmsg>>
    PROVE  Pending' = Append(Pending, r) /\ UNCHANGED <<Writing, Over>> /\ Over = "no"
<1>1. outgoing \in Seq(Reply)
  BY SeenTypes, Zenon
<1>2. CASE HoldsReply
  <2>1. wmsg \in Reply /\ Pending = <<wmsg>> \o outgoing
    BY <1>2, PendingFacts, Zenon
  <2>2. Pending' = <<wmsg>> \o Append(outgoing, r)
    BY <1>2, Zenon DEF Pending, HoldsReply
  <2> QED
    BY <1>1, <2>1, <2>2, ConsAppend, OverFacts, Zenon DEF Writing, Over
<1>3. CASE ~HoldsReply
  BY <1>3, OverFacts, Zenon DEF Pending, HoldsReply, Writing, Over
<1> QED
  BY <1>2, <1>3, Zenon

\* Once the writer has failed the client hears of nothing.
LEMMA UnheardKept ==
    ASSUME Inv, wpc = "failed", owed' \in {owed, owed + 1}, asked' \in Subscription,
           UNCHANGED <<wpc, wmsg, outgoing, replied, acked, lastFrame>>
    PROVE  Kept
<1>1. Over = "broken" /\ UNCHANGED <<Pending, Writing, Over>>
  BY Zenon DEF Pending, Writing, Over
<1>2. C!Unheard
  BY <1>1, Zenon DEF C!Unheard
<1> QED
  BY <1>2, Zenon DEF Kept, C!Next

\* A reader step that answers at once: an Error, a Pong, HelloAck.
LEMMA AnswerStep ==
    ASSUME SessionInv, ~Leaving, ~Busy, NEW t \in ReplyTypes \ AckTypes, Answer(t),
           UNCHANGED <<busVars, svcVars, writerVars, subVars>>,
           rpc' \in ReaderStates, ~Busy', sender_open' \in BOOLEAN, ~sender_open' => Leaving'
    PROVE  SessionInv' /\ Kept
<1>1. Inv /\ AskedInv
  BY Zenon DEF SessionInv
<1>2. Inv'
  BY <1>1, AnswerInv, Zenon
<1>3. /\ owed' = owed + 1 /\ Queue(t, owed, NoSub)
      /\ UNCHANGED <<wpc, wmsg, replied, acked, lastFrame, asked>>
  BY Zenon DEF Answer, writerVars, subVars
<1>4. AskedInv'
  BY <1>1, <1>3, Zenon DEF AskedInv, Busy
<1>5. CASE Gone
  <2>1. wpc = "failed" /\ outgoing' = outgoing /\ asked' \in Subscription
    BY <1>1, <1>3, <1>5, NotDone, SeenTypes, Zenon DEF Queue
  <2> QED
    BY <1>1, <1>2, <1>3, <1>4, <2>1, UnheardKept, Zenon DEF SessionInv
<1>6. CASE ~Gone
  <2> DEFINE r == [type |-> t, re |-> owed, sub |-> NoSub]
  <2>1. r \in Reply /\ outgoing' = Append(outgoing, r)
    BY <1>1, <1>3, <1>6, SeenTypes, Zenon DEF Queue, Reply, NoSub, Subscription
  <2>2. r = C!ReplyTo(owed, t, NoSub)
    BY Zenon DEF C!ReplyTo
  <2> HIDE DEF r
  <2>3. Pending' = Append(Pending, r) /\ UNCHANGED <<Writing, Over>> /\ Over = "no"
    BY <1>1, <1>3, <1>6, <2>1, QueuePending, Zenon
  <2>4. ~C!Undecided
    BY <1>1, <1>6, UndecidedIsBusy, Zenon
  <2>5. C!AnswerRequest
    BY <1>3, <2>2, <2>3, <2>4, Zenon DEF C!AnswerRequest
  <2> QED
    BY <1>2, <1>4, <2>5, Zenon DEF SessionInv, Kept, C!Next
<1> QED
  BY <1>5, <1>6, Zenon

\* A reader step that neither takes nor answers a request.
LEMMA MoveStep ==
    ASSUME SessionInv, ~Leaving, ~Busy, ~Busy', rpc' \in ReaderStates,
           sender_open' \in BOOLEAN, ~sender_open' => Leaving',
           UNCHANGED <<busVars, svcVars, outgoing, writerVars, subVars, owed>>
    PROVE  SessionInv' /\ Kept
<1>1. Inv /\ AskedInv
  BY Zenon DEF SessionInv
<1>2. Inv'
  BY <1>1, MoveInv, Zenon
<1>3. UNCHANGED <<wpc, wmsg, outgoing, owed, replied, asked, acked, lastFrame>>
  BY Zenon DEF writerVars, subVars
<1>4. AskedInv'
  BY <1>1, <1>3, Zenon DEF AskedInv, Busy
<1> QED
  BY <1>2, <1>3, <1>4, StayKept, Zenon DEF SessionInv

\* A reader step that takes a request it will answer later.
LEMMA TakeStep ==
    ASSUME SessionInv, ~Leaving, ~Busy, Busy', Take, rpc' \in ReaderStates,
           UNCHANGED <<busVars, accepted, echoed, outgoing, writerVars, sender_open>>,
           \/ /\ Acknowledging' /\ subscribed_ifaces' = asked'.ifaces
              /\ asked' \in Subscription /\ UNCHANGED call
           \/ /\ ~Acknowledging' /\ UNCHANGED subVars
              /\ SvcTypeOK'
              /\ call'.st \in {"can_tx", "publish"} => call'.ev \in Sends
    PROVE  SessionInv' /\ Kept
<1>1. Inv /\ AskedInv
  BY Zenon DEF SessionInv
<1>2. Inv'
  BY <1>1, TakeInv, Zenon
<1>3. /\ owed' = owed + 1
      /\ UNCHANGED <<wpc, wmsg, outgoing, replied, acked, lastFrame>>
  BY Zenon DEF Take, writerVars
<1>4. AskedInv' /\ asked' \in Subscription
  BY <1>1, SeenTypes, Zenon DEF AskedInv, Busy, subVars
<1>5. CASE Gone
  BY <1>1, <1>2, <1>3, <1>4, <1>5, NotDone, UnheardKept, Zenon DEF SessionInv
<1>6. CASE ~Gone
  <2>1. UNCHANGED <<Pending, Writing, Over>> /\ Over = "no"
    BY <1>3, <1>6, OverFacts, Zenon DEF Pending, Writing, Over
  <2>2. ~C!Undecided
    BY <1>1, <1>6, UndecidedIsBusy, Zenon
  <2>3. C!TakeRequest
    BY <1>3, <1>4, <2>1, <2>2, Zenon DEF C!TakeRequest
  <2> QED
    BY <1>2, <1>4, <2>3, Zenon DEF SessionInv, Kept, C!Next
<1> QED
  BY <1>5, <1>6, Zenon

\* The reader queues the reply it owes.
LEMMA OwedReplyStep ==
    ASSUME SessionInv, ~Leaving, Busy, ~Busy', rpc' \in ReaderStates,
           \/ Acknowledging /\ \E t \in AckTypes : QueueAck(t)
           \/ ReplyHandled
    PROVE  SessionInv' /\ Kept
<1>1. Inv /\ AskedInv
  BY Zenon DEF SessionInv
<1>2. Inv'
  BY <1>1, OwedReplyInv, Zenon
<1>3. UNCHANGED <<wpc, wmsg, owed, replied, acked, lastFrame>>
  BY Zenon DEF QueueAck, ReplyHandled, writerVars
<1>4. asked \in Subscription /\ NoSub \in Subscription /\ owed \in Nat /\ owed - 1 \in Nat
  BY <1>1, ReaderFacts, Zenon DEF Inv
<1>5. asked' = NoSub
  <2>1. CASE \E t \in AckTypes : QueueAck(t)
    BY <2>1, Zenon DEF QueueAck
  <2>2. CASE ReplyHandled
    BY <1>1, <2>2, Zenon DEF ReplyHandled, AskedInv, Acknowledging, subVars
  <2> QED
    BY <2>1, <2>2, Zenon
<1>6. AskedInv'
  BY <1>5, Zenon DEF AskedInv
<1>7. CASE Gone
  <2>1. outgoing' = outgoing
    BY <1>7, Zenon DEF QueueAck, ReplyHandled, Queue
  <2> QED
    BY <1>1, <1>2, <1>3, <1>4, <1>5, <1>6, <1>7, <2>1, NotDone, UnheardKept, SMTT(30) DEF SessionInv
<1>8. CASE ~Gone
  <2>1. C!Undecided
    BY <1>1, <1>8, UndecidedIsBusy, Zenon
  <2>2. CASE \E t \in AckTypes : QueueAck(t)
    <3>1. PICK t \in AckTypes : QueueAck(t)
      BY <2>2, Zenon
    <3> DEFINE r == [type |-> t, re |-> owed - 1, sub |-> asked]
    <3>2. r \in Reply /\ outgoing' = Append(outgoing, r)
      BY <1>4, <1>8, <3>1, Zenon DEF QueueAck, Queue, Reply, ReplyTypes
    <3>3. r = C!ReplyTo(owed - 1, t, asked)
      BY Zenon DEF C!ReplyTo
    <3> HIDE DEF r
    <3>4. Pending' = Append(Pending, r) /\ UNCHANGED <<Writing, Over>> /\ Over = "no"
      BY <1>1, <1>3, <1>8, <3>2, QueuePending, Zenon
    <3>5. C!Decide
      BY <1>3, <1>5, <2>1, <3>3, <3>4, Zenon DEF C!Decide
    <3> QED
      BY <1>2, <1>6, <3>5, Zenon DEF SessionInv, Kept, C!Next
  <2>3. CASE ReplyHandled
    <3> DEFINE r == [type |-> call.resp, re |-> owed - 1, sub |-> NoSub]
    <3>1. call.resp \in ReplyTypes \ AckTypes
      BY <1>1, ReaderFacts, Zenon DEF Inv, ReplyTypes, AckTypes, Responses
    <3>2. r \in Reply /\ outgoing' = Append(outgoing, r)
      BY <1>4, <1>8, <2>3, <3>1, Zenon DEF ReplyHandled, Queue, Reply
    <3>3. r = C!ReplyTo(owed - 1, call.resp, NoSub)
      BY Zenon DEF C!ReplyTo
    <3> HIDE DEF r
    <3>4. Pending' = Append(Pending, r) /\ UNCHANGED <<Writing, Over>> /\ Over = "no"
      BY <1>1, <1>3, <1>8, <3>2, QueuePending, Zenon
    <3>5. C!Decide
      BY <1>3, <1>5, <2>1, <3>1, <3>3, <3>4, Zenon DEF C!Decide
    <3> QED
      BY <1>2, <1>6, <3>5, Zenon DEF SessionInv, Kept, C!Next
  <2> QED
    BY <2>2, <2>3, Zenon
<1> QED
  BY <1>7, <1>8, Zenon
-----------------------------------------------------------------------------
(* The session.                                                            *)

\* The steps all transports share.
LEMMA SharedStep ==
    ASSUME SessionInv,
           \/ RecvReply \/ RecvClosed \/ RecvFrame \/ RecvLagged
           \/ CheckIface("write") \/ CheckIface("check_filters")
           \/ Write \/ WriteFail
           \/ PublishOther \/ HandleStep \/ Joined
    PROVE  SessionInv' /\ Kept
<1>1. Inv /\ AskedInv
  BY Zenon DEF SessionInv
<1>2. Inv'
  BY <1>1, SharedInv, Zenon
<1>3. UNCHANGED asked /\ (Acknowledging' <=> Acknowledging)
  BY Zenon DEF RecvReply, RecvClosed, RecvFrame, RecvLagged, CheckIface, Write, WriteFail, PublishOther,
     HandleStep, Joined, readerVars, subVars, Acknowledging
<1>4. AskedInv'
  BY <1>1, <1>3, Zenon DEF AskedInv
<1>5. Kept
  <2>1. CASE CheckIface("write") \/ CheckIface("check_filters")
    BY <1>1, <1>2, <2>1, CheckedKept, Zenon DEF CheckIface, readerVars, subVars
  <2>2. CASE PublishOther \/ HandleStep \/ Joined
    BY <2>2, StayKept, Zenon DEF PublishOther, HandleStep, Joined, readerVars, subVars, writerVars
  <2> QED
    BY <1>1, <2>1, <2>2, RecvReplyKept, RecvClosedKept, RecvFrameKept, WriteKept, WriteFailKept, SMTT(30)
<1> QED
  BY <1>2, <1>4, <1>5, Zenon DEF SessionInv

\* A step that changes nothing.
LEMMA StutterStep ==
    ASSUME SessionInv, UNCHANGED sessionVars
    PROVE  SessionInv' /\ Kept
<1>1. Inv'
  BY StutterInv, Zenon DEF SessionInv
<1>2. UNCHANGED <<wpc, wmsg, outgoing, owed, replied, asked, acked, lastFrame, rpc>>
  BY Zenon DEF sessionVars, readerVars, subVars, writerVars
<1>3. AskedInv'
  BY <1>2, Zenon DEF SessionInv, AskedInv, Acknowledging
<1> QED
  BY <1>1, <1>2, <1>3, StayKept, Zenon DEF SessionInv

\* A session starts as the contract says.
LEMMA InitStep == SessionInit => SessionInv /\ C!Init
<1> SUFFICES ASSUME SessionInit PROVE SessionInv /\ C!Init
  BY Zenon
<1>1. Inv
  BY InitInv, Zenon
<1>2. AskedInv
  BY Zenon DEF SessionInit, AskedInv
<1>3. C!Init
  BY Zenon DEF SessionInit, C!Init, Pending, Writing, Over
<1> QED
  BY <1>1, <1>2, <1>3, Zenon DEF SessionInv

\* The properties of Session that the runs check.
LEMMA SessionImplies ==
    ASSUME SessionInv
    PROVE  /\ TypeOK /\ FramesAreSubscribed /\ ViewsAgree
           /\ FramesInOrder /\ RepliesInOrder /\ NothingOwed
  BY InvImplies, Zenon DEF SessionInv
=============================================================================
