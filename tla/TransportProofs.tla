-------------------------- MODULE TransportProofs --------------------------
(***************************************************************************)
(* The two binary sessions keep the invariant of SessionProofs, and the    *)
(* contract, while they decode and dispatch, and their receive buffer      *)
(* holds packets only.                                                     *)
(*                                                                         *)
(* The WebSocket text session keeps the invariant although a subscription  *)
(* and its check take two locks each.  Outside a change, the filters in    *)
(* force are those the client knows of, and every frame written matches    *)
(* them.                                                                   *)
(***************************************************************************)
EXTENDS TcpBinary, WsBinary, WsJsonl, SessionProofs

BufferType ==
    /\ receive_buffer \in Seq(Packets)
    /\ partial \in BOOLEAN

BinaryInv == SessionInv /\ BufferType

\* What one read completes is a sequence of packets.
LEMMA ChunkType ==
    ASSUME NEW chunk \in Chunks
    PROVE  chunk \in Seq(Packets)
<1>1. PICK k \in 0..MaxChunk : chunk \in [1..k -> Packets]
  BY Zenon DEF Chunks
<1>2. k \in Nat
  BY <1>1, MaxChunkAssumption
<1> QED
  BY <1>1, <1>2

\* Dispatching a decoded request is a reader step of one of the four shapes.
LEMMA DispatchInv == BinaryInv /\ Dispatch => BinaryInv' /\ Kept
<1> SUFFICES ASSUME BinaryInv, Dispatch PROVE BinaryInv' /\ Kept
  BY Zenon
<1>a. SessionInv /\ receive_buffer \in Seq(Packets) /\ partial \in BOOLEAN
  BY Zenon DEF BinaryInv, BufferType
<1>b. sender_open \in BOOLEAN /\ (~sender_open => Leaving)
  BY <1>a, Zenon DEF SessionInv, Inv, TypeInv, TypeOK, ReplyInv
<1>c. BufferType'
  <2>1. CASE UNCHANGED bufferVars
    BY <2>1, <1>a, Zenon DEF BufferType, bufferVars
  <2>2. CASE receive_buffer # <<>> /\ receive_buffer' = Tail(receive_buffer) /\ UNCHANGED partial
    BY <2>2, <1>a DEF BufferType
  <2> QED
    BY <2>1, <2>2, Zenon DEF Dispatch, DecodeError, AnswerNow, CallService, Subscribe, Unsubscribe,
       decode_client_from, AckSubscribe, AckUnsubscribe, SendResponse
<1> SUFFICES SessionInv' /\ Kept
  BY <1>c, Zenon DEF BinaryInv
<1>1. CASE DecodeError
  BY <1>1, <1>a, MoveStep, Zenon DEF DecodeError, decode_client_from, Return,
     ReaderStates, Busy, Acknowledging, Leaving
<1>2. ASSUME NEW req \in BinaryRequests, AnswerNow(req) PROVE SessionInv' /\ Kept
  <2>1. PICK t \in {"Pong", "Error"} : Answer(t)
    BY <1>2, Zenon DEF AnswerNow
  <2>2. t \in ReplyTypes \ AckTypes
    BY Zenon DEF ReplyTypes, AckTypes, Responses
  <2> QED
    BY <1>2, <2>1, <2>2, <1>a, <1>b, AnswerStep DEF AnswerNow, decode_client_from,
       ReaderStates, Busy, Acknowledging, Leaving
<1>3. ASSUME NEW req \in BinaryRequests, CallService(req) PROVE SessionInv' /\ Kept
  <2>1. req \in Requests
    BY Zenon DEF BinaryRequests
  <2>2. SvcTypeOK' /\ (call'.st \in {"can_tx", "publish"} => call'.ev \in Sends)
    BY <1>3, <1>a, <2>1, HandleType, SMTT(30) DEF CallService, SessionInv, Inv
  <2> QED
    BY <1>3, <1>a, <2>2, TakeStep, Zenon DEF CallService, decode_client_from,
       ReaderStates, Busy, Acknowledging, Leaving
<1>4. ASSUME NEW req \in BinaryRequests, Subscribe(req) \/ Unsubscribe(req) PROVE SessionInv' /\ Kept
  <2>1. req.kind = "Subscribe" => req.ifaces \in SUBSET Ifaces /\ req.classes \in SUBSET Classes
    BY Zenon DEF BinaryRequests, Requests
  <2>2. asked' \in Subscription /\ subscribed_ifaces' = asked'.ifaces
    BY <1>4, <2>1 DEF Subscribe, Unsubscribe, Subscription, NoSub
  <2> QED
    BY <1>4, <1>a, <2>2, TakeStep, SMTT(30) DEF Subscribe, Unsubscribe, decode_client_from, svcVars,
       ReaderStates, Busy, Acknowledging, Leaving
<1>5. CASE AckSubscribe \/ AckUnsubscribe
  BY <1>5, <1>a, OwedReplyStep, SMTT(30) DEF AckSubscribe, AckUnsubscribe, AckTypes,
     ReaderStates, Busy, Acknowledging, Leaving
<1>6. CASE SendResponse
  BY <1>6, <1>a, OwedReplyStep, Zenon DEF SendResponse, ReplyHandled,
     ReaderStates, Busy, Acknowledging, Leaving
<1>7. CASE HandleStep
  BY <1>7, <1>a, SharedStep, Zenon
<1> QED
  BY <1>1, <1>2, <1>3, <1>4, <1>5, <1>6, <1>7, SMTT(30) DEF Dispatch

\* So is the end of the decode loop; the writer, the end of the session and
\* other publishers do not touch the buffer.
LEMMA OtherBinaryInv ==
    ASSUME BinaryInv,
           Decoded \/ writer_task \/ ((Joined \/ PublishOther) /\ UNCHANGED bufferVars)
    PROVE  BinaryInv' /\ Kept
<1>a. SessionInv /\ BufferType
  BY Zenon DEF BinaryInv
<1>b. BufferType'
  BY <1>a, Zenon DEF Decoded, writer_task, BufferType, bufferVars
<1>1. CASE Decoded
  <2>1. sender_open \in BOOLEAN /\ (~sender_open => Leaving)
    BY <1>a, Zenon DEF SessionInv, Inv, TypeInv, TypeOK, ReplyInv
  <2>2. SessionInv' /\ Kept
    BY <1>1, <1>a, <2>1, MoveStep, SMTT(30) DEF Decoded, ReaderStates, Busy, Acknowledging, Leaving
  <2> QED
    BY <1>b, <2>2, SMTT(30) DEF BinaryInv
<1>2. CASE writer_task \/ Joined \/ PublishOther
  <2>1. SessionInv' /\ Kept
    BY <1>2, <1>a, SharedStep, Zenon DEF writer_task
  <2> QED
    BY <1>b, <2>1, SMTT(30) DEF BinaryInv
<1> QED
  BY <1>1, <1>2, Zenon

\* It implies the properties of a session that the runs check.
LEMMA BinaryInvImplies ==
    ASSUME BinaryInv
    PROVE  /\ TypeOKBuffer /\ FramesAreSubscribed /\ ViewsAgree
           /\ FramesInOrder /\ RepliesInOrder /\ NothingOwed
  BY SessionImplies, Zenon DEF BinaryInv, BufferType, TypeOKBuffer
-----------------------------------------------------------------------------
(* The TCP binary session never waits for bytes with a request in its      *)
(* buffer, whatever the reads bring.                                       *)

\* The buffer is drained before each read, and untouched before the first
\* packet.
DrainedInv == rpc \in {"start", "handshake", "read"} => receive_buffer = <<>>

TcpBinaryInv == BinaryInv /\ DrainedInv

\* What a read brings.
LEMMA ReadInv ==
    ASSUME TcpBinaryInv, NEW chunk \in Chunks, NEW rest \in BOOLEAN,
           TcpHandshakePacket(chunk, rest) \/ Read(chunk, rest)
    PROVE  TcpBinaryInv' /\ Kept
<1>a. SessionInv /\ receive_buffer \in Seq(Packets) /\ chunk \in Seq(Packets)
  BY ChunkType, Zenon DEF TcpBinaryInv, BinaryInv, BufferType
<1>b. sender_open \in BOOLEAN /\ (~sender_open => Leaving)
  BY <1>a, Zenon DEF SessionInv, Inv, TypeInv, TypeOK, ReplyInv
<1>c. BufferType' /\ DrainedInv'
  <2>1. CASE TcpHandshakePacket(chunk, rest)
    BY <2>1, <1>a DEF TcpHandshakePacket, BufferType, DrainedInv, Return, DropSender
  <2>2. CASE Read(chunk, rest)
    BY <2>2, <1>a DEF Read, BufferType, DrainedInv
  <2> QED
    BY <2>1, <2>2, SMTT(30)
<1>d. SessionInv' /\ Kept
  <2> USE DEF ReaderStates, Busy, Acknowledging, Leaving
  <2>1. CASE Read(chunk, rest)
    BY <2>1, <1>a, <1>b, MoveStep, SMTT(30) DEF Read
  <2>2. CASE TcpHandshakePacket(chunk, rest) /\ UNCHANGED <<outgoing, owed>>
    BY <2>2, <1>a, <1>b, MoveStep, Zenon DEF TcpHandshakePacket, Return, DropSender
  <2>3. CASE TcpHandshakePacket(chunk, rest) /\ Answer("Error") /\ DropSender
    BY <2>3, <1>a, AnswerStep, Zenon DEF TcpHandshakePacket, DropSender, ReplyTypes, AckTypes, Responses
  <2> QED
    BY <2>1, <2>2, <2>3, Zenon DEF TcpHandshakePacket
<1> QED
  BY <1>c, <1>d, Zenon DEF TcpBinaryInv, BinaryInv

\* Every other step.
LEMMA TcpStepInv == TcpBinaryInv /\ TcpNext => TcpBinaryInv' /\ Kept
<1> SUFFICES ASSUME TcpBinaryInv, TcpNext PROVE TcpBinaryInv' /\ Kept
  BY Zenon
<1>a. SessionInv /\ BinaryInv /\ BufferType /\ DrainedInv
  BY Zenon DEF TcpBinaryInv, BinaryInv
<1>b. sender_open \in BOOLEAN /\ (~sender_open => Leaving)
  BY <1>a, Zenon DEF SessionInv, Inv, TypeInv, TypeOK, ReplyInv
<1>1. ASSUME NEW chunk \in Chunks, NEW rest \in BOOLEAN,
             TcpHandshakePacket(chunk, rest) \/ Read(chunk, rest)
      PROVE  TcpBinaryInv' /\ Kept
  BY <1>1, ReadInv, Zenon
<1>2. CASE TcpHandshakePartial
  <2>1. SessionInv' /\ Kept
    BY <1>2, <1>a, StutterStep, Zenon DEF TcpHandshakePartial
  <2>2. BufferType' /\ DrainedInv'
    BY <1>2, <1>a, SMTT(30) DEF TcpHandshakePartial, BufferType, DrainedInv, sessionVars, readerVars
  <2> QED
    BY <2>1, <2>2, Zenon DEF TcpBinaryInv, BinaryInv
<1>3. CASE SendHelloAck
  <2>1. SessionInv' /\ Kept
    BY <1>3, <1>a, <1>b, AnswerStep, Zenon DEF SendHelloAck, Return, ReplyTypes, AckTypes, Responses,
       ReaderStates, Busy, Acknowledging, Leaving
  <2>2. BufferType' /\ DrainedInv'
    BY <1>3, <1>a, Zenon DEF SendHelloAck, BufferType, DrainedInv, bufferVars
  <2> QED
    BY <2>1, <2>2, Zenon DEF TcpBinaryInv, BinaryInv
<1>4. CASE TcpHandshakeFails \/ ReadEof \/ ReadError
  <2>1. SessionInv' /\ Kept
    BY <1>4, <1>a, MoveStep, Zenon DEF TcpHandshakeFails, ReadEof, ReadError, Return, DropSender,
       ReaderStates, Busy, Acknowledging, Leaving
  <2>2. BufferType' /\ DrainedInv'
    BY <1>4, <1>a, Zenon DEF TcpHandshakeFails, ReadEof, ReadError, Return, DropSender,
       BufferType, DrainedInv, bufferVars
  <2> QED
    BY <2>1, <2>2, Zenon DEF TcpBinaryInv, BinaryInv
<1>5. CASE Dispatch
  <2>1. DrainedInv'
    <3>1. CASE HandleStep /\ UNCHANGED bufferVars
      BY <3>1, <1>a, Zenon DEF DrainedInv, HandleStep, readerVars, bufferVars
    <3>2. CASE ~HandleStep
      <4>1. rpc' \notin {"start", "handshake", "read"}
        BY <1>5, <3>2, Zenon DEF Dispatch, DecodeError, AnswerNow, CallService, Subscribe, Unsubscribe,
           decode_client_from, AckSubscribe, AckUnsubscribe, SendResponse, Return
      <4> QED
        BY <4>1, Zenon DEF DrainedInv
    <3>3. HandleStep /\ rpc' \in {"start", "handshake", "read"} => UNCHANGED bufferVars
      BY <1>5, Zenon DEF Dispatch, DecodeError, AnswerNow, CallService, Subscribe, Unsubscribe,
         decode_client_from, AckSubscribe, AckUnsubscribe, SendResponse, Return
    <3> QED
      BY <3>1, <3>2, <3>3, Zenon DEF DrainedInv
  <2> QED
    BY <1>5, <1>a, <2>1, DispatchInv, Zenon DEF TcpBinaryInv
<1>6. CASE Decoded \/ writer_task \/ ((Joined \/ PublishOther) /\ UNCHANGED bufferVars)
  <2>1. BinaryInv' /\ Kept
    BY <1>6, <1>a, OtherBinaryInv, SMTT(30)
  <2>2. DrainedInv'
    BY <1>6, <1>a DEF DrainedInv, Decoded, writer_task, Joined, PublishOther, bufferVars, readerVars,
       RecvReply, RecvClosed, RecvFrame, RecvLagged, CheckIface, Write, WriteFail
  <2> QED
    BY <2>1, <2>2, Zenon DEF TcpBinaryInv
<1> QED
  BY <1>1, <1>2, <1>3, <1>4, <1>5, <1>6 DEF TcpNext, TcpClientStep, TcpReaderStep

\* A step that changes nothing.
LEMMA TcpQuietInv ==
    ASSUME TcpBinaryInv, UNCHANGED vars
    PROVE  TcpBinaryInv' /\ Kept
<1>1. SessionInv' /\ Kept
  BY StutterStep, Zenon DEF vars, TcpBinaryInv, BinaryInv
<1>2. BufferType' /\ DrainedInv'
  BY Zenon DEF vars, sessionVars, readerVars, bufferVars, TcpBinaryInv, BinaryInv, BufferType, DrainedInv
<1> QED
  BY <1>1, <1>2, Zenon DEF TcpBinaryInv, BinaryInv

\* The invariant of the TCP binary session.
THEOREM TcpBinaryInvariant == TcpSpec => []TcpBinaryInv
<1>1. Init => TcpBinaryInv
  <2> SUFFICES ASSUME Init PROVE TcpBinaryInv
    BY Zenon
  <2>1. SessionInv
    BY InitStep, Zenon DEF Init
  <2>2. <<>> \in Seq(Packets)
    OBVIOUS
  <2>3. BufferType /\ DrainedInv
    BY <2>2, Zenon DEF Init, BufferInit, BufferType, DrainedInv
  <2> QED
    BY <2>1, <2>3, Zenon DEF TcpBinaryInv, BinaryInv
<1>2. TcpBinaryInv /\ [TcpNext]_vars => TcpBinaryInv'
  BY TcpStepInv, TcpQuietInv, Zenon
<1> QED
  BY <1>1, <1>2, PTL DEF TcpSpec

\* The TCP binary session implements the contract, however the packets of the
\* client are spread over its reads.
THEOREM TcpBinaryKeepsContract == TcpSpec => KeepsContract
<1>1. Init => C!Init
  BY InitStep, Zenon DEF Init
<1>2. TcpBinaryInv /\ [TcpNext]_vars => [C!Next]_(C!vars)
  BY TcpStepInv, TcpQuietInv, Zenon DEF Kept
<1> QED
  BY <1>1, <1>2, TcpBinaryInvariant, PTL DEF TcpSpec, KeepsContract, C!Spec

\* Every variable of the session, its buffer included, keeps its type.
THEOREM TcpBinaryTypeCorrect == TcpSpec => []TypeOKBuffer
<1>1. TcpBinaryInv => TypeOKBuffer
  BY BinaryInvImplies, Zenon DEF TcpBinaryInv
<1> QED
  BY <1>1, TcpBinaryInvariant, PTL

\* A frame is written only for an interface the client has been, or is about
\* to be, told it is subscribed to.
THEOREM TcpBinaryFramesAreSubscribed == TcpSpec => []FramesAreSubscribed
<1>1. TcpBinaryInv => FramesAreSubscribed
  BY BinaryInvImplies, Zenon DEF TcpBinaryInv
<1> QED
  BY <1>1, TcpBinaryInvariant, PTL

\* With no acknowledgement on its way, daemon and client agree on the
\* interfaces subscribed.
THEOREM TcpBinaryViewsAgree == TcpSpec => []ViewsAgree
<1>1. TcpBinaryInv => ViewsAgree
  BY BinaryInvImplies, Zenon DEF TcpBinaryInv
<1> QED
  BY <1>1, TcpBinaryInvariant, PTL

\* Replies are written one per request, in the order of the packets.
THEOREM TcpBinaryRepliesInOrder == TcpSpec => []RepliesInOrder
<1>1. TcpBinaryInv => RepliesInOrder
  BY BinaryInvImplies, Zenon DEF TcpBinaryInv
<1> QED
  BY <1>1, TcpBinaryInvariant, PTL

\* A writer task that ends without a write error has written every reply,
\* those to packets before a malformed one included.
THEOREM TcpBinaryNothingOwed == TcpSpec => []NothingOwed
<1>1. TcpBinaryInv => NothingOwed
  BY BinaryInvImplies, Zenon DEF TcpBinaryInv
<1> QED
  BY <1>1, TcpBinaryInvariant, PTL

\* The session never waits for bytes while a complete request is buffered.
THEOREM TcpBinaryNoStrandedRequest == TcpSpec => []NoStrandedRequest
<1>1. TcpBinaryInv => NoStrandedRequest
  BY Zenon DEF TcpBinaryInv, DrainedInv, NoStrandedRequest
<1> QED
  BY <1>1, TcpBinaryInvariant, PTL
-----------------------------------------------------------------------------
(* The WebSocket binary session, whatever the messages bring.              *)

\* A binary message, in the handshake and after it.
LEMMA MessageInv ==
    ASSUME BinaryInv, NEW chunk \in Chunks, NEW rest \in BOOLEAN,
           WsHandshakePacket(chunk, rest) \/ RecvBinary(chunk, rest)
    PROVE  BinaryInv' /\ Kept
<1>a. SessionInv /\ receive_buffer \in Seq(Packets) /\ chunk \in Seq(Packets)
  BY ChunkType, Zenon DEF BinaryInv, BufferType
<1>b. sender_open \in BOOLEAN /\ (~sender_open => Leaving)
  BY <1>a, Zenon DEF SessionInv, Inv, TypeInv, TypeOK, ReplyInv
<1>c. BufferType'
  <2>1. CASE WsHandshakePacket(chunk, rest)
    BY <2>1, <1>a DEF WsHandshakePacket, BufferType
  <2>2. CASE RecvBinary(chunk, rest)
    BY <2>2, <1>a DEF RecvBinary, BufferType
  <2> QED
    BY <2>1, <2>2, Zenon
<1>d. SessionInv' /\ Kept
  <2> USE DEF ReaderStates, Busy, Acknowledging, Leaving
  <2>1. CASE RecvBinary(chunk, rest)
    BY <2>1, <1>a, <1>b, MoveStep, SMTT(30) DEF RecvBinary
  <2>2. CASE WsHandshakePacket(chunk, rest) /\ Return /\ UNCHANGED <<outgoing, owed>>
    BY <2>2, <1>a, MoveStep, Zenon DEF WsHandshakePacket, Return
  <2>3. CASE WsHandshakePacket(chunk, rest) /\ Answer("Error") /\ DropSender
    BY <2>3, <1>a, AnswerStep, Zenon DEF WsHandshakePacket, DropSender, ReplyTypes, AckTypes, Responses
  <2>4. CASE /\ WsHandshakePacket(chunk, rest) /\ Answer("HelloAck")
             /\ IF Gone THEN Return ELSE rpc' = "read" /\ UNCHANGED sender_open
    BY <2>4, <1>a, <1>b, AnswerStep, Zenon DEF WsHandshakePacket, Return, ReplyTypes, AckTypes, Responses
  <2> QED
    BY <2>1, <2>2, <2>3, <2>4, SMTT(30) DEF WsHandshakePacket
<1> QED
  BY <1>c, <1>d, Zenon DEF BinaryInv

\* The steps of this transport that leave the buffer alone.
LEMMA WsQuietInv ==
    ASSUME BinaryInv, Start \/ WsHandshakeFails \/ WsHandshakePartial \/ RecvText \/ RecvClose
    PROVE  BinaryInv' /\ Kept
<1>a. SessionInv /\ BufferType
  BY Zenon DEF BinaryInv
<1>b. sender_open \in BOOLEAN /\ (~sender_open => Leaving)
  BY <1>a, Zenon DEF SessionInv, Inv, TypeInv, TypeOK, ReplyInv
<1>c. BufferType'
  BY <1>a, Zenon DEF Start, WsHandshakeFails, WsHandshakePartial, RecvText, RecvClose, BufferType, bufferVars
<1>1. CASE Start \/ WsHandshakeFails \/ RecvClose
  <2>1. SessionInv' /\ Kept
    BY <1>1, <1>a, <1>b, MoveStep, Zenon DEF Start, WsHandshakeFails, RecvClose, Return, DropSender,
       ReaderStates, Busy, Acknowledging, Leaving
  <2> QED
    BY <1>c, <2>1, Zenon DEF BinaryInv
<1>2. CASE RecvText
  <2>1. SessionInv' /\ Kept
    BY <1>2, <1>a, <1>b, AnswerStep DEF RecvText, ReplyTypes, AckTypes, Responses,
       ReaderStates, Busy, Acknowledging, Leaving
  <2> QED
    BY <1>c, <2>1, Zenon DEF BinaryInv
<1>3. CASE WsHandshakePartial
  <2>1. SessionInv' /\ Kept
    BY <1>3, <1>a, StutterStep, Zenon DEF WsHandshakePartial
  <2> QED
    BY <1>c, <2>1, Zenon DEF BinaryInv
<1> QED
  BY <1>1, <1>2, <1>3, Zenon

\* Every step keeps the invariant, and is one of the contract or one it does
\* not see.
LEMMA WsStepInv == BinaryInv /\ [WsNext]_vars => BinaryInv' /\ Kept
<1> SUFFICES ASSUME BinaryInv, [WsNext]_vars PROVE BinaryInv' /\ Kept
  BY Zenon
<1>1. ASSUME NEW chunk \in Chunks, NEW rest \in BOOLEAN,
             WsHandshakePacket(chunk, rest) \/ RecvBinary(chunk, rest)
      PROVE  BinaryInv' /\ Kept
  BY <1>1, MessageInv, Zenon
<1>2. CASE Start \/ WsHandshakeFails \/ WsHandshakePartial \/ RecvText \/ RecvClose
  BY <1>2, WsQuietInv, Zenon
<1>3. CASE dispatch
  BY <1>3, DispatchInv, Zenon DEF dispatch
<1>4. CASE Decoded \/ ws_writer_task \/ ((Joined \/ PublishOther) /\ UNCHANGED bufferVars)
  BY <1>4, OtherBinaryInv, Zenon DEF ws_writer_task
<1>5. CASE UNCHANGED vars
  <2>1. SessionInv' /\ Kept /\ BufferType'
    BY <1>5, StutterStep, Zenon DEF vars, bufferVars, BinaryInv, BufferType
  <2> QED
    BY <2>1, Zenon DEF BinaryInv
<1> QED
  BY <1>1, <1>2, <1>3, <1>4, <1>5, SMTT(30) DEF WsNext, WsClientStep, WsReaderStep

\* The invariant of the WebSocket binary session.
THEOREM WsBinaryInvariant == WsSpec => []BinaryInv
<1>1. Init => BinaryInv
  <2> SUFFICES ASSUME Init PROVE BinaryInv
    BY Zenon
  <2>1. SessionInv
    BY InitStep, Zenon DEF Init
  <2>2. <<>> \in Seq(Packets)
    OBVIOUS
  <2> QED
    BY <2>1, <2>2, Zenon DEF Init, BufferInit, BufferType, BinaryInv
<1> QED
  BY <1>1, WsStepInv, PTL DEF WsSpec

\* The WebSocket binary session implements the contract for the requests it
\* handles, in whichever order packets and Text messages come.
THEOREM WsBinaryKeepsContract == WsSpec => KeepsContract
<1>1. Init => C!Init
  BY InitStep, Zenon DEF Init
<1>2. BinaryInv /\ [WsNext]_vars => [C!Next]_(C!vars)
  BY WsStepInv, Zenon DEF Kept
<1> QED
  BY <1>1, <1>2, WsBinaryInvariant, PTL DEF WsSpec, KeepsContract, C!Spec

\* Every variable of the session, its buffer included, keeps its type.
THEOREM WsBinaryTypeCorrect == WsSpec => []TypeOKBuffer
  BY WsBinaryInvariant, BinaryInvImplies, PTL

\* A frame is written only for an interface the client has been, or is about
\* to be, told it is subscribed to.
THEOREM WsBinaryFramesAreSubscribed == WsSpec => []FramesAreSubscribed
  BY WsBinaryInvariant, BinaryInvImplies, PTL

\* With no acknowledgement on its way, daemon and client agree on the
\* interfaces subscribed.
THEOREM WsBinaryViewsAgree == WsSpec => []ViewsAgree
  BY WsBinaryInvariant, BinaryInvImplies, PTL

\* Replies are written one per request, in the order of the packets, with
\* the rejections of Text in their place.
THEOREM WsBinaryRepliesInOrder == WsSpec => []RepliesInOrder
  BY WsBinaryInvariant, BinaryInvImplies, PTL

\* A writer task that ends without a write error has written every reply.
THEOREM WsBinaryNothingOwed == WsSpec => []NothingOwed
  BY WsBinaryInvariant, BinaryInvImplies, PTL
-----------------------------------------------------------------------------
\* The reader has replaced the filters and not queued the acknowledgement.
FiltersChanged == rpc \in {"subscribed", "unsubscribed"}

\* The filters in force are those of the subscription in the reader's hands
\* once it has replaced them, and those of the newest one until then.
FilterInv ==
    /\ frame_filters \in SUBSET Classes
    /\ rpc \in {"clear_filters", "unsubscribed"} => asked = NoSub
    /\ FiltersChanged => frame_filters = asked.classes
    /\ ~Gone /\ ~FiltersChanged => \E s \in Subscription : Newest(s) /\ frame_filters = s.classes

\* A frame that passed the two checks matches what the client knows of,
\* unless an acknowledgement is on its way: the writer cannot deliver one
\* while it holds the frame.
ConformInv ==
    (HoldsFrame /\ ~Acknowledging /\ NoAckQueued) =>
        /\ wpc \in {"check_filters", "write"} => wmsg.iface \in acked.ifaces
        /\ wpc = "write" => wmsg.cls \in acked.classes

WsInv == SessionInv /\ FilterInv /\ ConformInv
-----------------------------------------------------------------------------
(* The steps only this transport has keep the invariant of a session.      *)

\* The writer's look at the filters.
LEMMA CheckFiltersType == Inv /\ CheckFilters => Inv'
<1> SUFFICES ASSUME Inv, CheckFilters PROVE Inv'
  BY Zenon
<1>1. /\ wpc = "check_filters" /\ wmsg \in Frame /\ wpc' \in {"write", "select"}
      /\ wpc' = "write" => wmsg' = wmsg
      /\ wpc' = "select" => wmsg' = NoMsg
      /\ UNCHANGED <<busVars, svcVars, outgoing, readerVars, replied, sendAcks, acked, lastFrame>>
  BY Zenon DEF CheckFilters, Inv, TypeInv
<1>2. UNCHANGED <<unread, published, sender_open, subscribed_ifaces, asked, rpc, owed>>
  BY <1>1, Zenon DEF busVars, readerVars, subVars
<1>3. TypeInv'
  BY <1>1 DEF Inv, TypeInv, TypeOK, busVars, svcVars, readerVars, subVars, BusTypeOK, SvcTypeOK,
     WriterStates, Busy, Acknowledging
<1>4. HoldsFrame' => HoldsFrame /\ wmsg' = wmsg
  BY <1>1, Zenon DEF HoldsFrame, IsFrame, NoMsg, Frame
<1>5. OrderInv'
  BY <1>1, <1>2, <1>4, Zenon DEF Inv, OrderInv
<1>6. /\ ~HoldsReply /\ ~HoldsReply' /\ ~HoldsAck /\ ~HoldsAck' /\ ~Gone /\ ~Gone'
      /\ (Acknowledging' <=> Acknowledging)
  BY <1>1, <1>2, Zenon DEF HoldsReply, HoldsAck, Gone, IsReply, IsAck, Frame, ReplyTypes, AckTypes,
     Responses, Acknowledging
<1>7. ReplyInv'
  BY <1>1, <1>2, <1>6, Zenon DEF Inv, ReplyInv, InHand, BusyN, Busy, Leaving
<1>8. \A s : Newest(s) => Newest(s)'
  BY <1>1, <1>6, KeepNewest, Zenon
<1>9. ViewInv'
  BY <1>2, <1>6, <1>8, Zenon DEF Inv, ViewInv
<1>10. FrameInv'
  BY <1>1, <1>2, <1>6, Zenon DEF Inv, FrameInv, IsFrame
<1> QED
  BY <1>3, <1>5, <1>7, <1>9, <1>10, Zenon DEF Inv

\* The reader's second lock.
LEMMA ChangeFiltersType == Inv /\ (SubscribeFilters \/ UnsubscribeFilters) => Inv'
<1> SUFFICES ASSUME Inv, SubscribeFilters \/ UnsubscribeFilters PROVE Inv'
  BY Zenon
<1>1. /\ Acknowledging /\ Acknowledging' /\ Busy /\ Busy' /\ ~Leaving /\ rpc' \in ReaderStates
      /\ UNCHANGED <<busVars, svcVars, outgoing, writerVars, sender_open, subVars, owed>>
  BY Zenon DEF SubscribeFilters, UnsubscribeFilters, Acknowledging, Busy, Leaving, ReaderStates
<1>2. UNCHANGED <<wpc, wmsg, replied, acked, lastFrame, subscribed_ifaces, asked>>
  BY <1>1, Zenon DEF writerVars, subVars
<1>3. TypeInv'
  BY <1>1 DEF Inv, TypeInv, TypeOK, busVars, svcVars, writerVars, subVars, BusTypeOK, SvcTypeOK
<1>4. OrderInv'
  BY <1>1, <1>2, Zenon DEF Inv, OrderInv, HoldsFrame, busVars
<1>5. ReplyInv'
  <2>1. (Gone' <=> Gone) /\ InHand' = InHand /\ (HoldsReply' <=> HoldsReply) /\ BusyN' = BusyN
    BY <1>1, <1>2, Zenon DEF Gone, InHand, HoldsReply, BusyN
  <2> QED
    BY <1>1, <1>2, <2>1, Zenon DEF Inv, ReplyInv
<1>6. ViewInv' /\ FrameInv'
  BY <1>1, <1>2, StayView, Zenon DEF Inv
<1> QED
  BY <1>3, <1>4, <1>5, <1>6, Zenon DEF Inv

\* Both are steps the contract allows: the first may start a frame, the second
\* is one it does not see.
LEMMA CheckFiltersInv == SessionInv /\ CheckFilters => SessionInv' /\ Kept
<1> SUFFICES ASSUME SessionInv, CheckFilters PROVE SessionInv' /\ Kept
  BY Zenon
<1>1. Inv /\ Inv'
  BY CheckFiltersType, Zenon DEF SessionInv
<1>2. /\ wpc = "check_filters"
      /\ (wpc' = "write" /\ UNCHANGED wmsg) \/ wpc' = "select"
      /\ UNCHANGED <<outgoing, owed, rpc, asked, replied, acked, lastFrame>>
  BY Zenon DEF CheckFilters, readerVars, subVars
<1>3. AskedInv'
  BY <1>2, Zenon DEF SessionInv, AskedInv, Acknowledging
<1> QED
  BY <1>1, <1>2, <1>3, CheckedKept, Zenon DEF SessionInv

\* Replacing the filters keeps SessionInv, and the contract does not see it.
LEMMA ChangeFiltersInv ==
    SessionInv /\ (SubscribeFilters \/ UnsubscribeFilters) => SessionInv' /\ Kept
<1> SUFFICES ASSUME SessionInv, SubscribeFilters \/ UnsubscribeFilters PROVE SessionInv' /\ Kept
  BY Zenon
<1>1. Inv'
  BY ChangeFiltersType, Zenon DEF SessionInv
<1>2. UNCHANGED <<wpc, wmsg, outgoing, owed, replied, asked, acked, lastFrame>> /\ Acknowledging'
  BY Zenon DEF SubscribeFilters, UnsubscribeFilters, writerVars, subVars, Acknowledging
<1> QED
  BY <1>1, <1>2, StayKept, Zenon DEF SessionInv, AskedInv
-----------------------------------------------------------------------------
(* The filters.                                                            *)

\* The writer, seen from the filters.
LEMMA WriterFilters == WsInv /\ writer => WsInv' /\ Kept
<1> SUFFICES ASSUME WsInv, writer PROVE WsInv' /\ Kept
  BY Zenon
<1>1. SessionInv' /\ Kept
  BY CheckFiltersInv, SharedStep, Zenon DEF WsInv, writer, CheckSet
<1>2. UNCHANGED <<frame_filters, rpc, asked>>
  BY Zenon DEF writer, RecvReply, RecvClosed, RecvFrame, RecvLagged, CheckSet, CheckFilters, CheckIface,
     Write, WriteFail, readerVars, subVars
<1>3. FilterInv'
  <2>1. Gone => Gone'
    BY Zenon DEF Gone, writer, RecvReply, RecvClosed, RecvFrame, RecvLagged, CheckSet, CheckFilters,
       CheckIface, Write, WriteFail
  <2>2. ASSUME ~Gone', ~FiltersChanged'
        PROVE  \E s \in Subscription : Newest(s)' /\ frame_filters' = s.classes
    <3>1. PICK s \in Subscription : Newest(s) /\ frame_filters = s.classes
      BY <1>2, <2>1, <2>2, Zenon DEF WsInv, FilterInv, FiltersChanged
    <3>2. Newest(s)'
      <4>1. CASE CheckFilters
        <5>1. UNCHANGED <<outgoing, acked>> /\ wmsg \in Frame /\ wpc = "check_filters"
              /\ (wpc' = "write" => wmsg' = wmsg)
          BY <4>1, Zenon DEF CheckFilters, WsInv, SessionInv, Inv, TypeInv
        <5>2. ~HoldsAck /\ ~HoldsAck'
          BY <5>1, Zenon DEF HoldsAck, IsAck, Frame, AckTypes
        <5> QED
          BY <3>1, <5>1, <5>2, KeepNewest, Zenon
      <4>2. CASE ~CheckFilters
        BY <2>2, <3>1, <4>2, WriterNewest, Zenon DEF WsInv, SessionInv, Inv, writer, CheckSet
      <4> QED
        BY <4>1, <4>2, Zenon
    <3> QED
      BY <1>2, <3>1, <3>2, Zenon
  <2>3. FiltersChanged' <=> FiltersChanged
    BY <1>2, Zenon DEF FiltersChanged
  <2> QED
    BY <1>2, <2>2, <2>3, SMTT(30) DEF WsInv, FilterInv
<1>4. ConformInv'
  <2> SUFFICES ASSUME HoldsFrame', ~Acknowledging', NoAckQueued'
               PROVE  /\ wpc' \in {"check_filters", "write"} => wmsg'.iface \in acked'.ifaces
                      /\ wpc' = "write" => wmsg'.cls \in acked'.classes
    BY Zenon DEF ConformInv
  <2>1. ~Acknowledging
    BY <1>2, Zenon DEF Acknowledging
  <2>2. CASE RecvReply
    <3>1. wmsg' \in Reply
      BY <2>2, TailFacts, Zenon DEF RecvReply, WsInv, SessionInv, Inv, TypeInv, TypeOK
    <3> QED
      BY <3>1, Zenon DEF HoldsFrame, IsFrame, Reply, ReplyTypes, AckTypes, Responses
  <2>3. CASE RecvClosed \/ RecvFrame \/ RecvLagged \/ Write \/ WriteFail
    BY <2>3, Zenon DEF RecvClosed, RecvFrame, RecvLagged, Write, WriteFail, HoldsFrame, writerVars
  <2>4. CASE CheckSet \/ CheckFilters
    <3>1. /\ wpc \in {"check", "check_filters"} /\ wpc' # "select" /\ wmsg' = wmsg
          /\ UNCHANGED <<outgoing, acked>> /\ ~HoldsAck /\ ~Gone
      BY <2>4, Zenon DEF CheckSet, CheckFilters, CheckIface, HoldsFrame, HoldsAck, Gone
    <3>2. NoAckQueued
      BY <3>1, Zenon DEF NoAckQueued
    <3>3. acked.ifaces = subscribed_ifaces
      BY <2>1, <3>1, <3>2, Zenon DEF WsInv, SessionInv, Inv, ViewInv, Newest, NoAckQueued, LastAck
    <3>4. acked.classes = frame_filters
      BY <2>1, <3>1, <3>2, Zenon DEF WsInv, FilterInv, Newest, NoAckQueued, LastAck,
         FiltersChanged, Acknowledging
    <3>5. CASE CheckSet
      BY <3>1, <3>3, <3>5, Zenon DEF CheckSet, CheckIface
    <3>6. CASE CheckFilters
      <4>1. HoldsFrame /\ wpc = "check_filters" /\ wmsg.cls \in frame_filters
        BY <3>1, <3>6, Zenon DEF CheckFilters, HoldsFrame
      <4> QED
        BY <2>1, <3>1, <3>2, <3>4, <4>1, Zenon DEF WsInv, ConformInv
    <3> QED
      BY <2>4, <3>5, <3>6, SMTT(30)
  <2> QED
    BY <2>2, <2>3, <2>4, Zenon DEF writer
<1> QED
  BY <1>1, <1>3, <1>4, Zenon DEF WsInv

\* A step of the reader or of others that queues nothing and leaves the
\* filters alone.
LEMMA QuietStep ==
    ASSUME FilterInv, ConformInv,
           UNCHANGED <<outgoing, wpc, wmsg, acked, frame_filters>>,
           FiltersChanged' <=> FiltersChanged, Acknowledging => Acknowledging',
           FiltersChanged => UNCHANGED asked,
           rpc' \in {"clear_filters", "unsubscribed"} =>
              asked' = NoSub \/ (rpc \in {"clear_filters", "unsubscribed"} /\ UNCHANGED asked)
    PROVE  FilterInv' /\ ConformInv'
<1>1. (Gone' <=> Gone) /\ (HoldsFrame' <=> HoldsFrame) /\ (NoAckQueued' <=> NoAckQueued)
  BY Zenon DEF Gone, HoldsFrame, NoAckQueued
<1>2. ASSUME ~Gone, ~FiltersChanged
      PROVE  \E s \in Subscription : Newest(s)' /\ frame_filters' = s.classes
  <2>1. PICK s \in Subscription : Newest(s) /\ frame_filters = s.classes
    BY <1>2, Zenon DEF FilterInv
  <2>2. HoldsAck' <=> HoldsAck
    BY Zenon DEF HoldsAck
  <2> QED
    BY <2>1, <2>2, KeepNewest, Zenon
<1> QED
  BY <1>1, <1>2, Zenon DEF FilterInv, ConformInv

\* The reader queues a reply.  An acknowledgement confirms the filters in
\* force.
LEMMA QueueStep ==
    ASSUME TypeInv, FilterInv, ConformInv, UNCHANGED <<wpc, wmsg, acked, frame_filters>>,
           NEW t \in ReplyTypes, NEW re \in Nat, NEW sub \in Subscription, Queue(t, re, sub),
           ~Acknowledging', t \in AckTypes <=> Acknowledging,
           Acknowledging => FiltersChanged /\ sub = asked
    PROVE  FilterInv' /\ ConformInv'
<1>1. (Gone' <=> Gone) /\ (HoldsFrame' <=> HoldsFrame) /\ (HoldsFrame => ~Gone)
  BY Zenon DEF Gone, HoldsFrame
<1>2. ~FiltersChanged' /\ rpc' \notin {"clear_filters", "unsubscribed"}
  BY Zenon DEF FiltersChanged, Acknowledging
<1>3. ASSUME ~Gone
      PROVE  \E s \in Subscription : Newest(s)' /\ frame_filters' = s.classes
  <2>1. CASE t \in AckTypes
    BY <1>3, <2>1, QueueNewest, Zenon DEF FilterInv
  <2>2. CASE t \notin AckTypes
    <3>1. ~FiltersChanged
      BY <2>2, Zenon DEF FiltersChanged, Acknowledging
    <3>2. PICK s \in Subscription : Newest(s) /\ frame_filters = s.classes
      BY <1>3, <3>1, Zenon DEF FilterInv
    <3>3. Newest(s)'
      BY <1>3, <2>2, <3>2, QueueNewest, Zenon
    <3> QED
      BY <3>2, <3>3, Zenon
  <2> QED
    BY <2>1, <2>2, Zenon
<1>4. FilterInv'
  BY <1>1, <1>2, <1>3, Zenon DEF FilterInv
<1>5. ~Gone => (NoAckQueued' => t \notin AckTypes /\ NoAckQueued)
  BY QueueNewest, Zenon
<1>6. ConformInv'
  BY <1>1, <1>5, Zenon DEF ConformInv
<1> QED
  BY <1>4, <1>6, Zenon

\* What the client makes the reader do.
LEMMA ClientInv == WsInv /\ ClientStep => WsInv' /\ Kept
<1> SUFFICES ASSUME WsInv, ClientStep PROVE WsInv' /\ Kept
  BY Zenon
<1>a. SessionInv /\ TypeInv /\ FilterInv /\ ConformInv
  BY Zenon DEF WsInv, SessionInv, Inv
<1>b. sender_open \in BOOLEAN /\ (~sender_open => Leaving) /\ owed \in Nat
  BY <1>a, Zenon DEF SessionInv, Inv, TypeInv, TypeOK, ReplyInv
<1>c. NoSub \in Subscription /\ "Error" \in ReplyTypes \ AckTypes
  BY Zenon DEF NoSub, Subscription, ReplyTypes, AckTypes, Responses
<1> SUFFICES SessionInv' /\ Kept /\ FilterInv' /\ ConformInv'
  BY Zenon DEF WsInv
<1> USE DEF ReaderStates, Busy, Acknowledging, Leaving
<1>1. CASE HandshakeHello \/ ReadClose
  <2>1. SessionInv' /\ Kept
    BY <1>1, <1>a, <1>b, MoveStep, Zenon DEF HandshakeHello, ReadClose, DropSender
  <2> QED
    BY <1>1, <1>a, <2>1, QuietStep, SMTT(30) DEF HandshakeHello, ReadClose, DropSender, writerVars, subVars,
       FiltersChanged
<1>2. CASE HandshakeRejected \/ ReadRejected
  <2>1. Answer("Error") /\ rpc \in {"handshake", "read"} /\ rpc' \in {"read", "returned"}
        /\ UNCHANGED <<busVars, svcVars, writerVars, subVars, frame_filters>>
    BY <1>2, Zenon DEF HandshakeRejected, ReadRejected, Return
  <2>2. SessionInv' /\ Kept
    BY <1>2, <1>a, <1>b, <1>c, <2>1, AnswerStep, Zenon DEF HandshakeRejected, ReadRejected, Return
  <2>3. Queue("Error", owed, NoSub) /\ UNCHANGED <<wpc, wmsg, acked>>
    BY <2>1, Zenon DEF Answer, writerVars
  <2> QED
    BY <1>a, <1>b, <1>c, <2>1, <2>2, <2>3, QueueStep, Zenon
<1>3. ASSUME NEW req \in Requests, SubscribeIfaces(req) \/ UnsubscribeIfaces(req)
      PROVE  SessionInv' /\ Kept /\ FilterInv' /\ ConformInv'
  <2>1. req.kind = "Subscribe" => req.ifaces \in SUBSET Ifaces /\ req.classes \in SUBSET Classes
    BY Zenon DEF Requests
  <2>2. asked' \in Subscription /\ subscribed_ifaces' = asked'.ifaces
    BY <1>3, <2>1 DEF SubscribeIfaces, UnsubscribeIfaces, Subscription, NoSub
  <2>3. SessionInv' /\ Kept
    BY <1>3, <1>a, <2>2, TakeStep, SMTT(30) DEF SubscribeIfaces, UnsubscribeIfaces, TextMessage, svcVars
  <2> QED
    BY <1>3, <1>a, <2>3, QuietStep, Zenon DEF SubscribeIfaces, UnsubscribeIfaces, TextMessage, writerVars,
       FiltersChanged
<1>4. ASSUME NEW req \in Requests, JsonlCallService(req) PROVE SessionInv' /\ Kept /\ FilterInv' /\ ConformInv'
  <2>1. SvcTypeOK' /\ (call'.st \in {"can_tx", "publish"} => call'.ev \in Sends)
    BY <1>4, <1>a, HandleType, Zenon DEF JsonlCallService
  <2>2. SessionInv' /\ Kept
    BY <1>4, <1>a, <2>1, TakeStep, Zenon DEF JsonlCallService, TextMessage
  <2> QED
    BY <1>4, <1>a, <2>2, QuietStep, SMTT(30) DEF JsonlCallService, TextMessage, writerVars, subVars, FiltersChanged
<1> QED
  BY <1>1, <1>2, <1>3, <1>4, Zenon DEF ClientStep

\* What the reader does by itself.
LEMMA ReaderInv == WsInv /\ ReaderStep => WsInv' /\ Kept
<1> SUFFICES ASSUME WsInv, ReaderStep PROVE WsInv' /\ Kept
  BY Zenon
<1>a. SessionInv /\ TypeInv /\ FilterInv /\ ConformInv
  BY Zenon DEF WsInv, SessionInv, Inv
<1>b. sender_open \in BOOLEAN /\ (~sender_open => Leaving) /\ owed \in Nat
  BY <1>a, Zenon DEF SessionInv, Inv, TypeInv, TypeOK, ReplyInv
<1>c. NoSub \in Subscription /\ asked \in Subscription
  BY <1>a, Zenon DEF NoSub, Subscription, TypeInv, TypeOK
<1> SUFFICES SessionInv' /\ Kept /\ FilterInv' /\ ConformInv'
  BY Zenon DEF WsInv
<1> USE DEF ReaderStates, Busy, Acknowledging, Leaving
<1>1. CASE JsonlHelloAck
  <2>1. "HelloAck" \in ReplyTypes \ AckTypes
    BY Zenon DEF ReplyTypes, AckTypes, Responses
  <2>2. SessionInv' /\ Kept
    BY <1>1, <1>a, <1>b, <2>1, AnswerStep, Zenon DEF JsonlHelloAck, Return
  <2>3. /\ Queue("HelloAck", owed, NoSub) /\ UNCHANGED <<wpc, wmsg, acked, frame_filters>>
        /\ rpc = "start" /\ rpc' \in {"handshake", "returned"}
    BY <1>1, Zenon DEF JsonlHelloAck, Answer, Return, writerVars
  <2> QED
    BY <1>a, <1>b, <1>c, <2>1, <2>2, <2>3, QueueStep, SMTT(30)
<1>2. CASE HandshakeFails
  <2>1. SessionInv' /\ Kept
    BY <1>2, <1>a, MoveStep, Zenon DEF HandshakeFails, Return
  <2> QED
    BY <1>2, <1>a, <2>1, QuietStep, Zenon DEF HandshakeFails, Return, writerVars, subVars, FiltersChanged
<1>3. CASE SubscribeFilters \/ UnsubscribeFilters
  <2>1. SessionInv' /\ Kept
    BY <1>3, <1>a, ChangeFiltersInv, Zenon
  <2>2. frame_filters' = asked.classes /\ asked' = asked /\ FiltersChanged'
        /\ (rpc' = "unsubscribed" => asked = NoSub) /\ rpc' # "clear_filters"
    BY <1>3, <1>a DEF SubscribeFilters, UnsubscribeFilters, FilterInv, NoSub, subVars, FiltersChanged
  <2>3. FilterInv'
    BY <1>c, <2>2, Zenon DEF FilterInv, Subscription
  <2>4. ConformInv'
    BY <1>3, Zenon DEF SubscribeFilters, UnsubscribeFilters, ConformInv
  <2> QED
    BY <2>1, <2>3, <2>4, Zenon
<1>4. CASE JsonlAckSubscribe \/ JsonlAckUnsubscribe
  <2>1. SessionInv' /\ Kept
    BY <1>4, <1>a, OwedReplyStep, Zenon DEF JsonlAckSubscribe, JsonlAckUnsubscribe, AckTypes
  <2>2. PICK t \in AckTypes : QueueAck(t)
    BY <1>4, Zenon DEF JsonlAckSubscribe, JsonlAckUnsubscribe, AckTypes
  <2>3. /\ Queue(t, owed - 1, asked) /\ UNCHANGED <<wpc, wmsg, acked, frame_filters>>
        /\ FiltersChanged /\ rpc' = "read" /\ t \in ReplyTypes
    BY <1>4, <2>2, Zenon DEF JsonlAckSubscribe, JsonlAckUnsubscribe, QueueAck, writerVars, FiltersChanged, ReplyTypes
  <2>4. owed - 1 \in Nat
    BY <1>a, <1>b, <2>3 DEF TypeInv, FiltersChanged
  <2>5. Acknowledging /\ ~Acknowledging'
    BY <2>3, Zenon DEF FiltersChanged
  <2> QED
    BY <1>a, <1>c, <2>1, <2>3, <2>4, <2>5, QueueStep, SMTT(30)
<1>5. CASE JsonlSendResponse
  <2>1. SessionInv' /\ Kept
    BY <1>5, <1>a, OwedReplyStep, Zenon DEF JsonlSendResponse, ReplyHandled
  <2>2. call.resp \in ReplyTypes \ AckTypes
    BY <1>a, Zenon DEF TypeInv, TypeOK, SvcTypeOK, ReplyTypes, AckTypes, Responses
  <2>3. /\ Queue(call.resp, owed - 1, NoSub) /\ UNCHANGED <<wpc, wmsg, acked, frame_filters>>
        /\ rpc = "handle" /\ rpc' = "read"
    BY <1>5, Zenon DEF JsonlSendResponse, ReplyHandled, writerVars
  <2>4. owed - 1 \in Nat
    BY <1>a, <1>b, <2>3 DEF TypeInv
  <2> QED
    BY <1>a, <1>c, <2>1, <2>2, <2>3, <2>4, QueueStep, SMTT(30)
<1>6. CASE (HandleStep \/ Joined) /\ UNCHANGED frame_filters
  <2>1. SessionInv' /\ Kept
    BY <1>6, <1>a, SharedStep, Zenon
  <2> QED
    BY <1>6, <1>a, <2>1, QuietStep, Zenon DEF HandleStep, Joined, readerVars, writerVars, subVars,
       FiltersChanged
<1> QED
  BY <1>1, <1>2, <1>3, <1>4, <1>5, <1>6, SMTT(30) DEF ReaderStep
-----------------------------------------------------------------------------
\* Every step keeps the invariant, and is one of the contract or one it does
\* not see.
LEMMA StepInv == WsInv /\ [JsonlNext]_jsonlVars => WsInv' /\ Kept
<1> SUFFICES ASSUME WsInv, [JsonlNext]_jsonlVars PROVE WsInv' /\ Kept
  BY Zenon
<1>1. CASE ClientStep \/ ReaderStep \/ writer
  BY <1>1, ClientInv, ReaderInv, WriterFilters, Zenon
<1>2. CASE (PublishOther \/ UNCHANGED sessionVars) /\ UNCHANGED frame_filters
  <2>1. SessionInv' /\ Kept
    BY <1>2, SharedStep, StutterStep, Zenon DEF WsInv
  <2>2. UNCHANGED <<outgoing, wpc, wmsg, acked, frame_filters, rpc, asked>>
    BY <1>2, Zenon DEF PublishOther, sessionVars, readerVars, writerVars, subVars
  <2>3. (FiltersChanged' <=> FiltersChanged) /\ (Acknowledging' <=> Acknowledging)
    BY <2>2, Zenon DEF FiltersChanged, Acknowledging
  <2>4. FilterInv' /\ ConformInv'
    BY <2>2, <2>3, QuietStep, Zenon DEF WsInv, FilterInv
  <2> QED
    BY <2>1, <2>4, Zenon DEF WsInv
<1> QED
  BY <1>1, <1>2, Zenon DEF JsonlNext, jsonlVars

\* The invariant of the WebSocket text session.
THEOREM WsJsonlInvariant == JsonlSpec => []WsInv
<1>1. JsonlInit => WsInv
  <2> SUFFICES ASSUME JsonlInit PROVE WsInv
    BY Zenon
  <2>1. SessionInv
    BY InitStep, Zenon DEF JsonlInit
  <2>2. NoSub \in Subscription /\ NoSub.classes = Classes
    BY Zenon DEF NoSub, Subscription
  <2>3. Newest(NoSub)
    BY DEF JsonlInit, SessionInit, Newest, NoAckQueued, HoldsAck
  <2>4. FilterInv
    BY <2>2, <2>3, Zenon DEF JsonlInit, SessionInit, FilterInv, FiltersChanged
  <2>5. ConformInv
    BY Zenon DEF JsonlInit, SessionInit, ConformInv, HoldsFrame
  <2> QED
    BY <2>1, <2>4, <2>5, Zenon DEF WsInv
<1> QED
  BY <1>1, StepInv, PTL DEF JsonlSpec

\* The WebSocket text session implements the contract although it changes and
\* checks a subscription under two locks: the contract promises nothing about
\* the filters while an acknowledgement is on its way.
THEOREM WsJsonlKeepsContract == JsonlSpec => KeepsContract
<1>1. JsonlInit => C!Init
  BY InitStep, Zenon DEF JsonlInit
<1>2. WsInv /\ [JsonlNext]_jsonlVars => [C!Next]_(C!vars)
  BY StepInv, Zenon DEF Kept
<1> QED
  BY <1>1, <1>2, WsJsonlInvariant, PTL DEF JsonlSpec, KeepsContract, C!Spec

\* Every variable of the session, the filters included, keeps its type.
THEOREM WsJsonlTypeCorrect == JsonlSpec => []FiltersTypeOK
<1>1. WsInv => FiltersTypeOK
  BY SessionImplies, Zenon DEF WsInv, FilterInv, FiltersTypeOK
<1> QED
  BY <1>1, WsJsonlInvariant, PTL

\* A frame is written only for an interface the client has been, or is about
\* to be, told it is subscribed to, although the filters are checked after
\* the lock on the set is released.
THEOREM WsJsonlFramesAreSubscribed == JsonlSpec => []FramesAreSubscribed
<1>1. WsInv => FramesAreSubscribed
  BY SessionImplies, Zenon DEF WsInv
<1> QED
  BY <1>1, WsJsonlInvariant, PTL

\* With no acknowledgement on its way, the filters in force are the ones the
\* client was told of.
THEOREM WsJsonlFilterViewsAgree == JsonlSpec => []FilterViewsAgree
<1>1. WsInv => FilterViewsAgree
  <2> SUFFICES ASSUME WsInv, ~Gone, ~Acknowledging, ~AckOnItsWay
               PROVE  frame_filters = acked.classes
    BY Zenon DEF FilterViewsAgree
  <2>1. NoAckQueued /\ ~HoldsAck
    BY Zenon DEF AckOnItsWay, NoAckQueued, HoldsAck
  <2>2. ~FiltersChanged
    BY Zenon DEF Acknowledging, FiltersChanged
  <2> QED
    BY <2>1, <2>2, Zenon DEF WsInv, FilterInv, Newest, NoAckQueued, LastAck
<1> QED
  BY <1>1, WsJsonlInvariant, PTL

\* With no acknowledgement on its way, the frame being written matches both
\* the interfaces and the filters the client was told of.
THEOREM WsJsonlQuietFramesConform == JsonlSpec => []QuietFramesConform
<1>1. WsInv => QuietFramesConform
  BY Zenon DEF WsInv, ConformInv, QuietFramesConform, HoldsFrame, AckOnItsWay, NoAckQueued
<1> QED
  BY <1>1, WsJsonlInvariant, PTL

\* Replies are written one per request, in the order of the requests.
THEOREM WsJsonlRepliesInOrder == JsonlSpec => []RepliesInOrder
<1>1. WsInv => RepliesInOrder
  BY SessionImplies, Zenon DEF WsInv
<1> QED
  BY <1>1, WsJsonlInvariant, PTL

\* A writer task that ends without a write error has written every reply.
THEOREM WsJsonlNothingOwed == JsonlSpec => []NothingOwed
<1>1. WsInv => NothingOwed
  BY SessionImplies, Zenon DEF WsInv
<1> QED
  BY <1>1, WsJsonlInvariant, PTL
=============================================================================
