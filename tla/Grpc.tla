-------------------------------- MODULE Grpc --------------------------------
(***************************************************************************)
(* The gRPC transport (infra/transport_grpc.rs) with the service and the   *)
(* SocketCAN transmit port behind it.  Unlike a TCP or WebSocket session,  *)
(* which handles one request at a time, unary calls run side by side, and  *)
(* the client may give one up (cancel, deadline, lost connection): tonic   *)
(* then drops the handler's future at the await it is suspended in.  The   *)
(* send itself runs on a blocking thread (spawn_blocking), which goes on.  *)
(*                                                                         *)
(* One server stream (Subscribe) is modelled; the receiver of FrameBus is  *)
(* the stream's.  Requests carry the data the port validates; a class of   *)
(* FrameBus is what a FrameEvent says of a frame besides its interface.    *)
(***************************************************************************)
EXTENDS FrameBus, Lists

CONSTANTS
    Calls,          \* unary calls, each made at most once
    SendFrameReqs,  \* send_frame requests clients make
    MaxClassic,     \* longest classic payload (8 bytes)
    MaxFd,          \* longest CAN-FD payload (64 bytes)
    MaxStd,         \* largest standard id (0x7FF)
    MaxExt          \* largest extended id (0x1FFFFFFF)

ASSUME GrpcAssumption ==
    /\ MaxClassic \in Nat /\ MaxFd \in Nat /\ MaxClassic <= MaxFd
    /\ MaxStd \in Nat /\ MaxExt \in Nat /\ MaxStd < MaxExt
    /\ \A req \in SendFrameReqs :
          req \in [iface : Ifaces, id : Nat, is_fd : BOOLEAN, brs : BOOLEAN, esi : BOOLEAN, data_hex : Seq(STRING)]

VARIABLES
    calls,      \* state, request and answer of each unary call
    job,        \* the blocking send of a call: "none", "queued", "sent", "refused"
    written,    \* ghost: frames write_frame returned Ok for, with the call they are for
    echoed,     \* ghost: calls whose Tx event was published
    stream,     \* "none" or "open"
    iface_set,  \* what the stream subscribed to
    lastFrame,  \* ghost: stamp of the newest event the stream yielded
    shown       \* ghost: Tx events the stream yielded

callVars   == <<calls, job, written, echoed>>
streamVars == <<stream, iface_set, lastFrame, shown>>
vars       == <<busVars, callVars, streamVars>>
-----------------------------------------------------------------------------
(* Data.                                                                   *)

\* The digits hex_lower writes, and those val takes as well.
LUT      == <<"0", "1", "2", "3", "4", "5", "6", "7", "8", "9", "a", "b", "c", "d", "e", "f">>
Capitals == <<"0", "1", "2", "3", "4", "5", "6", "7", "8", "9", "A", "B", "C", "D", "E", "F">>

\* val: what each digit stands for.
Digits == [c \in Range(LUT) \cup Range(Capitals) |-> CHOOSE n \in 0..15 : c \in {LUT[n + 1], Capitals[n + 1]}]

\* service.rs hex_to_bytes.
hex_to_bytes(s) ==
    LET filtered == filter(s, {k \in DOMAIN s : s[k] # " "})
    IN  IF Len(filtered) % 2 = 0 /\ Range(filtered) \subseteq DOMAIN Digits
        THEN [ok |-> TRUE, data |-> [k \in 1..(Len(filtered) \div 2) |->
                  16 * Digits[filtered[2 * k - 1]] + Digits[filtered[2 * k]]]]
        ELSE [ok |-> FALSE, data |-> <<>>]

\* Faulty variant: the low digit comes first.
FaultyHexLower(bytes) ==
    [k \in 1..(2 * Len(bytes)) |-> LUT[1 + (IF k % 2 = 1 THEN bytes[(k + 1) \div 2] % 16
                                                         ELSE bytes[k \div 2] \div 16)]]

\* Two digits for each byte.
hex_lower(bytes) ==
    [k \in 1..(2 * Len(bytes)) |-> LUT[1 + (IF k % 2 = 1 THEN bytes[(k + 1) \div 2] \div 16
                                                         ELSE bytes[k \div 2] % 16)]]

\* The FrameEvent of a send: brs and esi are not part of it.
TxEvent(req, data) == [dir |-> "tx", id |-> req.id, is_fd |-> req.is_fd, data |-> data]

domain_frame_to_pb(ev) ==
    [iface |-> ev.iface, dir |-> ev.cls.dir, id |-> ev.cls.id, is_fd |-> ev.cls.is_fd,
     data_hex |-> hex_lower(ev.cls.data)]

\* socketcan_tx.rs send_blocking, up to the construction of the frame.
Valid(req, data) ==
    /\ Len(data) <= (IF req.is_fd THEN MaxFd ELSE MaxClassic)
    /\ req.is_fd \/ ~(req.brs \/ req.esi)
    /\ req.id <= MaxExt

\* The frame handed to the socket; make_id picks the form of the id.
CanFrame(req, data) ==
    [iface |-> req.iface, id |-> req.id, ext |-> req.id > MaxStd, is_fd |-> req.is_fd,
     brs |-> req.brs, esi |-> req.esi, data |-> data]
-----------------------------------------------------------------------------
(* Unary calls.                                                            *)

NoReq == [kind |-> "none"]
SendFrame(req) == [kind |-> "send_frame", req |-> req]

Requests == {[kind |-> "hello"], [kind |-> "ping"], [kind |-> "list_ifaces"]}
              \cup {SendFrame(req) : req \in SendFrameReqs}

New == [st |-> "new", of |-> NoReq, data |-> <<>>, resp |-> "none"]

Init ==
    /\ unread = <<>> /\ lagged = FALSE /\ attached = FALSE /\ published = 0
    /\ calls = [k \in Calls |-> New]
    /\ job = [k \in Calls |-> "none"]
    /\ written = <<>> /\ echoed = {}
    /\ stream = "none" /\ iface_set = {} /\ lastFrame = 0 /\ shown = <<>>

Await(k, st)    == calls' = [calls EXCEPT ![k].st = st]
Respond(k, resp) == calls' = [calls EXCEPT ![k].st = "returned", ![k].resp = resp]

\* hello and ping answer at once; so does send_frame when data_hex is bad.
\* Otherwise the call awaits a port; the send is handed to a blocking thread.
start(k, of) ==
    LET begin(st, resp) == calls' = [calls EXCEPT ![k] = [st |-> st, of |-> of, data |-> <<>>, resp |-> resp]]
        parsed == hex_to_bytes(of.req.data_hex)
    IN  /\ calls[k].st = "new"
        /\ CASE of.kind = "hello"       -> begin("returned", "HelloAck") /\ UNCHANGED job
             [] of.kind = "ping"        -> begin("returned", "PingResp") /\ UNCHANGED job
             [] of.kind = "list_ifaces" -> begin("list", "none") /\ UNCHANGED job
             [] of.kind = "send_frame"  ->
                    IF parsed.ok
                    THEN /\ calls' = [calls EXCEPT ![k] = [st |-> "can_tx", of |-> of, data |-> parsed.data,
                                                           resp |-> "none"]]
                         /\ job' = [job EXCEPT ![k] = "queued"]
                    ELSE begin("returned", "SendAckErr") /\ UNCHANGED job
        /\ UNCHANGED <<busVars, written, echoed, streamVars>>

\* The interfaces, or Status::internal when discovery failed.
list_ifaces(k) ==
    /\ calls[k].st = "list"
    /\ \E resp \in {"IfacesResp", "Internal"} : Respond(k, resp)
    /\ UNCHANGED <<busVars, job, written, echoed, streamVars>>

\* The blocking thread writes the frame.
send_blocking_ok(k) ==
    /\ job[k] = "queued"
    /\ Valid(calls[k].of.req, calls[k].data)
    /\ job' = [job EXCEPT ![k] = "sent"]
    /\ written' = Append(written, [call |-> k, frame |-> CanFrame(calls[k].of.req, calls[k].data)])
    /\ UNCHANGED <<busVars, calls, echoed, streamVars>>

\* The request is refused, or the socket does not open or write.
send_blocking_err(k) ==
    /\ job[k] = "queued"
    /\ job' = [job EXCEPT ![k] = "refused"]
    /\ UNCHANGED <<busVars, calls, written, echoed, streamVars>>

\* Faulty variant: no event for an extended id.
FaultySent(k) ==
    /\ calls[k].st = "can_tx" /\ job[k] = "sent"
    /\ Respond(k, "SendAckOk")
    /\ IF calls[k].of.req.id > MaxStd THEN UNCHANGED <<busVars, echoed>>
       ELSE publish_frame(calls[k].of.req.iface, TxEvent(calls[k].of.req, calls[k].data)) /\ echoed' = echoed \cup {k}
    /\ UNCHANGED <<job, written, streamVars>>

\* Faulty variant: the port is not waited for.
FaultyNotAwaited(k) ==
    /\ calls[k].st = "can_tx"
    /\ publish_frame(calls[k].of.req.iface, TxEvent(calls[k].of.req, calls[k].data))
    /\ echoed' = echoed \cup {k}
    /\ Respond(k, "SendAckOk")
    /\ UNCHANGED <<job, written, streamVars>>

\* handle resumes: the Tx event is published and the call answered, without
\* another await.
send_frame_ok(k) ==
    /\ calls[k].st = "can_tx" /\ job[k] = "sent"
    /\ publish_frame(calls[k].of.req.iface, TxEvent(calls[k].of.req, calls[k].data))
    /\ echoed' = echoed \cup {k}
    /\ Respond(k, "SendAckOk")
    /\ UNCHANGED <<job, written, streamVars>>

\* Faulty variant: the error of a classic send is not passed on.
FaultySendFrameErr(k) ==
    /\ calls[k].st = "can_tx" /\ job[k] = "refused"
    /\ calls[k].of.req.is_fd
    /\ Respond(k, "SendAckErr")
    /\ UNCHANGED <<busVars, job, written, echoed, streamVars>>

send_frame_err(k) ==
    /\ calls[k].st = "can_tx" /\ job[k] = "refused"
    /\ Respond(k, "SendAckErr")
    /\ UNCHANGED <<busVars, job, written, echoed, streamVars>>

\* The client gives the call up: the future goes, the blocking thread stays.
drop_call(k) ==
    /\ calls[k].st \in {"list", "can_tx"}
    /\ Await(k, "dropped")
    /\ UNCHANGED <<busVars, job, written, echoed, streamVars>>
-----------------------------------------------------------------------------
(* The Subscribe stream.                                                   *)

\* The receiver exists from here on, whenever the stream is first polled.
subscribe(ifaces) ==
    /\ stream = "none"
    /\ stream' = "open" /\ iface_set' = ifaces
    /\ unread' = <<>> /\ lagged' = FALSE /\ attached' = TRUE
    /\ UNCHANGED <<published, callVars, lastFrame, shown>>

\* Faulty variant: only received frames pass the filter.
FaultyPollEvent ==
    LET ev == Head(unread)
    IN  /\ stream = "open" /\ recv_event
        /\ lastFrame' = IF ev.iface \in iface_set /\ ev.cls.dir = "rx" THEN ev.n ELSE lastFrame
        /\ UNCHANGED <<callVars, stream, iface_set, shown>>

\* filter_map: an event of another interface yields nothing.
poll_event ==
    LET ev == Head(unread)
    IN  /\ stream = "open" /\ recv_event
        /\ IF ev.iface \in iface_set
           THEN /\ lastFrame' = ev.n
                /\ shown' = IF ev.cls.dir = "tx" THEN Append(shown, domain_frame_to_pb(ev)) ELSE shown
           ELSE UNCHANGED <<lastFrame, shown>>
        /\ UNCHANGED <<callVars, stream, iface_set>>

\* Lagged is logged; the stream goes on.
poll_lagged ==
    /\ stream = "open" /\ recv_lagged
    /\ UNCHANGED <<callVars, streamVars>>

drop_stream ==
    /\ stream = "open"
    /\ stream' = "none" /\ iface_set' = {}
    /\ drop_receiver
    /\ UNCHANGED <<callVars, lastFrame, shown>>
-----------------------------------------------------------------------------
\* The receive loops and the fake generator publish.  The Tx events of other
\* transports are left out: their sends are not in this module.
publish_other(i, c) == publish_frame(i, c) /\ UNCHANGED <<callVars, streamVars>>

Step(k) == list_ifaces(k) \/ send_frame_ok(k) \/ send_frame_err(k)
Job(k)  == send_blocking_ok(k) \/ send_blocking_err(k)
Poll    == poll_event \/ poll_lagged

Next ==
    \/ \E k \in Calls : Step(k) \/ Job(k) \/ drop_call(k) \/ \E of \in Requests : start(k, of)
    \/ \E ifaces \in SUBSET Ifaces : subscribe(ifaces)
    \/ Poll
    \/ drop_stream
    \/ \E i \in Ifaces, c \in {c \in Classes : c.dir = "rx"} : publish_other(i, c)

Fairness ==
    /\ WF_vars(Poll)
    /\ \A k \in Calls : WF_vars(Step(k)) /\ WF_vars(Job(k))

Spec == Init /\ [][Next]_vars /\ Fairness
-----------------------------------------------------------------------------
(* The answer to a send is true whatever else runs: SendAck { ok: true }   *)
(* exactly when write_frame returned Ok for the frame of this call, which  *)
(* does not say that it was transmitted (send_frame,                       *)
(* BridgeService::handle, send_blocking).                                  *)
AcksAreTrue ==
    \A k \in Calls : calls[k].st = "returned" /\ calls[k].of.kind = "send_frame" =>
        (calls[k].resp = "SendAckOk" <=>
            \E j \in DOMAIN written : written[j].call = k)

(* A subscriber sees outgoing frames as they were written, none that was   *)
(* not and none twice: the id, kind and data_hex of a "tx" event are those *)
(* of the frame built by make_id, even when the sender used blanks         *)
(* or capitals and streams come and go (hex_to_bytes, publish_frame,       *)
(* domain_frame_to_pb, hex_lower).                                         *)
Shows(e, f) ==
    /\ e.iface = f.iface /\ e.id = f.id /\ e.is_fd = f.is_fd
    /\ hex_to_bytes(e.data_hex) = [ok |-> TRUE, data |-> f.data]

TxEventsMatchBus ==
    \A k \in DOMAIN shown :
        Cardinality({j \in DOMAIN shown : shown[j] = shown[k]})
            <= Cardinality({j \in DOMAIN written : Shows(shown[k], written[j].frame)})

(* A frame written without its Tx event is one whose call is still         *)
(* being handled or was given up by the client: every answered send was    *)
(* echoed first (BridgeService::handle publishes before it answers).       *)
SilentOnlyIfDropped ==
    \A j \in DOMAIN written :
        written[j].call \in echoed \/ calls[written[j].call].st \in {"can_tx", "dropped"}

(* Every call is answered unless the client gives it up: no error path of  *)
(* the ports leaves a call without an answer (list_ifaces, send_frame).    *)
CallsEnd ==
    \A k \in Calls : calls[k].st \in {"list", "can_tx"} ~> calls[k].st \in {"returned", "dropped"}

(* An event waiting for an open stream that subscribed to its interface is *)
(* yielded, unless it is lost to lag or the stream is dropped; lag does    *)
(* not end the stream (subscribe's filter_map).                            *)
Due(n) == stream = "open" /\ \E k \in DOMAIN unread : unread[k].n = n /\ unread[k].iface \in iface_set

EventsReachStream ==
    \A n \in 1..(MaxStamp - 1) : Due(n) ~> (lastFrame = n \/ lagged \/ stream = "none")
=============================================================================
