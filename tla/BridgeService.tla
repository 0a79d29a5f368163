--------------------------- MODULE BridgeService ---------------------------
(***************************************************************************)
(* BridgeService::handle (app/service.rs) as one caller sees it.  A call   *)
(* awaits the discovery port (ListIfaces) or the CAN transmit port         *)
(* (SendFrame), so it takes several steps and the rest of the daemon runs  *)
(* in between.  The session that called it takes resp when st = "done".    *)
(***************************************************************************)
EXTENDS FrameBus

VARIABLES
    call,       \* the handle() call in progress
    accepted,   \* ghost: frames the port returned Ok for
    echoed      \* ghost: frames whose Tx event was published

svcVars == <<call, accepted, echoed>>

\* A frame to send.  re is a ghost: the number of the request it is sent for.
Sends   == [re : Nat, iface : Ifaces, cls : Classes]
NoEvent == [iface |-> "none", cls |-> "none"]

Idle == [st |-> "idle", ev |-> NoEvent, resp |-> "Error"]

Responses == {"Pong", "Ifaces", "Error", "SendAckOk", "SendAckErr"}

SvcTypeOK ==
    /\ call \in [st   : {"idle", "list", "can_tx", "publish", "done"},
                 ev   : Sends \cup {NoEvent},
                 resp : Responses]
    /\ accepted \subseteq Sends
    /\ echoed \subseteq Sends

SvcInit == call = Idle /\ accepted = {} /\ echoed = {}

Done(resp) == [Idle EXCEPT !.st = "done", !.resp = resp]

\* What request number re turns into at once: an answer, or an awaited port
\* call.  data_hex that does not parse is answered before the port is reached.
handle(req, re) ==
    CASE req.kind = "Ping"       -> Done("Pong")
      [] req.kind = "ListIfaces" -> [Idle EXCEPT !.st = "list"]
      [] req.kind = "SendFrame"  ->
            IF req.hex_ok
            THEN [Idle EXCEPT !.st = "can_tx", !.ev = [re |-> re, iface |-> req.iface, cls |-> req.cls]]
            ELSE Done("SendAckErr")
      [] OTHER                   -> Done("Error")

\* discovery.list_can_ifaces().await
handle_list_ifaces ==
    /\ call.st = "list"
    /\ \E resp \in {"Ifaces", "Error"} : call' = Done(resp)
    /\ UNCHANGED <<accepted, echoed, busVars>>

\* Faulty variant: the error of the port is logged and the handler goes on.
FaultyIgnoredError ==
    /\ call.st = "can_tx"
    /\ call' = [call EXCEPT !.st = "publish"]
    /\ UNCHANGED <<accepted, echoed, busVars>>

\* can_tx.send(..).await: the port returns Ok, which says that the frame was
\* written to the socket and not that it was transmitted, or an error.
handle_can_tx_ok ==
    /\ call.st = "can_tx"
    /\ accepted' = accepted \cup {call.ev}
    /\ call' = [call EXCEPT !.st = "publish"]
    /\ UNCHANGED <<echoed, busVars>>

handle_can_tx_err ==
    /\ call.st = "can_tx"
    /\ call' = Done("SendAckErr")
    /\ UNCHANGED <<accepted, echoed, busVars>>

\* Faulty variant: the HelloAck built before the SendAck is what is returned.
FaultyHelloAck ==
    /\ call.st = "publish"
    /\ publish_frame(call.ev.iface, call.ev.cls)
    /\ echoed' = echoed \cup {call.ev}
    /\ call' = Done("HelloAck")
    /\ UNCHANGED accepted

\* publish_frame(FrameEvent { dir: Tx, .. }), then SendAck { ok: true }.
handle_publish_tx ==
    /\ call.st = "publish"
    /\ publish_frame(call.ev.iface, call.ev.cls)
    /\ echoed' = echoed \cup {call.ev}
    /\ call' = Done("SendAckOk")
    /\ UNCHANGED accepted

handle_step ==
    \/ handle_list_ifaces
    \/ handle_can_tx_ok
    \/ handle_can_tx_err
    \/ handle_publish_tx
=============================================================================
