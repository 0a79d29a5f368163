------------------------------ MODULE FrameBus ------------------------------
(***************************************************************************)
(* The frame bus of BridgeService (app/service.rs): a tokio broadcast      *)
(* channel of FrameEvents, seen from ONE receiver.  A broadcast channel    *)
(* keeps the newest Cap events; a receiver that is further behind loses    *)
(* the oldest ones and is told so (RecvError::Lagged) by its next recv().  *)
(* Other sessions have receivers of their own, which this one cannot see.  *)
(*                                                                         *)
(* An event is its interface and its class.  The class stands for          *)
(* everything a capture filter looks at (CAN id, is_fd, payload length);   *)
(* timestamp, direction and payload are left out.  n is a ghost: the       *)
(* position of the event in the order of publication.                      *)
(***************************************************************************)
EXTENDS Naturals, Sequences

CONSTANTS
    Ifaces,     \* CAN interface names
    Classes,    \* what a capture filter can tell apart
    Cap,        \* capacity of the broadcast channel (1024 in the code)
    MaxStamp    \* publication stamps saturate here; publishing never stops

ASSUME BusAssumption ==
    /\ Ifaces # {} /\ Classes # {}
    /\ Cap \in Nat \ {0}
    /\ MaxStamp \in Nat \ {0}

VARIABLES
    unread,     \* retained events this receiver has not taken yet
    lagged,     \* an unread event was overwritten since the last recv()
    attached,   \* the receiver exists (it is dropped with the writer task)
    published   \* ghost: stamp of the newest published event

busVars == <<unread, lagged, attached, published>>

Event == [iface : Ifaces, cls : Classes, n : 1..MaxStamp]

BusTypeOK ==
    /\ unread \in Seq(Event)
    /\ lagged \in BOOLEAN
    /\ attached \in BOOLEAN
    /\ published \in 0..MaxStamp

\* BridgeService::subscribe_frames: a receiver starts behind the newest event.
subscribe_frames ==
    /\ unread = <<>>
    /\ lagged = FALSE
    /\ attached = TRUE
    /\ published = 0

NextStamp == IF published < MaxStamp THEN published + 1 ELSE MaxStamp

\* broadcast::Sender::send as this receiver sees it: a full buffer overwrites
\* the oldest retained event.
broadcast_send(ev) ==
    /\ unread' = IF Len(unread) < Cap THEN Append(unread, ev)
                                      ELSE Append(Tail(unread), ev)
    /\ lagged' = (lagged \/ Len(unread) = Cap)

\* BridgeService::publish_frame: a send without a receiver is ignored.
publish_frame(i, c) ==
    /\ published' = NextStamp
    /\ IF attached THEN broadcast_send([iface |-> i, cls |-> c, n |-> NextStamp])
                   ELSE UNCHANGED <<unread, lagged>>
    /\ UNCHANGED attached

\* Receiver::recv with an event, and with RecvError::Lagged.
recv_event ==
    /\ ~lagged
    /\ unread # <<>>
    /\ unread' = Tail(unread)
    /\ UNCHANGED <<lagged, attached, published>>

recv_lagged ==
    /\ lagged
    /\ lagged' = FALSE
    /\ UNCHANGED <<unread, attached, published>>

\* The receiver is dropped together with what it had not read.
drop_receiver ==
    /\ unread' = <<>>
    /\ lagged' = FALSE
    /\ attached' = FALSE
    /\ UNCHANGED published
=============================================================================
