-------------------------- MODULE SessionContract --------------------------
(***************************************************************************)
(* What a session promises its client, whichever transport carries it: no  *)
(* tasks, no channels, no mutex.                                           *)
(*   - Every request gets one reply, and replies come in request order.    *)
(*   - An acknowledgement repeats the subscription that was asked for.     *)
(*   - A frame is of an interface of the subscription the client knows of  *)
(*     or of one it is about to learn of; frames come in the order of      *)
(*     publication and none comes twice.                                   *)
(*   - The session ends with every reply delivered, or it breaks and then  *)
(*     delivers nothing more.                                              *)
(* Frames may be lost, and nothing orders a frame and a reply.             *)
(***************************************************************************)
EXTENDS Naturals, Sequences

CONSTANTS
    Subscription,   \* what a client can subscribe to
    NoSub,          \* no subscription
    ReplyTypes,     \* kinds of replies
    AckTypes,       \* those that confirm a subscription
    Frame,          \* frames, each with its interface and its stamp n
    MaxStamp,       \* stamps saturate here
    NoMsg           \* no frame

VARIABLES
    owed,       \* requests taken
    replied,    \* replies delivered
    pending,    \* replies decided and not delivered
    intent,     \* the subscription the undecided request asks for
    acked,      \* the subscription the client knows of
    frame,      \* the frame on its way to the client
    lastFrame,  \* the stamp of the last frame delivered
    over        \* "no", "ended" or "broken"

vars == <<owed, replied, pending, intent, acked, frame, lastFrame, over>>

Init ==
    /\ owed = 0 /\ replied = 0 /\ pending = <<>>
    /\ intent = NoSub /\ acked = NoSub
    /\ frame = NoMsg /\ lastFrame = 0
    /\ over = "no"

\* A request has been taken and its reply not been decided.
Undecided == replied + Len(pending) < owed

\* The reply to request number k (counted from 0).
ReplyTo(k, t, sub) == [type |-> t, re |-> k, sub |-> sub]

TakeRequest ==
    /\ over = "no" /\ ~Undecided
    /\ owed' = owed + 1
    /\ intent' \in Subscription
    /\ UNCHANGED <<replied, pending, acked, frame, lastFrame, over>>

Decide ==
    /\ over = "no" /\ Undecided
    /\ \/ \E t \in AckTypes : pending' = Append(pending, ReplyTo(owed - 1, t, intent))
       \/ \E t \in ReplyTypes \ AckTypes : pending' = Append(pending, ReplyTo(owed - 1, t, NoSub))
    /\ intent' = NoSub
    /\ UNCHANGED <<owed, replied, acked, frame, lastFrame, over>>

\* Both at once.
AnswerRequest ==
    /\ over = "no" /\ ~Undecided
    /\ owed' = owed + 1
    /\ \E t \in ReplyTypes \ AckTypes : pending' = Append(pending, ReplyTo(owed, t, NoSub))
    /\ UNCHANGED <<replied, intent, acked, frame, lastFrame, over>>

DeliverReply ==
    /\ over = "no" /\ pending # <<>> /\ Head(pending).re = replied
    /\ pending' = Tail(pending)
    /\ replied' = replied + 1
    /\ acked' = IF Head(pending).type \in AckTypes THEN Head(pending).sub ELSE acked
    /\ UNCHANGED <<owed, intent, frame, lastFrame, over>>

\* The interface is one the client knows, or is about to learn, it gets.
Announced(i) ==
    \/ i \in acked.ifaces
    \/ \E k \in DOMAIN pending : pending[k].type \in AckTypes /\ i \in pending[k].sub.ifaces
    \/ i \in intent.ifaces

StartFrame ==
    /\ over = "no" /\ frame = NoMsg
    /\ frame' \in Frame
    /\ Announced(frame'.iface)
    /\ frame'.n > lastFrame \/ frame'.n = MaxStamp
    /\ UNCHANGED <<owed, replied, pending, intent, acked, lastFrame, over>>

DeliverFrame ==
    /\ over = "no" /\ frame # NoMsg
    /\ frame' = NoMsg
    /\ lastFrame' = frame.n
    /\ UNCHANGED <<owed, replied, pending, intent, acked, over>>

\* Every request was answered and every answer delivered.
End ==
    /\ over = "no" /\ replied = owed /\ pending = <<>> /\ frame = NoMsg
    /\ over' = "ended"
    /\ UNCHANGED <<owed, replied, pending, intent, acked, frame, lastFrame>>

Break ==
    /\ over = "no"
    /\ over' = "broken"
    /\ pending' = <<>> /\ frame' = NoMsg
    /\ UNCHANGED <<owed, replied, intent, acked, lastFrame>>

\* The daemon may go on reading a broken connection; the client hears of
\* none of it.
Unheard ==
    /\ over = "broken"
    /\ owed' \in {owed, owed + 1}
    /\ intent' \in Subscription
    /\ UNCHANGED <<replied, pending, acked, frame, lastFrame, over>>

Next ==
    \/ TakeRequest \/ Decide \/ AnswerRequest \/ DeliverReply
    \/ StartFrame \/ DeliverFrame
    \/ End \/ Break \/ Unheard

Spec == Init /\ [][Next]_vars
=============================================================================
