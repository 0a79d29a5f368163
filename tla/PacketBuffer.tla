---------------------------- MODULE PacketBuffer ----------------------------
(***************************************************************************)
(* What the receive buffer of a binary session promises, without bytes:    *)
(* packets become complete in the order they were sent, the decoder takes  *)
(* them in that order and stops at the first one it cannot decode.  This   *)
(* is the buffer that module BinarySession works with.                     *)
(***************************************************************************)
EXTENDS Integers, Sequences

CONSTANT Bad        \* what a packet that cannot be decoded holds

VARIABLES
    queue,      \* complete packets not decoded yet
    partial,    \* the buffer ends in an incomplete packet
    taken,      \* messages decoded
    status      \* "open" or "failed"

vars == <<queue, partial, taken, status>>

Init == queue = <<>> /\ partial = FALSE /\ taken = <<>> /\ status = "open"

\* Bytes complete packets, begin one, or both.
Arrive ==
    /\ Len(queue) <= Len(queue') /\ queue = SubSeq(queue', 1, Len(queue))
    /\ queue' # queue \/ partial'
    /\ UNCHANGED <<taken, status>>

\* Only a complete packet that decodes is taken, once.
Take ==
    /\ queue # <<>> /\ Head(queue) # Bad
    /\ taken' = Append(taken, Head(queue))
    /\ queue' = Tail(queue)
    /\ UNCHANGED <<partial, status>>

\* Decoding fails on a complete packet that holds no message of the peer.
Fail ==
    /\ queue # <<>> /\ Head(queue) = Bad
    /\ status' = "failed"
    /\ UNCHANGED <<queue, partial, taken>>

Next == status = "open" /\ (Arrive \/ Take \/ Fail)

Spec == Init /\ [][Next]_vars
=============================================================================
