--------------------------- MODULE MCPacketStream ---------------------------
(* Messages for TLC: every type, with fields at their boundaries.          *)
EXTENDS PacketStream

A(n)   == [k \in 1..n |-> k % 2]        \* a string of n ASCII characters
Top(w) == Base^w - 1                    \* the largest integer of w bytes

\* A two-byte character that ends at, or is cut by, the longest string's end.
Fits == A(U16Values - 3) \o <<Lead, Cont>>
Torn == A(U16Values - 2) \o <<Lead, Cont>>

MCMessages ==
    {[type |-> "HelloAck", version |-> A(1), server_name |-> A(2), features |-> <<A(1), Fits>>],
     [type |-> "Pong", id |-> Top(8)],
     [type |-> "Ifaces", items |-> [k \in 1..(U16Values + 1) |-> A(1)]],
     [type |-> "Subscribed", ifaces |-> <<A(2), A(0)>>],
     [type |-> "Unsubscribed"],
     [type |-> "SendAck", ok |-> TRUE, error_message |-> <<>>],
     [type |-> "SendAck", ok |-> FALSE, error_message |-> <<A(U16Values)>>],
     [type |-> "FrameEvent", ts_ms |-> 1, iface |-> A(2), dir |-> A(1), id |-> Top(4), is_fd |-> FALSE,
      data |-> A(U16Values - 1)],
     [type |-> "Error", message |-> Torn],
     [type |-> "ClientHello", client |-> A(U16Values + 1), protocol |-> A(1)],
     [type |-> "Ping", id |-> Base],
     [type |-> "ListIfaces"],
     [type |-> "Subscribe", ifaces |-> [k \in 1..U16Values |-> A(0)]],
     [type |-> "Unsubscribe"],
     [type |-> "SendFrame", iface |-> A(1), id |-> 1, is_fd |-> TRUE, brs |-> FALSE, esi |-> TRUE,
      data |-> A(U16Values)],
     [type |-> "SendFrame", iface |-> Torn, id |-> 0, is_fd |-> FALSE, brs |-> TRUE, esi |-> FALSE,
      data |-> A(0)]}

MCOtherVersion ==
    {m \in MCMessages : m.type \in {"Subscribed", "FrameEvent", "SendFrame"} /\ CountsFit(m)}
=============================================================================
