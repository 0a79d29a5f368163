----------------------------- MODULE TcpAccept -----------------------------
(***************************************************************************)
(* TcpJsonOrBinaryServer (infra/transport_tcp/tcp_json_or_binary_server.rs)*)
(* The accept loop spawns one handle_connection per client.  It peeks at   *)
(* the first bytes, without a timeout, and starts a binary session when    *)
(* they are the four of the magic, a JSONL session otherwise.  Both        *)
(* sessions queue HelloAck as their first act.                             *)
(*                                                                         *)
(* What a client sends first is four bytes or more; the network may bring  *)
(* the first four in any number of segments.  A client speaks first, in    *)
(* JSON or in binary, or speaks JSON and waits for HelloAck.               *)
(***************************************************************************)
EXTENDS Naturals

CONSTANTS
    Conns,          \* the connections
    MagicLen        \* bytes of the magic header (4 in the code)

ASSUME AcceptAssumption == MagicLen \in Nat \ {0}

Kinds == {"json", "binary", "json_waits"}

VARIABLES
    listener,       \* the accept loop: listening, or ended by an accept error
    stage,          \* where each connection is: none, backlog, peek, jsonl, binary
    kind,           \* what its client speaks
    arrived,        \* bytes of its first message in the socket, up to the magic
    first,          \* ghost: how many of them the first segment brought
    eof             \* the client has closed its side

acceptVars == <<listener, stage, kind, arrived, first, eof>>

AcceptInit ==
    /\ listener = "listening"
    /\ stage = [c \in Conns |-> "none"]
    /\ kind \in [Conns -> Kinds]
    /\ arrived = [c \in Conns |-> 0]
    /\ first = [c \in Conns |-> 0]
    /\ eof = [c \in Conns |-> FALSE]

\* HelloAck has been queued: the session has begun.
Greeted(c) == stage[c] \in {"jsonl", "binary"}

-----------------------------------------------------------------------------
(* The clients and the network.                                            *)

\* A listener that is gone refuses connections.
Connect(c) ==
    /\ listener = "listening" /\ stage[c] = "none"
    /\ stage' = [stage EXCEPT ![c] = "backlog"]
    /\ UNCHANGED <<listener, kind, arrived, first, eof>>

\* A segment arrives, of a client that has something to say.
Segment(c) ==
    /\ stage[c] # "none" /\ ~eof[c]
    /\ kind[c] = "json_waits" => Greeted(c)
    /\ \E n \in (arrived[c] + 1)..MagicLen :
          /\ arrived' = [arrived EXCEPT ![c] = n]
          /\ first' = IF arrived[c] = 0 THEN [first EXCEPT ![c] = n] ELSE first
    /\ UNCHANGED <<listener, stage, kind, eof>>

Close(c) ==
    /\ stage[c] # "none" /\ ~eof[c]
    /\ eof' = [eof EXCEPT ![c] = TRUE]
    /\ UNCHANGED <<listener, stage, kind, arrived, first>>
-----------------------------------------------------------------------------
(* The server.                                                             *)

\* Faulty variant: the connection is handled inside the accept loop.
FaultyInline(c) ==
    /\ listener = "listening" /\ stage[c] = "backlog"
    /\ \A d \in Conns : stage[d] # "peek"
    /\ stage' = [stage EXCEPT ![c] = "peek"]
    /\ UNCHANGED <<listener, kind, arrived, first, eof>>

\* listener.accept().await?, then tokio::spawn(handle_connection).
run(c) ==
    /\ listener = "listening" /\ stage[c] = "backlog"
    /\ stage' = [stage EXCEPT ![c] = "peek"]
    /\ UNCHANGED <<listener, kind, arrived, first, eof>>

\* accept() fails: run returns, and nobody is accepted any more.
accept_error ==
    /\ listener = "listening"
    /\ listener' = "failed"
    /\ UNCHANGED <<stage, kind, arrived, first, eof>>

\* Faulty variant: a peek that does not wait.
FaultyNoWait(c) ==
    /\ stage[c] = "peek"
    /\ stage' = [stage EXCEPT ![c] =
                    IF arrived[c] = MagicLen /\ kind[c] = "binary" THEN "binary" ELSE "jsonl"]
    /\ UNCHANGED <<listener, kind, arrived, first, eof>>

\* socket.peek(..).await.unwrap_or(0): returns what is there, and waits while
\* that is nothing.  A connection that was closed may also be reset, and the
\* error counts as no bytes.
handle_connection(c) ==
    /\ stage[c] = "peek"
    /\ \E n \in {arrived[c]} \cup {k \in {0} : eof[c]} :
          /\ n > 0 \/ eof[c]
          /\ stage' = [stage EXCEPT ![c] =
                          IF n = MagicLen /\ kind[c] = "binary" THEN "binary" ELSE "jsonl"]
    /\ UNCHANGED <<listener, kind, arrived, first, eof>>

ClientStep(c) == Connect(c) \/ Segment(c) \/ Close(c)

AcceptNext ==
    \/ \E c \in Conns : ClientStep(c) \/ run(c) \/ handle_connection(c)
    \/ accept_error

AcceptSpec == AcceptInit /\ [][AcceptNext]_acceptVars

\* The runtime polls the accept loop and every spawned connection; a client
\* that has something to say says all of it.
AcceptFairness ==
    \A c \in Conns : WF_acceptVars(run(c)) /\ WF_acceptVars(handle_connection(c)) /\ WF_acceptVars(Segment(c))

AcceptFairSpec == AcceptSpec /\ AcceptFairness
-----------------------------------------------------------------------------
\* A client that speaks first gets a session, however long the others
\* connected before it keep silent (unless the accept loop has ended).
SpeakersAreServed ==
    \A c \in Conns :
        (stage[c] = "backlog" /\ kind[c] # "json_waits")
            ~> (Greeted(c) \/ listener = "failed" \/ eof[c])

\* However long a binary client waits before it speaks: when its first segment
\* brings the whole magic header, it never gets a JSONL session, and a JSON
\* client never gets a binary one (the peek in handle_connection).
HeaderDecides ==
    \A c \in Conns :
        /\ stage[c] = "jsonl" /\ kind[c] = "binary" => first[c] < MagicLen \/ eof[c]
        /\ stage[c] = "binary" => kind[c] = "binary"

\* HelloAck is sent on connect (docs/archs/tcp_transport_communication.md):
\* a connection being handled is greeted, unless its client goes away.
GreetedOnConnect ==
    \A c \in Conns : stage[c] = "peek" ~> (Greeted(c) \/ eof[c])
=============================================================================
