# A TLA+ model of can_bridge_daemon

The daemon bridges CAN interfaces to clients over TCP (JSON lines or binary
packets), WebSocket (text or binary) and gRPC. This directory holds a model of
it in TLA+, the TLC configurations that check the model on small instances, and
proofs of its main safety properties for every value of the constants.

## The system

| part | source (`src/`) | state | operations | module |
|---|---|---|---|---|
| frame bus | `app/service.rs` | broadcast channel of 1024 events | `publish_frame`, `subscribe_frames`, `recv`, lag | `FrameBus` |
| bridge service | `app/service.rs` | none of its own; a call awaits a port | `handle`: Ping, ListIfaces, SendFrame | `BridgeService` |
| TCP JSONL session | `infra/transport_tcp/tcp_jsonl.rs` | subscription set, reply channel, two tasks | handshake, requests, writer | `TcpJsonl` |
| TCP binary session | `infra/transport_tcp/tcp_binary.rs` | the same and a receive buffer | the same, decode loop | `TcpBinary` |
| WS text session | `infra/transport_ws/ws_jsonl.rs` | the same and capture filters | the same, two locks | `WsJsonl` |
| WS binary session | `infra/transport_ws/ws_binary.rs` | the same and a receive buffer | the same, decode after a message | `WsBinary` |
| TCP accept loop | `infra/transport_tcp/tcp_json_or_binary_server.rs` | connections, bytes to peek at | accept, peek, choice of the session | `TcpAccept` |
| WS router | `infra/transport_ws/ws_json_or_binary_server.rs` | none | bind and serve; route by path | server task in `Daemon`; routing not modelled |
| packet codec | `domain/binary_message.rs` | none | encode, decode | `BinaryCodec`, `PacketStream` |
| gRPC | `infra/transport_grpc.rs` | calls in progress, one receiver per stream | unary calls, Subscribe | `Grpc` |
| SocketCAN transmit | `infra/socketcan_tx.rs` | jobs on blocking threads | check, write | `Grpc`; outcome only in `BridgeService` |
| SocketCAN receive | `infra/socketcan_rx.rs` | one blocking loop per interface | open, fall back, read, retry, publish | `Daemon`; as `PublishOther` in the sessions |
| fake generator | `infra/fake_generator.rs` | one task | start, publish | `Daemon`; as `PublishOther` |
| discovery | `infra/iface_discovery_netlink.rs` | none | `list_can_ifaces` | `Daemon`; outcome only in `BridgeService` |
| start and shutdown | `main.rs` | watcher, token, three server tasks | start, Ctrl+C, abort, end of the runtime | `Daemon` |

All sources publish to one frame bus. Each session holds a receiver of its own.
A session is two tasks. The *reader* takes requests off the socket, changes the
subscription, calls the service and queues one reply per request on an unbounded
channel. The *writer* selects between that channel and the bus, checks each
event against the subscription, and is the only one to write to the socket.

What is hard here: the reader and the writer share the subscription and nothing
orders the writer's two inputs; a receiver that falls behind loses events; a
reader may leave by five different ways, with replies still queued; a write
error ends the writer alone; `handle` awaits a port while events keep coming;
packets arrive in pieces or several at once; first bytes arrive in segments. gRPC
calls run side by side and may be dropped at an await, while the thread that
sends their frame goes on. Ctrl+C may come at any moment of start-up, and the
runtime waits for blocking loops that nobody stops.

## Modules

`FrameBus` <- `BridgeService` <- `Session` <- `TcpJsonl`, `WsJsonl`, and
`BinarySession` <- `TcpBinary`, `WsBinary` (read `<-` as "is extended by").
`Session` instantiates `SessionContract`, the abstract specification all four
transports implement. `BinaryCodec` <- `PacketStream`, which instantiates
`PacketBuffer`, its abstract specification. `FrameBus`, `Lists` <- `Grpc`, and
`Lists` <- `Daemon`. `TcpAccept` and `Daemon` stand by themselves: the first ends where a session starts, the second
has the servers as tasks without what they serve. The `MC*` modules add the
messages, requests and dumps TLC enumerates, and symmetry sets.

The session modules model one session. The other sessions are its environment: they share
nothing with it but the bus, so `PublishOther` stands for the Tx events of
other sessions as well as for SocketCAN and the fake generator. The bus is
modelled as one receiver sees it.

* `FrameBus`: `unread` holds the retained events this receiver has not taken.
  A publication that finds it full drops the oldest and sets `lagged`; the next
  `recv` then reports the lag instead of an event. An event is its interface
  and its class; a class stands for what a capture filter compares (id, FD
  flag, length). `n` is a ghost, the event's place in the order of publication.
* `BridgeService`: `call` is the `handle` call in progress. `handle(req, re)` is
  what happens before the first await; `handle_list_ifaces`, `handle_can_tx_ok`,
  `handle_can_tx_err` and `handle_publish_tx` are the steps after it. `accepted` and
  `echoed` are ghosts: the frames the transmit port returned Ok for, and those whose
  Tx event was published, each with the number `re` of the request it was sent
  for. Ok of the port means that the frame was written to the socket; whether it
  is transmitted on the bus nobody in the daemon knows (`protocol.rs:106`), and no
  property speaks of it.
* `Session`: `outgoing` and `sender_open` are the reply channel, `rpc` and `wpc`
  the positions of reader and writer (a position is a place where the task may
  be suspended), `wmsg` what the writer holds. `owed`, `replied`, `sendAcks`,
  `acked` and `lastFrame` are ghosts that sum up what the client asked for and
  was sent. A SendAck names no request, so `sendAcks` has it under its place
  among the replies, as a client that counts replies would take it. The writer is `RecvReply`, `RecvClosed`, `RecvFrame`, `RecvLagged`,
  `CheckIface`, `Write` and `WriteFail`.
* `TcpJsonl`, `WsJsonl`: one action per line or message the reader can meet,
  and one per step it takes after an await. In `WsJsonl` a Subscribe is three
  steps (set, filters, acknowledgement) and so is the writer's check.
* `BinarySession`: the receive buffer, as complete packets and a flag for the
  first bytes of one more, and the dispatch of decoded requests. `TcpBinary`
  decodes before it reads; `WsBinary` receives before it decodes.
* `SessionContract`: what a client may rely on, without tasks, channels or locks:
  one reply per request and in request order; an acknowledgement repeats the
  subscription that was asked for; a frame is of an interface the client knows,
  or is about to learn, it is subscribed to; frames in the order of publication
  and none twice; the session ends with everything delivered, or breaks and then
  delivers nothing. `KeepsContract` is `C!Spec` under this mapping: `pending` is
  the reply in the writer's hand followed by the channel, `frame` the frame it is
  writing, `intent` the request in the reader's hands, `over` how the writer ended.
* `Lists`: `filter`, `sort` and `dedup` of the Rust library, as `list_can_ifaces` and
  `hex_to_bytes` use them. A result is given by the positions it keeps and their
  order (`Nth`), without recursion.
* `TcpAccept`: for each connection the stage, the bytes that have arrived, the
  length of the first segment (a ghost), and what its client speaks.
* `BinaryCodec`: the packet format byte by byte, with a small `Base` for 256.
  Widths stay in proportion: a u16 is two bytes and wraps at `Base^2`, a string is
  cut at `Base^2 - 1` bytes, perhaps inside a two-byte character. The decoders
  are tables of fields read in order by `decode_fields`. The loops over the
  strings of a list, in the encoder and the decoder, and over the fields of a
  payload are recursive functions.
* `PacketStream`: a peer encodes messages, bytes move one by one into
  `receive_buffer`, and the loop of the binary sessions decodes and drains. The peer
  may also be of another version: more fields, fewer, an unknown type. `Outcome`
  is the reference: what a peer should see of a message. `IsMessage` says which
  records are messages, as the two enums do. `PacketBuffer` is the queue of packets
  that `BinarySession` takes the buffer for.
* `Grpc`: `calls` are unary calls, each at the await it is suspended in; `job` is
  the blocking send of a call, which outlives it; `stream` is a Subscribe stream
  with the receiver of `FrameBus`; `written` is a ghost, the frames `write_frame`
  returned Ok for. Other publishers there are the receive loops and the fake
  generator; Tx events of other transports are left out, since their sends are
  not in `written`. Hexadecimal text, the checks of
  `send_blocking` and the id ranges are modelled, since properties are about them.
* `Daemon`: `main` is the position in `main()`, `watcher` and `token` the Ctrl+C
  side, `server` the three tasks, `rx` the receive loops, `runtime` the tokio
  runtime, which is dropped when `main` returns and waits for started loops.

Operators with `Faulty` in their names are variants of the definition below
them with one plausible mistake. They are not part of any specification; with
one in place of the definition, the property it is meant for must fail.

### Not modelled

* Logging, timestamps, and JSON text (serde). Payloads and CAN ids occur in
  `Grpc` and `BinaryCodec` only; elsewhere an event is its interface and class.
* The comparison of one filter with one event (`frame_matches_filter`): a class
  stands for the id, FD flag and length it compares, a filter list for the set
  of classes it lets through. A filter's own `iface` field is therefore not seen.
* The routing of paths by axum, and tonic's and axum's own connection handling:
  library code that keeps no state of the daemon.
* The netlink exchange: only what a dump holds, and that it may fail.
* `iface_discovery_dummy.rs` and the socket cache of `SocketCanTx`: unused.
* Memory. The outgoing channel is unbounded in the code.
* Several sessions in one model. Sessions share the bus alone, and a broadcast
  receiver cannot see the others, so a product of sessions would show no
  interaction that `PublishOther` does not.

Blank lines and WebSocket Ping and Pong change nothing (Ping in the text
handshake ends it: `HandshakeFails`). A line and its newline are two writes in
the code and one `Write` here, since nothing happens between them. Serialisation
of the response types cannot fail. The `Closed` branch of the frame receiver
cannot be reached while a session holds the service.

## What TLC checks

| run | shows |
|---|---|
| `tcp_jsonl` | `KeepsContract`: the session implements `SessionContract`; `TypeOK`; `FramesAreSubscribed`; `ViewsAgree`: with no acknowledgement on its way, client and daemon agree on the subscription; `RepliesInOrder`; `SendAcksAreTrue`: the SendAck in place k says ok exactly when the port returned Ok for the frame of request k, whose Tx event is then already published; `RequestsAreAnswered`: every request is answered on the socket unless a write fails; `FramesAreDelivered`; `SessionEnds`; `DetachedWriterEnds` |
| `tcp_binary` | `KeepsContract`, `RequestsAreAnswered`, `SessionEnds`; `NoStrandedRequest` and `RequestsAreHandled`: no complete request waits for more bytes |
| `ws_jsonl` | `KeepsContract`, `SessionEnds`; with filters: `FilterViewsAgree`, `QuietFramesConform`, `FilteredFramesAreDelivered` |
| `ws_binary` | `KeepsContract`, `ViewsAgree`, `RequestsAreAnswered`, `SessionEnds`, `DetachedWriterEnds` |
| `tcp_accept` | `HeaderDecides`: a client whose first segment holds the magic header never gets a JSONL session, and a JSON client never a binary one; `SpeakersAreServed`: a silent client does not keep another from its session |
| `packet_stream` | `DecodedAsSent`: what is decoded is what was sent, up to what the encoder cuts, and an oversized field never shifts a later one; `ImplementsBuffer`: the bytes behave as the queue of packets `BinarySession` has; `NoPacketIsStuck` |
| `grpc` | `AcksAreTrue`: `ok` exactly when `write_frame` returned Ok for the call's frame; `TxEventsMatchBus`: a Tx event reads back as the frame written; `SilentOnlyIfDropped`: a frame without its event is one of a call the client gave up; `CallsEnd`; `EventsReachStream` |
| `daemon` | `OneReaderPerIface`; `RunsUntilInterrupted`; `InterruptEndsMain`: Ctrl+C is not lost, not even during start-up; `ExitsUnlessReceiving`; `RxSurvivesErrors` |

Four runs show places where a document or a message of the program says
something else than the code does:

| run | the code | the text |
|---|---|---|
| `ws_jsonl_torn` | during a Subscribe a frame may match the new interfaces and the old filters only | `README.md:13` |
| `ws_binary_batch` | a request in the same message as ClientHello waits for the next message | `docs/archs/app_design.md:1178` |
| `tcp_accept_greeting` | HelloAck waits for the client's first bytes | `docs/archs/tcp_transport_communication.md:48` |
| `daemon_ctrl_c` | once a CAN socket is open, the process stays after Ctrl+C: main returns, the runtime waits for the receive loops | `src/main.rs:155` |

The first is a race between two locks; `ws_jsonl` and its proof show that it is
confined to the time in which an acknowledgement is on its way.

### Observations without a run

Met while modelling; each is plain from a few lines of code or follows from what
the runs above show.

* Only the WebSocket text session has capture filters: `tcp_jsonl.rs:131` drops
  those of a Subscribe and answers Subscribed (`README.md:13` does not say so).
* A frame of a new subscription may be written before `subscribed`, and before
  HelloAck when a client sends ClientHello and Subscribe at once: the set
  changes before the reply is queued, and `select!` takes either. The contract
  says no more than that the acknowledgement is on its way.
  `test/test_can_bridge_tcp.py:113` expects the acknowledgement first.
* A magic header that arrives in two segments starts a JSONL session
  (`docs/user-guide.md:31` says it starts a binary one). `HeaderDecides` is what
  does hold.
* On an FD socket every received frame is published with `is_fd: true`, classic
  ones too (`socketcan_rx.rs:60`).
* A gRPC call dropped while its frame is being sent leaves the frame without a
  Tx event. Frames of concurrent gRPC calls may be echoed in another order than
  they were written in; `TxEventsMatchBus` therefore counts and does not order.
* A list or payload of n >= 65536 elements is encoded with its count wrapped; it
  is always the last field, so the peer decodes the first n - 65536 of them and
  ignores the rest. A string cut inside a character is refused by the peer.
* An address of the TCP, WebSocket or gRPC server that does not parse ends `main`
  with an error (`main.rs:105`, 122, 139), but with a CAN socket open the process
  stays, as after Ctrl+C. A second Ctrl+C has no effect.
* `docs/user-guide.md:250-263` gives a packet a prefix of 16 bytes: the magic and a
  header of 12 with a `reserved` field at its end. `encode_packet` and
  `decode_packet` use 12 bytes in all, the magic among them, and no `reserved`
  (`binary_message.rs:158`). `BinaryCodec` follows the code.

### Bounds

* `Ifaces`: one. A subscription is then empty or full, which suffices for frames
  that overtake or follow a change; that it suffices for the safety properties
  is not left to the instance, they are proved for any set. `ws_jsonl_torn` has two.
* `Classes`: two where filters matter, one elsewhere.
* `Cap`: one or two instead of 1024. One already gives lag on every second
  publication; two, in `tcp_jsonl`, gives lag with events left to read.
* `MaxStamp`: stamps saturate there and publication goes on, so the bus never
  falls silent. Order is checked below the bound; with three stamps and two
  places a receiver can read, lag and read again.
* `MaxReq`: replies owed per session, HelloAck included. With three, two
  changes of subscription, or a change and a send, overlap.
* `MaxChunk`: two packets per read, enough for a packet left behind another.
* `Conns`: two, one silent and one that speaks. `MagicLen` is the code's 4.
* `Base` 4: the smallest in which the four bytes of the magic differ and fourteen
  types fit a u16. Strings, lists and data are tried below, at and above the
  limit of 16. `MaxSent` 2: a packet and the one it could disturb.
* `Calls`: two, so that sends overlap. `SendFrameReqs`: one accepted request of each
  kind and one for each reason to refuse. The limits 8, 64, 0x7FF and 0x1FFFFFFF
  become 1, 2, 1 and 2, so that each can be exceeded.
* `Dumps`: no CAN-like link, two of them unsorted among others, and one listed
  twice with another in between.

Symmetry is used on interfaces, in a run without liveness only. Deadlock is
checked in the session runs and in `grpc`, where publication never stops. The
accept model stops once all clients have been served or the listener has
failed, the packet stream once the peer has no more to send, the daemon once
the process has exited.

### Fairness

* Reader steps are weakly fair: the runtime polls a task that can go on, the
  handshake timer fires, and the two ports return. The client's own steps are
  not fair: it may never send or close.
* `RecvReply`, `RecvClosed` and the two outcomes of the frame branch are each
  strongly fair. `tokio::select!` starts at a random branch, so a branch that
  is ready again and again is taken in the end.
* `Write` or `WriteFail` is weakly fair: the client reads, or the connection
  breaks. A client that keeps the connection and never reads holds its writer.
* In `TcpAccept` the loop and each connection are weakly fair, and so are the
  segments of a client that has begun to speak or is free to.

* In `Grpc` each call, each blocking job and the polling of the stream are weakly
  fair: the runtime polls what is ready, a socket write returns, the client reads
  its stream. Clients need not call, subscribe or cancel.
* In `Daemon` main, the watcher, the servers' reaction to the token, the drop of
  the runtime and the opening and retrying of each receive loop are weakly fair.
  Ctrl+C, failures and read errors are not.
* `PacketStream` has safety properties only; that a complete packet never waits
  is the invariant `NoPacketIsStuck`.

## What is proved

The proofs are in `SessionProofs`, which all sessions share, in `TcpJsonlProofs`
and `TransportProofs` (both binary sessions and the WebSocket text session), in
`CodecProofs` (one packet), `StreamProofs` (the stream of packets) and
`PacketProofs` (the two together), in `GrpcProofs`, and in `ServerProofs` (`Daemon`
and `TcpAccept`); TLAPS checks them. They assume only what the modules assume of
their constants:

* there is an interface and a class, the capacity and the last stamp are positive,
  and the numbers of requests and of packets per read and sent are natural numbers;
* a gRPC request has fields of the types of the protobuf message, a dump is a list
  of links, the magic number is not empty;
* `BaseAssumption`: a byte has at least four values (256 in the code);
* `MessagesAssumption`: what peers send are messages (`IsMessage`), and none is so
  long that its payload reaches `U32Values` bytes. There the `as u32` of
  `encode_packet` would wrap. Only a list of strings or a `data` of 4 GiB is that long.

They hold for any number of interfaces, connections and calls, any capacity, any
dump, any number of requests, any messages and any split of bytes into reads.

Every safety property that a passing run checks is also proved.

### Sessions

The safety properties are not inductive by themselves; `Inv` is. Its parts:

* `TypeInv`: `TypeOK`, and what the positions of the tasks say about what they
  hold: a pending transmission knows its frame, a reader that owes a reply has
  counted the request, a writer that checks holds a frame.
* `OrderInv`: last frame written < frame in hand < unread events, ascending,
  up to the bound of the stamps. It gives `FramesInOrder`.
* `ReplyInv`: the replies in the writer's hand and in the channel are numbered
  consecutively from `replied` to `owed`. It gives `RepliesInOrder`, and
  `NothingOwed` when both are empty.
* `ViewInv`: the set in force is the one of the newest subscription: the one in
  the reader's hands, or else `Newest`, the one of the *last* acknowledgement in
  the channel, else in the writer's hand, else the last the client was sent.
  `ViewsAgree` is the case in which none is under way.
* `FrameInv`: the frame the writer has let through is of an interface of some
  subscription in that chain. It stays true when the set changes, because the
  acknowledgement of the older set can only move towards the client and the
  writer cannot write it while it holds the frame.

`SessionProofs` proves that the writer, the service and the
other publishers keep `Inv` (`SharedInv`), and that a reader step of one of four
shapes does: answer at once (`AnswerInv`), move on without a reply (`MoveInv`),
take a request (`TakeInv`), give the reply owed (`OwedReplyInv`). A transport's
proof then only has to say which shape each of its actions has, and what it
adds to `Inv`:

Its last part does the same for the refinement. `SessionInv` is `Inv` and
`AskedInv` (a reader with no subscription in its hands has asked for none), and
`Kept` is `[C!Next]_(C!vars)`. Each lemma on a shape of step, `AnswerStep`,
`MoveStep`, `TakeStep`, `OwedReplyStep`, `SharedStep`, shows that the step keeps
`SessionInv` and maps to a step of the contract or to a stutter: taking a request
to `TakeRequest`, queueing a reply to `Decide`, a completed write to `DeliverReply`
or `DeliverFrame`, the check of a frame to `StartFrame`. That the frame is
`Announced` is `FrameInv`; that a delivered reply is the next is `ReplyInv`; that
the order of frames is kept is `OrderInv`; that the writer ends owing nothing
is `ReplyInv` again. Once a write has failed, steps map to `Unheard`.

`SendAcksAreTrue` is about acknowledgements the client has read, and needs the same
of those under way (`SendInv` in `TcpJsonlProofs`). `AcksTrue`: what was
acknowledged, or is in the channel or in the writer's hand, is true, and its
request is `Past`: the service no longer works on it. `CallTrue`: the call at work
is for the newest request, no frame was accepted for it before its port call, only
its own while it is published, and its finished answer is true. An answer, once
true, stays true because a frame is accepted for the newest request only. That the
acknowledgement the client counts as the k-th reply answers request k is `ReplyInv`.

| module | adds to `Inv` | proves |
|---|---|---|
| `TcpJsonlProofs` | `SendInv` | `KeepsContract`, `SendAcksAreTrue`, `TypeOK`, `FramesAreSubscribed`, `ViewsAgree`, `FramesInOrder`, `RepliesInOrder`, `NothingOwed` |
| `TransportProofs`, TCP binary | the buffer holds packets, and `DrainedInv`: a reader that waits for bytes has none left to decode | `KeepsContract`, `TypeOKBuffer`, `FramesAreSubscribed`, `ViewsAgree`, `RepliesInOrder`, `NothingOwed`, `NoStrandedRequest` |
| `TransportProofs`, WebSocket binary | the buffer holds packets | `KeepsContract`, `TypeOKBuffer`, `FramesAreSubscribed`, `ViewsAgree`, `RepliesInOrder`, `NothingOwed` |
| `TransportProofs`, WebSocket JSONL | `FilterInv`: the filters in force are those of `Newest`, or of the subscription in the reader's hands once it has replaced them; `ConformInv`: with no acknowledgement on its way, the frame in hand matches, after each of the two looks, that half of what the client was told | `KeepsContract`, `FiltersTypeOK`, `FramesAreSubscribed`, `FilterViewsAgree`, `QuietFramesConform`, `RepliesInOrder`, `NothingOwed` |

`InvImplies` gives `FramesInOrder`, `RepliesInOrder`, `NothingOwed` and `ViewsAgree`
for every session. `KeepsContract` implies the first three of each; only
`RepliesInOrder` is also an invariant of a run, `tcp_jsonl`, where it fails at the
state in which a reply is out of place and `SendAcksAreTrue` rests on it.

### Packets

`CodecProofs` is about one packet and goes up the layers of the codec.

* What `put_u16`, `put_u32`, `put_u64`, `put_bool`, `put_string` and `put_data` write,
  the `get_` functions return, and leave what follows (`GetU64`, `GetString`, ...).
* `WrittenRec`, `ReadStringsRec` and `ReadFieldsRec` unfold the three recursive
  functions. TLA+ defines such a function by CHOOSE, so a function that satisfies
  the equation must be given first: for a list that is written it is built up by
  induction, for what is read it is given in closed form, by the part already read
  and the bytes left. Induction is stated for a set of numbers and not for an
  operator, which lets the provers use it. The lemmas of `CodecProofs` assume it
  (`NatInductive`), `StreamProofs` proves it (`Induction`), `PacketProofs` discharges it.
* `FieldBack`: a field of each kind comes back as `Kept` says. Only lists and data
  may leave bytes of their own behind, when a count has wrapped. `FieldShort`:
  without its last byte a field is an error.
* `Shape`: the payload of each of the fourteen types is its fields one after the
  other, lists and data last. So a wrapped count cannot shift a later field.
* `ReadsBack`, in `PacketProofs` the theorem `PayloadRoundTrip`: a payload decodes to
  `Outcome`, whatever follows it.
* `Behaves`, of `PacketStream`, sums up what the stream needs of a packet: no proper
  prefix of it decodes to anything, and with its last byte it decodes, whatever
  follows, to the message it stands for and its own length, or to an error.
  `EncodeBehaves`, `ExtendedBehaves`, `TruncatedBehaves`, `UnknownBehaves` and
  `OtherMagicBehaves` show it of everything a peer sends.

`StreamProofs` is about the stream. It uses of the codec only that whatever the peer
sends behaves (`PeerBehaves`, shown by `PeerSends` in `PacketProofs`), so the two can
be read and checked apart. Its inductive invariant `IInv` is `Typed` and
`Framed`: the messages decoded are those of the first packets sent; ends of packets
are at least a header apart; `receive_buffer` followed by `wire` has exactly the
bytes of the packets not decoded yet; and each of these packets, cut out of it,
behaves. `DecodedAsSent` says nothing of the bytes still under way and is not
inductive without the last two parts. The proof of a step:

* sending appends a packet that behaves and changes no slice before it (`SendIInv`);
* reading moves a byte from `wire` to `receive_buffer`, and the two together stay
  the same (`ReadIInv`);
* decoding is decided by `DecodeStep`: the buffer either is a proper prefix of the
  next packet, and decodes to nothing, or starts with all of it, and decodes to
  what it holds; what is left are the packets after it (`DecodeIInv`).

`NoPacketIsStuck` is the first case of `DecodeStep`. For `ImplementsBuffer` the queue of
`PacketBuffer` is the list of packets from the first that is not decoded to `Last`,
the last that has arrived in full; `LastIs` shows that there is exactly one such
packet. Sending leaves the queue as it is (`SendHides`), a byte completes at most
the next packet, because ends differ (`ReadArrives`), and decoding takes the first
packet of the queue (`DecodeTakes`).

### gRPC

`GrpcProofs` has two invariants.

* `CallInv` relates three things that change apart: a call, which its client may
  drop at an await, the job on the blocking thread, which goes on, and the frames
  written. `JobsMatchCalls`: only a send has a job, a send that was answered
  has the answer of its finished job, and the echoed calls are those answered
  with success. `BusMatchesJobs`: the frames written are those of the jobs that
  sent, each built from the call's own request and data. It gives `AcksAreTrue` and
  `SilentOnlyIfDropped`.
* `StreamInv` gives `TxEventsMatchBus`, which counts and so is far from inductive:
  events wait in a buffer that overwrites, are skipped or shown, and streams come
  and go. `SourcesInv` says where each call's event *is*: a function from calls
  to a position in `unread`, minus a position in `shown`, or 0 when the event is
  lost; every Tx event has a call there whose request and data it carries. A call
  has one place, so two events never share a call, and the map from shown events to
  written frames is an injection (`SourcesWritten`).

That the data of an event read back as the bytes sent is `HexRoundTrip`:
`hex_to_bytes(hex_lower(d))` is `d` for every list of bytes `d`.

### Start, shutdown and accept

* `OneReaderPerIface` rests on `ListCanIfaces`: for every dump, what
  `list_can_ifaces` returns is strictly ascending and has exactly the CAN-like
  links of the dump. `NthLists` shows that `Nth` lists a finite set of positions
  in a strict order, each once, `SortOrders` that a sorted list ascends,
  `DedupOrdered` that `dedup` of an ascending list ascends strictly and loses no
  element. The invariant `RxOfDump` carries it through the life of the loops.
* `RunsUntilInterrupted` needs that only the signal cancels the token
  (`InterruptInv`).
* `HeaderDecides` needs that a session begins only with bytes to look at or after
  the client closed, and that the first segment is part of what arrived
  (`AcceptInv`).

The lemmas on lists need induction. The library's induction theorems take an operator
as a parameter, which the provers do not instantiate; the lemmas use instead
that a set of numbers has a least element (`NatMin`, from the well-foundedness of
`<`), on the set of counterexamples.

### Only model-checked

* Every liveness property: fairness and ENABLED are beyond the prover.
* The violations, which are single behaviours.
