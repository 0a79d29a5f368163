------------------------------- MODULE Daemon -------------------------------
(***************************************************************************)
(* The life of the process (main.rs): start-up in main, the Ctrl+C watcher,*)
(* one blocking receive loop per discovered interface (socketcan_rx.rs),   *)
(* the fake generator, the three server tasks, and what happens once main  *)
(* has returned.  main runs on one thread while tasks and blocking threads *)
(* run on others, so a step of any of them may come between two of main's. *)
(*                                                                         *)
(* #[tokio::main] drops the runtime after main returned: tasks are dropped,*)
(* blocking work that did not start is discarded, and blocking work that   *)
(* did start is waited for, without a limit.                               *)
(*                                                                         *)
(* Link names are numbers in the order of the strings.  What the receive   *)
(* loops and the generator publish is seen by sessions as PublishOther.    *)
(***************************************************************************)
EXTENDS Lists

CONSTANTS
    Dumps,      \* what netlink may list: sequences of link names
    CanLike     \* the names that start with can, vcan or slcan

ASSUME DaemonAssumption == \A links \in Dumps : links \in Seq(Int)

Servers == {"tcp", "ws", "grpc"}

VARIABLES
    main,       \* where main is
    watcher,    \* the Ctrl+C task: none, spawned, waiting, done, failed
    pending,    \* SIGINT was delivered to the handler and not yet taken
    token,      \* the shutdown token is cancelled
    dump,       \* ghost: what netlink listed
    rx,         \* the receive loops: interface and state
    fake,       \* the generator's task runs
    server,     \* state of each server task
    runtime,    \* "up", "dropping", "exited" or "killed"
    interrupted \* ghost: Ctrl+C was pressed

vars == <<main, watcher, pending, token, dump, rx, fake, server, runtime, interrupted>>

Init ==
    /\ main = "start" /\ watcher = "none" /\ pending = FALSE /\ token = FALSE
    /\ dump = <<>> /\ rx = <<>> /\ fake = FALSE
    /\ server = [s \in Servers |-> "none"]
    /\ runtime = "up" /\ interrupted = FALSE
-----------------------------------------------------------------------------
(* Discovery (iface_discovery_netlink.rs).                                 *)

CanLinks(links) == filter(links, {k \in DOMAIN links : links[k] \in CanLike})

\* Faulty variant: not sorted before dedup.
FaultyListCanIfaces(links) == dedup(CanLinks(links))

list_can_ifaces(links) == dedup(sort(CanLinks(links)))
-----------------------------------------------------------------------------
(* main.                                                                   *)

Main(at, next) == runtime = "up" /\ main = at /\ main' = next

spawn_watcher ==
    /\ Main("start", "discover")
    /\ watcher' = "spawned"
    /\ UNCHANGED <<pending, token, dump, rx, fake, server, runtime, interrupted>>

\* An error of the discovery is logged and counts as no interfaces; every
\* interface gets a blocking receive loop (start_socketcan_rx).
discover ==
    /\ Main("discover", "fake")
    /\ \E links \in Dumps \cup {<<>>} :
          /\ dump' = links
          /\ rx' = [k \in DOMAIN list_can_ifaces(links) |->
                        [iface |-> list_can_ifaces(links)[k], st |-> "queued"]]
    /\ UNCHANGED <<watcher, pending, token, fake, server, runtime, interrupted>>

\* --fake; without interfaces start_fake_generator returns at once.
start_fake_generator ==
    /\ Main("fake", "tcp")
    /\ fake' \in {FALSE, rx # <<>>}
    /\ UNCHANGED <<watcher, pending, token, dump, rx, server, runtime, interrupted>>

\* bind.parse()? and the spawn of the server's task, one server after another.
After(s) == CASE s = "tcp" -> "ws" [] s = "ws" -> "grpc" [] s = "grpc" -> "running"

spawn_server(s) ==
    /\ Main(s, After(s))
    /\ server' = [server EXCEPT ![s] = "starting"]
    /\ UNCHANGED <<watcher, pending, token, dump, rx, fake, runtime, interrupted>>

bad_address(s) ==
    /\ Main(s, "error")
    /\ UNCHANGED <<watcher, pending, token, dump, rx, fake, server, runtime, interrupted>>

\* shutdown.cancelled().await, then the aborts.
shutdown ==
    /\ Main("running", "ok")
    /\ token
    /\ server' = [s \in DOMAIN server |-> IF server[s] = "failed" THEN "failed" ELSE "stopped"]
    /\ UNCHANGED <<watcher, pending, token, dump, rx, fake, runtime, interrupted>>

Returned == main \in {"ok", "error"}

\* The process has a handler for SIGINT.
Installed == watcher \in {"waiting", "done"}

\* The runtime is dropped, with every task; a loop that did not start never will.
drop_runtime ==
    /\ runtime = "up" /\ Returned
    /\ runtime' = "dropping"
    /\ watcher' = (IF Installed THEN "done" ELSE "failed") /\ fake' = FALSE
    /\ server' = [s \in DOMAIN server |-> IF server[s] \in {"starting", "listening"} THEN "stopped" ELSE server[s]]
    /\ rx' = [k \in DOMAIN rx |-> IF rx[k].st = "queued" THEN [rx[k] EXCEPT !.st = "ended"] ELSE rx[k]]
    /\ UNCHANGED <<main, pending, token, dump, interrupted>>

\* Faulty variant: every server is expected to have been stopped.
FaultyExit ==
    /\ runtime = "dropping"
    /\ \A k \in DOMAIN rx : rx[k].st = "ended"
    /\ \A s \in DOMAIN server : server[s] = "stopped"
    /\ runtime' = "exited"
    /\ UNCHANGED <<main, watcher, pending, token, dump, rx, fake, server, interrupted>>

exit ==
    /\ runtime = "dropping"
    /\ \A k \in DOMAIN rx : rx[k].st = "ended"
    /\ runtime' = "exited"
    /\ UNCHANGED <<main, watcher, pending, token, dump, rx, fake, server, interrupted>>
-----------------------------------------------------------------------------
(* Ctrl+C.                                                                 *)

\* ctrl_c() installs the handler when it is first polled; if that fails the
\* watcher ends and SIGINT keeps its default action.
install_handler ==
    /\ runtime = "up" /\ watcher = "spawned"
    /\ watcher' \in {"waiting", "failed"}
    /\ UNCHANGED <<main, pending, token, dump, rx, fake, server, runtime, interrupted>>

\* SIGINT: without a handler it kills the process.  The handler stays when
\* the watcher and the runtime are gone; nobody looks at it then.
ctrl_c ==
    /\ runtime \in {"up", "dropping"}
    /\ interrupted' = TRUE
    /\ IF Installed THEN pending' = (watcher = "waiting") /\ UNCHANGED runtime
                    ELSE runtime' = "killed" /\ UNCHANGED pending
    /\ UNCHANGED <<main, watcher, token, dump, rx, fake, server>>

\* Faulty variant: main is told only if it waits already.
FaultyCancel ==
    /\ runtime = "up" /\ watcher = "waiting" /\ pending
    /\ token' = (main = "running") /\ watcher' = "done" /\ pending' = FALSE
    /\ UNCHANGED <<main, dump, rx, fake, server, runtime, interrupted>>

cancel ==
    /\ runtime = "up" /\ watcher = "waiting" /\ pending
    /\ token' = TRUE /\ watcher' = "done" /\ pending' = FALSE
    /\ UNCHANGED <<main, dump, rx, fake, server, runtime, interrupted>>
-----------------------------------------------------------------------------
(* The server tasks: select! of run() and the token.                       *)

Server(s, from, to) ==
    /\ runtime = "up" /\ server[s] \in from
    /\ server' = [server EXCEPT ![s] = to]

bind(s) ==
    /\ Server(s, {"starting"}, "listening")
    /\ UNCHANGED <<main, watcher, pending, token, dump, rx, fake, runtime, interrupted>>

\* Faulty variant: a server that ends takes the others with it.
FaultyRunError(s) ==
    /\ Server(s, {"starting", "listening"}, "failed")
    /\ token' = TRUE
    /\ UNCHANGED <<main, watcher, pending, dump, rx, fake, runtime, interrupted>>

\* bind, accept or serve fails: logged, and only this server is gone.
run_error(s) ==
    /\ Server(s, {"starting", "listening"}, "failed")
    /\ UNCHANGED <<main, watcher, pending, token, dump, rx, fake, runtime, interrupted>>

cancelled(s) ==
    /\ token
    /\ Server(s, {"starting", "listening"}, "stopped")
    /\ UNCHANGED <<main, watcher, pending, token, dump, rx, fake, runtime, interrupted>>
-----------------------------------------------------------------------------
(* The receive loops (run_one_iface_rx_blocking): started once a blocking  *)
(* thread is free, whether or not main has gone on.                        *)

Loop(k, from, to) ==
    /\ runtime \in {"up", "dropping"} /\ rx[k].st = from
    /\ rx' = [rx EXCEPT ![k].st = to]
    /\ UNCHANGED <<main, watcher, pending, token, dump, fake, server, runtime, interrupted>>

open_fd(k) == Loop(k, "queued", "fd")
fall_back(k) == Loop(k, "queued", "fallback")
open_classic(k) == Loop(k, "fallback", "classic")
rx_disabled(k) == Loop(k, "fallback", "ended")

\* A read error: sleep, then read on.  Neither loop ever ends.
read_error(k) == Loop(k, "fd", "fd_sleep") \/ Loop(k, "classic", "classic_sleep")

\* Faulty variant: a read error ends the loop.
FaultyRetry(k) == Loop(k, "fd_sleep", "ended") \/ Loop(k, "classic_sleep", "ended")

retry(k) == Loop(k, "fd_sleep", "fd") \/ Loop(k, "classic_sleep", "classic")

Open(k)      == open_fd(k) \/ fall_back(k) \/ open_classic(k) \/ rx_disabled(k)
MainStep     == spawn_watcher \/ discover \/ start_fake_generator \/ shutdown
                  \/ \E s \in DOMAIN server : spawn_server(s) \/ bad_address(s)
ServerStep(s) == bind(s) \/ run_error(s) \/ cancelled(s)

Next ==
    \/ MainStep \/ drop_runtime \/ exit
    \/ install_handler \/ ctrl_c \/ cancel
    \/ \E s \in DOMAIN server : ServerStep(s)
    \/ \E k \in DOMAIN rx : Open(k) \/ read_error(k) \/ retry(k)

\* Every thread and task is scheduled, discovery answers, and opening a socket
\* does not hang.  Reads may wait for ever, servers need not fail.
Fairness ==
    /\ WF_vars(MainStep) /\ WF_vars(drop_runtime) /\ WF_vars(exit)
    /\ WF_vars(install_handler) /\ WF_vars(cancel)
    /\ \A s \in Servers : WF_vars(cancelled(s))
    /\ \A k \in 1..Cardinality(CanLike) : WF_vars(k \in DOMAIN rx /\ (Open(k) \/ retry(k)))

Spec == Init /\ [][Next]_vars /\ Fairness
-----------------------------------------------------------------------------
(* Every CAN-like link netlink lists, in whatever order and however often, *)
(* has one receive loop; nothing else has one.  Two loops on an interface  *)
(* would publish every frame twice (list_can_ifaces sorts before dedup,    *)
(* start_socketcan_rx).                                                    *)
OneReaderPerIface ==
    \A n \in Range(dump) :
        Cardinality({k \in DOMAIN rx : rx[k].iface = n}) = (IF n \in CanLike THEN 1 ELSE 0)

(* The failure of one server stops nothing else: main returns and servers  *)
(* are stopped only after Ctrl+C, or because an address did not parse (the *)
(* three select! tasks of main.rs).                                        *)
RunsUntilInterrupted ==
    (main = "ok" \/ \E s \in DOMAIN server : server[s] = "stopped") => interrupted \/ main = "error"

(* Ctrl+C is never lost, not even during start-up, when nobody waits for   *)
(* the token yet and servers are spawned after it was cancelled: main      *)
(* returns and no server is left, or the signal killed the process         *)
(* (main.rs: the watcher, the token, the servers' select!).                *)
Serving(s) == server[s] \in {"starting", "listening"}

InterruptEndsMain ==
    interrupted ~> (runtime = "killed" \/ (Returned /\ \A s \in Servers : ~Serving(s)))

(* Once main has returned, after Ctrl+C or with an error, the process      *)
(* exits unless a receive loop is at work: servers, sessions, the          *)
(* generator and loops that could not start or open their socket do not    *)
(* keep it (main.rs, the drop of the runtime).                             *)
Receiving == \E k \in DOMAIN rx : rx[k].st \in {"fd", "classic", "fd_sleep", "classic_sleep"}

ExitsUnlessReceiving == Returned ~> (runtime \in {"exited", "killed"} \/ Receiving)

(* A receive loop survives read errors: it reads on after each             *)
(* ("On read errors we keep retrying", socketcan_rx.rs).                   *)
Asleep(n)  == \E k \in DOMAIN rx : rx[k].iface = n /\ rx[k].st \in {"fd_sleep", "classic_sleep"}
Reading(n) == \E k \in DOMAIN rx : rx[k].iface = n /\ rx[k].st \in {"fd", "classic"}

RxSurvivesErrors == \A n \in CanLike : Asleep(n) ~> (Reading(n) \/ runtime = "killed")

(* "daemon running (terminate with Ctrl+C)" (main.rs): once the daemon     *)
(* runs, Ctrl+C ends the process.                                          *)
CtrlCTerminates == (main = "running" /\ interrupted) ~> runtime \in {"exited", "killed"}
=============================================================================
