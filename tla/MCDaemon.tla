------------------------------ MODULE MCDaemon ------------------------------
(* Netlink dumps for TLC: names 1 and 2 are CAN-like, 0 is not.            *)
EXTENDS Daemon

MCDumps == {<<0>>, <<2, 0, 1>>, <<1, 2, 1>>}
MCCanLike == {1, 2}
=============================================================================
