---- MODULE MCWsJsonl ----
(* Instances of WsJsonl for TLC. *)
EXTENDS WsJsonl, TLC

Symmetry == Permutations(Ifaces)
====
