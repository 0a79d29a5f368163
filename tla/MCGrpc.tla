------------------------------- MODULE MCGrpc -------------------------------
(* send_frame requests for TLC: two the port accepts and one for each      *)
(* reason to refuse one.                                                   *)
EXTENDS Grpc

\* A classic frame with a standard id, written with a blank and a capital.
Plain == [iface |-> CHOOSE i \in Ifaces : TRUE, id |-> MaxStd, is_fd |-> FALSE, brs |-> FALSE, esi |-> FALSE,
          data_hex |-> <<"A", " ", "0">>]

MCReqs ==
    {Plain,
     [Plain EXCEPT !.id = MaxExt, !.is_fd = TRUE, !.brs = TRUE, !.data_hex = <<"0", "a", "a", "a">>],
     [Plain EXCEPT !.data_hex = <<"a">>],
     [Plain EXCEPT !.data_hex = <<"a", "g">>],
     [Plain EXCEPT !.data_hex = <<"0", "a", "a", "a">>],
     [Plain EXCEPT !.is_fd = TRUE, !.data_hex = <<"0", "0", "0", "0", "0", "0">>],
     [Plain EXCEPT !.esi = TRUE],
     [Plain EXCEPT !.id = MaxExt + 1]}

MCClasses ==
    {TxEvent(req, hex_to_bytes(req.data_hex).data) : req \in MCReqs} \cup {[dir |-> "rx", id |-> 0, is_fd |-> FALSE, data |-> <<>>]}
=============================================================================
