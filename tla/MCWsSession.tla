------------------------------ MODULE MCWsSession ------------------------------
(* WsSession for TLC: the frames a peer sends are few, but one of each kind. *)
EXTENDS WsSession

Frame(op, len) == [op |-> op, masked |-> TRUE, rsv |-> FALSE, len |-> len]

MCHeaders ==
  {Frame("data", 0), Frame("data", 3), Frame("close", 0), Frame("ping", 1)}
  \cup {[Frame("data", 1) EXCEPT !.rsv = TRUE], [Frame("data", 3) EXCEPT !.masked = FALSE]}
===============================================================================
