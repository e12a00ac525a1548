----------------------------- MODULE MCHttpServer -----------------------------
(* HttpServer for TLC: descriptors are interchangeable model values. *)
EXTENDS HttpServer, TLC

FdSymmetry == Permutations(Fds)

(***************************************************************************)
(* EveryMessageRead for one descriptor, which is as good as for all: no    *)
(* step and no initial state tells one descriptor from another, so what    *)
(* can be done to any of them can be done to this one.                     *)
(***************************************************************************)
Watched == CHOOSE fd \in Fds : TRUE
WatchedMessagesRead == MessagesRead(Watched)
===============================================================================
