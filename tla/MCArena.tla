-------------------------------- MODULE MCArena --------------------------------
(* Arena for TLC: a small range, a page of three regions, small requests. *)
EXTENDS Arena
===============================================================================
