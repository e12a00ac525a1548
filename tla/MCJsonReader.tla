----------------------------- MODULE MCJsonReader -----------------------------
(* JsonReader for TLC, with the grammar it is compared with. *)
EXTENDS JsonGrammar
===============================================================================
