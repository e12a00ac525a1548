------------------------------- MODULE Allocator -------------------------------
(***************************************************************************)
(* What an arena promises, with no regions: Size bytes, of which each      *)
(* allocation hands out a range that overlaps no range still in use, until *)
(* the program frees it.  An allocation may always be refused.             *)
(***************************************************************************)
EXTENDS Integers

CONSTANT Size

VARIABLE live   \* the blocks the program holds

Block == [at : 0 .. Size - 1, len : 1 .. Size]

EndOf(b) == b.at + b.len

Apart(b, c) == EndOf(b) <= c.at \/ EndOf(c) <= b.at

Init == live = {}

Alloc(b) ==
  /\ EndOf(b) <= Size
  /\ \A c \in live : Apart(b, c)
  /\ live' = live \cup {b}

Free(b) == live' = live \ {b}

Next == \/ \E b \in Block : Alloc(b)
        \/ \E b \in live : Free(b)

Spec == Init /\ [][Next]_live
===============================================================================
