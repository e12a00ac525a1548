------------------------------ MODULE HttpContent ------------------------------
(***************************************************************************)
(* What an HTTP message holds (struct _fpx_http_content) and what the      *)
(* functions of src/src/networking/http/http.c do with it.                 *)
(*                                                                         *)
(* Text is abstracted to its parts: the headers are a list, in order, the  *)
(* body is a number of bytes.  The two buffers are kept as the code keeps  *)
(* them, pointer, length and allocated size, next to the size the block    *)
(* really has, so that an access outside of it can be told.  Headers and   *)
(* bodies are counted in units of which a block has Block.                 *)
(***************************************************************************)
EXTENDS Integers, Sequences, FiniteSets, TLC

CONSTANTS
  Block,      \* HTTP_DATA_ALLOC_BLOCK_SIZE
  Lines       \* what is found in each header: a function of the headers in use

(***************************************************************************)
(* key, value: before and behind the first colon, value without spaces in  *)
(* front.  number: what fpx_strint makes of the value.  within: the keys   *)
(* that are found in the middle of the line, because its own key ends like *)
(* them or its value contains them and a colon.                            *)
(***************************************************************************)
ASSUME BlockAssumption == Block \in Nat \ {0}
ASSUME LinesAssumption ==
  \A h \in DOMAIN Lines :
    Lines[h] \in [key : STRING, value : STRING, number : Int, within : SUBSET STRING]

\* size: what the block at ptr really has.  wrong: the first access that missed
\* it, "lost" when its address was overwritten, or "no".
Wrongs   == {"no", "null", "freed", "overflow", "lost"}
Buffers  == [ptr : {"null", "live", "freed"}, size : Nat, len : Nat, allocated : Nat,
             wrong : Wrongs]
NoBuffer == [ptr |-> "null", size |-> 0, len |-> 0, allocated |-> 0, wrong |-> "no"]

\* fpx_httprequest_init and fpx_httpresponse_init.
NoContent == [list |-> <<>>, headers |-> NoBuffer, body |-> NoBuffer]

\* Lines, evaluated once, with all the keys that are found in a line.
Parts ==
  [h \in DOMAIN Lines |-> [key |-> Lines[h].key, value |-> Lines[h].value,
                           number |-> Lines[h].number,
                           seen |-> {Lines[h].key} \cup Lines[h].within]]

\* The header of this key and value.
Line(key, value) ==
  CHOOSE h \in DOMAIN Lines : Lines[h].key = key /\ Lines[h].value = value

-----------------------------------------------------------------------------
(* Room in a buffer. *)

\* Mutant: the room for what is there already is forgotten.
AllocCalcNew(len, n) == Block * ((n + Block - 1) \div Block)

\* FPX_ALLOC_CALC.
AllocCalc(len, n) == Block * ((len + n + Block - 1) \div Block)

\* n units are written at the end of buffer b, whose block has room for them or not.
Written(b, n) ==
  [b EXCEPT !.len = @ + n,
            !.wrong = IF b.ptr = "freed" THEN "freed"
                      ELSE IF b.len + n > b.size THEN "overflow" ELSE @]

\* A block that is refused leaves NULL; the old one is nobody's then.
Refused(b) ==
  [b EXCEPT !.ptr = "null", !.size = 0,
            !.wrong = CASE b.ptr = "null"  -> @
                        [] b.ptr = "freed" -> "freed"
                        [] b.ptr = "live"  -> "lost"]

\* The block of buffer b, whose allocated size is to be "to", is allocated, moved,
\* or left as it is.
Resized(b, to, n, granted) ==
  CASE b.allocated # 0 /\ to <= b.allocated -> Written([b EXCEPT !.allocated = to], n)
    [] b.allocated = 0 \/ to > b.allocated ->
         IF ~granted THEN Refused(b)
         ELSE [Written([b EXCEPT !.size = to, !.allocated = to], n) EXCEPT !.ptr = "live"]

\* n units are added to buffer b.  The size is calculated before a NULL pointer
\* resets the length.
Extend(b, n, granted) ==
  Resized(IF b.ptr = "null" THEN [b EXCEPT !.len = 0, !.allocated = 0] ELSE b,
          AllocCalc(b.len, n), n, granted)

-----------------------------------------------------------------------------
(* The functions. *)

\* What is left of a list of headers when their buffer has become b by adding h.
Listed(hs, b, h) ==
  CASE b.ptr = "null"               -> <<>>
    [] b.ptr # "null" /\ b.len = 1  -> <<h>>
    [] OTHER                        -> Append(hs, h)

\* _add_http_header.
WithHeaders(c, b, h) == [c EXCEPT !.headers = b, !.list = Listed(@, b, h)]
AddHeader(c, h, granted) == WithHeaders(c, Extend(c.headers, 1, granted), h)

\* Headers that are added one after the other, one of them without room ...
AddHeaders(c, hs, refused) ==
  LET added[i \in 0 .. Len(hs)] ==
        IF i = 0 THEN c ELSE AddHeader(added[i - 1], hs[i], i # refused)
  IN  added[Len(hs)]

\* ... which is the last one where the result is looked at.
NewHeaders(hs, refused) ==
  AddHeaders(NoContent, IF refused \in DOMAIN hs THEN SubSeq(hs, 1, refused) ELSE hs, refused)

\* What is read of a key at a place where it is found, which is not a header of
\* this key when it is not at the start of a line.
Unfound == [ret |-> "missing", value |-> "none", number |-> 0]
ReadAt(line, key) ==
  IF line.key = key THEN [ret |-> "found", value |-> line.value, number |-> line.number]
  ELSE [Unfound EXCEPT !.ret = "hidden"]

\* The first place where the key and a colon are found in a list of headers.
FirstOf(S) == CHOOSE i \in S : \A j \in S : i <= j
ReadFirst(hs, places, key) ==
  IF places = {} THEN Unfound ELSE ReadAt(Parts[hs[FirstOf(places)]], key)
Lookup(hs, key) == ReadFirst(hs, {i \in DOMAIN hs : key \in Parts[hs[i]].seen}, key)

\* _get_http_header.
GetHeader(c, key) ==
  Lookup(IF c.headers.ptr = "null" \/ c.headers.len = 0 THEN <<>> ELSE c.list, key)

\* _append_http_body.
AppendBody(c, n, granted) ==
  IF n = 0 THEN c ELSE [c EXCEPT !.body = Extend(@, n, granted)]

\* _copy_http_content into a message that is not used yet.  A block that is
\* refused ends it: what was copied behind it still are the source's pointers.
Own(b)    == IF b.allocated > 0 THEN [b EXCEPT !.ptr = "live", !.size = b.allocated] ELSE b
NotOwn(b) == IF b.allocated > 0 THEN [b EXCEPT !.ptr = "null", !.size = 0] ELSE b
CopyContent(src, refused) ==
  [src EXCEPT !.headers = IF refused = "headers" THEN NotOwn(@) ELSE Own(@),
              !.body = CASE refused = "no"      -> Own(@)
                         [] refused = "body"    -> NotOwn(@)
                         [] refused = "headers" -> @]

\* A buffer is cleared and freed when its allocated size says so; neither
\* that size nor the pointer is reset.
Freed(b) ==
  IF b.allocated = 0 THEN b
  ELSE [b EXCEPT !.ptr = "freed", !.len = 0,
                 !.wrong = IF b.ptr = "freed" THEN "freed"
                           ELSE IF b.ptr = "null" /\ b.len > 0 THEN "null" ELSE @]

\* _destroy_http_content.
Destroy(c) == [c EXCEPT !.body = Freed(@), !.headers = Freed(@), !.list = <<>>]

\* A block of the message is still allocated, or its address was lost.
Leaks(c) == \E b \in {c.headers, c.body} : b.ptr = "live" \/ b.wrong = "lost"

\* Of what went wrong with a message, what ends the program, or "no".
Broken(c) ==
  IF c.body.wrong \notin {"no", "lost"} THEN c.body.wrong
  ELSE IF c.headers.wrong = "lost" THEN "no" ELSE c.headers.wrong
=============================================================================
