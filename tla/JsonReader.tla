------------------------------ MODULE JsonReader ------------------------------
(***************************************************************************)
(* fpx_json_read and fpx_json_destroy (src/src/serialize/json.c).          *)
(*                                                                         *)
(* The reader goes over a document twice with the same functions: a dry    *)
(* run that adds up what the tree needs, and a real one that builds the    *)
(* tree in an arena of that size.  The recursion of the C functions is a   *)
(* stack of frames, one per open object or array; a frame owns the         *)
(* temporary array its members are collected in.  One step reads one token *)
(* with all that follows it up to the next one.                            *)
(*                                                                         *)
(* The document is not chosen in advance: the dry run chooses a token each *)
(* time it looks at a new one, the real run finds the same ones again.     *)
(* White space between tokens is skipped everywhere and left out.          *)
(*                                                                         *)
(* The document has limit tokens, but nothing keeps the reader from going  *)
(* on behind it: most of its functions look at the next byte before, or    *)
(* instead of, comparing their position with the end.  What lies there is  *)
(* whatever the caller has behind its document, the same in both runs.     *)
(***************************************************************************)
EXTENDS Integers, Sequences

CONSTANTS
  ValueSize, MemberSize,  \* sizeof(Fpx_Json_Value), sizeof(Fpx_Json_Member)
  TextSize,               \* what a non-empty string takes, its NUL included
  Increment,              \* member_increment and value_increment
  CapRange,               \* 2^16, the values of member_capacity and value_capacity
  MaxTokens, MaxDepth     \* bounds: of the document, of its nesting

(***************************************************************************)
(* "word":  true, false, null, or what strtod takes for a number with      *)
(*          something behind it in the document (a lone - included).       *)
(* "text", "empty":  a string with and without characters in it.           *)
(* "other": what begins none of these, or a string with half an escape.    *)
(* The end of the document may cut its last token short:                   *)
(* "last":  a number that goes up to it.                                   *)
(* "cut":   the beginning of null, with the rest of it behind.             *)
(* "open":  a string whose end is not found.                               *)
(* "open quote", "open past":  a string whose closing quote is the first   *)
(*          or the second byte behind the document.                        *)
(***************************************************************************)
Literals == {"word", "cut"}
Strings  == {"text", "empty", "open quote", "open past"}
CutShort == {"last", "cut", "open", "open quote", "open past"}
Tokens   == {"{", "}", "[", "]", ",", ":", "other"} \cup Literals \cup Strings \cup CutShort

\* What is told apart behind the document; there a word is null.  The rest of
\* null, and what follows the second quote, belong to a token of the document.
Beyond == {"}", "]", ",", ":", "[", "word", "other"}

ASSUME SizesAssumption ==
  /\ ValueSize \in Nat \ {0} /\ MemberSize \in Nat \ {0} /\ TextSize \in Nat \ {0}
ASSUME GrowthAssumption ==
  /\ Increment \in Nat \ {0} /\ CapRange \in Nat \ {0}
  /\ \E k \in 1 .. CapRange : CapRange = k * Increment
ASSUME BoundsAssumption == MaxTokens \in Nat /\ MaxDepth \in Nat

VARIABLES
  doc,      \* the tokens the dry run has looked at, in the document and behind it
  limit,    \* how many tokens the document has
  padded,   \* the document ends in white space
  phase,    \* "dry", "real", "done", then "destroyed"
  pos,      \* how many tokens this run has consumed
  expect,   \* what the parser is about to read
  stack,    \* the frames of the open objects and arrays
  temps,    \* the frames, by depth, whose temporary array is allocated
  need,     \* alloc_size
  used,     \* what the real run has taken from the arena
  failed,   \* why the run failed, or "no"
  arena,    \* the arena: "none", "live" or "freed"
  refused,  \* there was no memory for the arena
  entity,   \* what fpx_json_read has returned
  fault     \* memory written that is not the reader's, or "none"

run  == <<pos, expect, stack, temps>>
vars == <<doc, limit, padded, phase, run, need, used, failed, arena, refused,
          entity, fault>>

Kinds  == {"object", "array"}
Frames == [kind : Kinds, count : Nat, cap : Nat, size : Nat]
Zero   == [valid |-> FALSE, arena |-> FALSE, root |-> "none"]

Depth == Len(stack)
Top   == stack[Depth]
Done  == phase \in {"done", "destroyed"}

TypeOK ==
  /\ doc \in Seq(Tokens) /\ limit \in 0 .. MaxTokens /\ padded \in BOOLEAN
  /\ phase \in {"dry", "real", "done", "destroyed"}
  /\ pos \in 0 .. Len(doc)
  /\ expect \in {"value", "first", "next", "colon", "sep", "root", "unwind"}
  /\ stack \in Seq(Frames)
  /\ temps \subseteq 1 .. Depth
  /\ need \in Nat /\ used \in 0 .. need
  /\ failed \in {"no", "invalid", "memory"}
  /\ arena \in {"none", "live", "freed"} /\ refused \in BOOLEAN
  /\ entity \in [valid : BOOLEAN, arena : BOOLEAN, root : {"none", "tree", "sizes"}]
  /\ fault \in {"none", "overflow", "frame"}

\* A document of no bytes is refused before it is read.
Init ==
  /\ doc = <<>> /\ limit \in 0 .. MaxTokens /\ padded \in BOOLEAN
  /\ limit = 0 => padded
  /\ phase = "dry" /\ pos = 0 /\ expect = "value" /\ stack = <<>> /\ temps = {}
  /\ need = 0 /\ used = 0 /\ failed = "no"
  /\ arena = "none" /\ refused = FALSE /\ entity = Zero /\ fault = "none"

-----------------------------------------------------------------------------
(* Tokens and memory. *)

\* The last token of the document is one of S.
EndsIn(S) == limit > 0 /\ limit <= Len(doc) /\ doc[limit] \in S

\* Tokens that may come next.
MayFollow(t) ==
  /\ t \in {"{", "["} => Depth < MaxDepth
  /\ IF Len(doc) < limit
     THEN t \in CutShort => Len(doc) + 1 = limit /\ ~padded
     ELSE t \in Beyond
  /\ Len(doc) = limit /\ EndsIn({"open quote"}) => t = "other"

\* The reader is right at the end of the document.
AtEnd == pos = limit /\ ~EndsIn({"cut", "open past"})

\* Token t is next; it is not consumed.
Sees(t) ==
  \/ pos < Len(doc) /\ t = doc[pos + 1] /\ UNCHANGED doc
  \/ pos = Len(doc) /\ phase = "dry" /\ MayFollow(t) /\ doc' = Append(doc, t)

Takes(t) == Sees(t) /\ pos' = pos + 1

\* The closing bracket c is read.  Right at the end of the document it is
\* looked at and stays where it is, for the next container to find it again.
SeesClosing(c) ==
  \/ ~AtEnd /\ Takes(c)
  \/ AtEnd /\ Sees(c) /\ UNCHANGED pos

\* n more bytes: added up by the dry run, taken from the arena by the real one.
Claims(n) ==
  \/ phase = "dry" /\ need' = need + n /\ UNCHANGED used
  \/ phase = "real" /\ used + n <= need /\ used' = used + n /\ UNCHANGED need

Refuses(n) == phase = "real" /\ used + n > need

Closing(kind)  == IF kind = "object" THEN "}" ELSE "]"
SlotSize(kind) == IF kind = "object" THEN MemberSize ELSE ValueSize

\* What a string takes besides its place in a member or a value.
StringSize(t) == IF t = "empty" THEN 0 ELSE TextSize

-----------------------------------------------------------------------------
(* The temporary array of a frame. *)

\* Mutant: the array is made larger only when it is already too small.
GrownLate(f) ==
  IF f.cap < f.count
  THEN [f EXCEPT !.size = f.count + Increment, !.cap = (f.cap + Increment) % CapRange]
  ELSE f

\* The array before one more member or value is read: realloc when it is full.
Grown(f) ==
  IF f.cap = f.count
  THEN [f EXCEPT !.size = f.count + Increment, !.cap = (f.cap + Increment) % CapRange]
  ELSE f

\* The parser is at the start of a value; after a comma that the document
\* ends in it looks for none.
AtValue ==
  \/ expect = "value"
  \/ expect = "first" /\ Top.kind = "array"
  \/ expect = "next"  /\ Top.kind = "array" /\ pos < limit

\* And the same for a member.
AtMember ==
  /\ expect \in {"first", "next"} /\ Top.kind = "object"
  /\ expect = "next" => pos < limit

\* The frames once the array of the innermost one has room for the next element.
GrownStack == [stack EXCEPT ![Depth] = Grown(@)]
ForValue   == IF expect = "value" THEN stack ELSE GrownStack
GrownTemps == IF expect = "value" THEN temps ELSE temps \cup {Depth}

(***************************************************************************)
(* A value of the innermost frame of s has been read.  The real run writes *)
(* it to its slot, or to the root.                                         *)
(***************************************************************************)
Completes(s) ==
  LET d == Len(s)
  IN  IF s = <<>>
      THEN expect' = "root" /\ stack' = s /\ UNCHANGED fault
      ELSE /\ expect' = "sep"
           /\ stack' = [s EXCEPT ![d].count = @ + 1]
           /\ fault' = IF phase = "real" /\ s[d].count >= s[d].size
                       THEN "overflow" ELSE fault

-----------------------------------------------------------------------------
(* The functions of the parser. *)

Running == phase \in {"dry", "real"} /\ failed = "no" /\ fault = "none"

still == <<limit, padded, phase, failed, arena, refused, entity>>

\* _json_bool_parse, _json_null_validate, _json_number_parse.
Word ==
  /\ Running /\ AtValue
  /\ \E t \in Literals : Takes(t)
  /\ Completes(ForValue)
  /\ temps' = GrownTemps
  /\ UNCHANGED <<need, used, still>>

\* _json_string_parse for a value.
Text ==
  /\ Running /\ AtValue
  /\ \E t \in Strings : Takes(t) /\ Claims(StringSize(t))
  /\ Completes(ForValue)
  /\ temps' = GrownTemps
  /\ UNCHANGED still

\* An object or an array begins.
Open ==
  /\ Running /\ AtValue /\ Depth < MaxDepth
  /\ \E k \in Kinds :
       /\ Takes(IF k = "object" THEN "{" ELSE "[")
       /\ stack' = Append(ForValue, [kind |-> k, count |-> 0, cap |-> 0, size |-> 0])
  /\ expect' = "first"
  /\ temps' = GrownTemps
  /\ UNCHANGED <<need, used, fault, still>>

\* An array ends where it began.
EmptyArray ==
  /\ Running /\ expect = "first" /\ Top.kind = "array"
  /\ SeesClosing("]")
  /\ Completes(SubSeq(stack, 1, Depth - 1))
  /\ UNCHANGED <<temps, need, used, still>>

(***************************************************************************)
(* An object ends where it began, and its place is cleared without asking  *)
(* which run this is.  In the dry run the place is alloc_size: the sum     *)
(* starts again at zero, and as many bytes behind it are cleared, which    *)
(* belong to the frame of fpx_json_read.  The last byte of the document is *)
(* no room for an object; with white space after it, it is.                *)
(***************************************************************************)
EmptyObject ==
  /\ Running /\ expect = "first" /\ Top.kind = "object"
  /\ pos < limit \/ padded
  /\ SeesClosing("}")
  /\ \/ /\ Completes(SubSeq(stack, 1, Depth - 1))
        /\ need' = IF phase = "dry" THEN 0 ELSE need
     \/ /\ phase = "dry"
        /\ fault' = "frame"
        /\ UNCHANGED <<expect, stack, need>>
  /\ UNCHANGED <<temps, used, still>>

\* _json_member_parse up to the colon: the value is allocated before the key.
Key ==
  /\ Running /\ AtMember
  /\ \E t \in Strings : Takes(t) /\ Claims(ValueSize + StringSize(t))
  /\ stack' = GrownStack
  /\ temps' = temps \cup {Depth}
  /\ expect' = "colon"
  /\ UNCHANGED <<fault, still>>

Colon ==
  /\ Running /\ expect = "colon"
  /\ Takes(":")
  /\ expect' = "value"
  /\ UNCHANGED <<stack, temps, need, used, fault, still>>

\* A comma that is found behind the document is none: it ends the container.
Comma ==
  /\ Running /\ expect = "sep"
  /\ pos < limit /\ Takes(",")
  /\ expect' = "next"
  /\ UNCHANGED <<stack, temps, need, used, fault, still>>

\* Mutant: a container may be closed by the bracket of the other kind.
EndsAny ==
  \/ /\ expect = "sep" \/ pos < limit
     /\ \E k \in Kinds : SeesClosing(Closing(k))
  \/ expect = "sep" /\ pos >= limit /\ Takes(",")
  \/ expect = "next" /\ pos = limit /\ (\E t \in Tokens : Sees(t)) /\ UNCHANGED pos

\* The innermost container ends: with its closing bracket, with a comma behind
\* the document (the byte after it is passed over), or with any byte there after
\* a comma that the document ends in.
Ends ==
  \/ /\ expect = "sep" \/ pos < limit
     /\ SeesClosing(Closing(Top.kind))
  \/ expect = "sep" /\ pos >= limit /\ Takes(",")
  \/ expect = "next" /\ pos = limit /\ (\E t \in Tokens : Sees(t)) /\ UNCHANGED pos

\* Mutant: the dry run forgets the array of the members.
CloseUnmeasured ==
  /\ Running /\ expect \in {"sep", "next"}
  /\ Ends
  /\ Claims(IF phase = "dry" THEN 0 ELSE Top.count * SlotSize(Top.kind))
  /\ temps' = temps \ {Depth}
  /\ Completes(SubSeq(stack, 1, Depth - 1))
  /\ UNCHANGED still

\* The members move from the temporary array to the arena.
Close ==
  /\ Running /\ expect \in {"sep", "next"}
  /\ Ends
  /\ Claims(Top.count * SlotSize(Top.kind))
  /\ temps' = temps \ {Depth}
  /\ Completes(SubSeq(stack, 1, Depth - 1))
  /\ UNCHANGED still

-----------------------------------------------------------------------------
(* Failure. *)

\* What the parser accepts where it stands.
Acceptable(t) ==
  LET value == Literals \cup Strings \cup {"{", "["}
      close == {Closing(Top.kind)}
  IN  t \in CASE expect = "value" -> value
              [] expect = "first" /\ Top.kind = "array" -> value \cup close
              [] expect = "first" /\ Top.kind = "object" ->
                   Strings \cup (IF pos < limit \/ padded THEN close ELSE {})
              [] expect = "next" /\ pos < limit ->
                   close \cup (IF Top.kind = "array" THEN value ELSE Strings)
              [] expect = "colon" -> {":"}
              [] expect = "sep"   -> {","} \cup close
              [] OTHER -> Tokens

\* A token that has no business here: FPX_JSON_RESULT_SYNTAX_ERROR, or
\* FPX_JSON_RESULT_OUT_OF_BOUNDS_ERROR when the document ends too early.
Reject ==
  /\ Running /\ expect # "root"
  /\ \E t \in Tokens : ~Acceptable(t) /\ Sees(t)
  /\ IF expect = "next" \/ (expect = "first" /\ (Top.kind = "array" \/ pos < limit))
     THEN stack' = GrownStack /\ temps' = temps \cup {Depth}
     ELSE UNCHANGED <<stack, temps>>
  /\ failed' = "invalid" /\ expect' = "unwind"
  /\ UNCHANGED <<limit, padded, phase, pos, need, used, arena, refused, entity, fault>>

\* FPX_JSON_RESULT_MEMORY_ERROR: the arena has no room for a string, for a
\* member, or for the members of a container.
Refuse ==
  /\ Running
  /\ \/ /\ AtValue
        /\ \E t \in Strings : Takes(t) /\ Refuses(StringSize(t))
        /\ stack' = ForValue /\ temps' = GrownTemps
     \/ /\ AtMember
        /\ \E t \in Strings : Takes(t) /\ Refuses(ValueSize + StringSize(t))
        /\ stack' = GrownStack /\ temps' = temps \cup {Depth}
     \/ /\ expect \in {"sep", "next"}
        /\ Ends /\ Refuses(Top.count * SlotSize(Top.kind))
        /\ UNCHANGED <<stack, temps>>
  /\ failed' = "memory" /\ expect' = "unwind"
  /\ UNCHANGED <<limit, padded, phase, need, used, arena, refused, entity, fault>>

\* Mutant: nothing is freed on the way back.
UnwindLeaking ==
  /\ expect = "unwind" /\ stack # <<>>
  /\ stack' = SubSeq(stack, 1, Depth - 1)
  /\ UNCHANGED <<doc, limit, padded, phase, pos, expect, temps, need, used, failed, arena,
                 refused, entity, fault>>

\* A failed function returns to the one that called it, which frees its own
\* temporary array and returns as well.
Unwind ==
  /\ expect = "unwind" /\ stack # <<>>
  /\ stack' = SubSeq(stack, 1, Depth - 1)
  /\ temps' = temps \ {Depth}
  /\ UNCHANGED <<doc, limit, padded, phase, pos, expect, need, used, failed, arena,
                 refused, entity, fault>>

-----------------------------------------------------------------------------
(* fpx_json_read and fpx_json_destroy. *)

Finished == expect = "root" /\ fault = "none"

\* The dry run is over: the arena is created and the real run begins.
Measured ==
  /\ Finished /\ phase = "dry"
  /\ arena' = "live" /\ phase' = "real"
  /\ pos' = 0 /\ expect' = "value"
  /\ UNCHANGED <<doc, limit, padded, stack, temps, need, used, failed, refused, entity, fault>>

\* There is no memory for the arena: the second run is a dry run once more,
\* and adds its sizes up in the root of a document that is then called valid.
MeasuredInVain ==
  /\ Finished /\ phase = "dry"
  /\ refused' = TRUE
  /\ entity' = [valid |-> TRUE, arena |-> FALSE, root |-> "sizes"]
  /\ phase' = "done"
  /\ UNCHANGED <<doc, limit, padded, run, need, used, failed, arena, fault>>

Built ==
  /\ Finished /\ phase = "real"
  /\ entity' = [valid |-> TRUE, arena |-> TRUE, root |-> "tree"]
  /\ phase' = "done"
  /\ UNCHANGED <<doc, limit, padded, run, need, used, failed, arena, refused, fault>>

\* Mutant: the arena of a document that turned out too large is kept.
GiveUpKeeping ==
  /\ expect = "unwind" /\ stack = <<>> /\ phase \in {"dry", "real"}
  /\ phase' = "done"
  /\ UNCHANGED <<doc, limit, padded, run, need, used, failed, arena, refused, entity, fault>>

GiveUp ==
  /\ expect = "unwind" /\ stack = <<>> /\ phase \in {"dry", "real"}
  /\ arena' = IF phase = "real" THEN "freed" ELSE arena
  /\ phase' = "done"
  /\ UNCHANGED <<doc, limit, padded, run, need, used, failed, refused, entity, fault>>

fpx_json_destroy ==
  /\ phase = "done"
  /\ arena' = IF entity.arena THEN "freed" ELSE arena
  /\ entity' = Zero
  /\ phase' = "destroyed"
  /\ UNCHANGED <<doc, limit, padded, run, need, used, failed, refused, fault>>

-----------------------------------------------------------------------------
Parse ==
  \/ Word \/ Text \/ Open \/ EmptyArray \/ EmptyObject
  \/ Key \/ Colon \/ Comma \/ Close

Fail == Reject \/ Refuse \/ Unwind \/ GiveUp

Next ==
  \/ Parse \/ Fail
  \/ Measured \/ MeasuredInVain \/ Built
  \/ fpx_json_destroy

Spec == Init /\ [][Next]_vars

-----------------------------------------------------------------------------
(* Properties. *)

\* An object without members somewhere in the document.
HasEmptyObject ==
  \E i \in 1 .. Len(doc) - 1 : doc[i] = "{" /\ doc[i + 1] = "}"

(***************************************************************************)
(* The two runs agree: a tree fills its arena exactly, and the real run    *)
(* only ever runs out of memory because an empty object has reset the sum. *)
(* (fpx_json_read, json.c:113-135: the sizes are written down twice, once  *)
(* in each branch of if (dry_run).)                                        *)
(***************************************************************************)
MeasureIsExact ==
  /\ entity.root = "tree" => used = need
  /\ failed = "memory" => HasEmptyObject

(***************************************************************************)
(* Whatever fails, and however deep: when fpx_json_read returns, every     *)
(* temporary array has been freed, and the arena lives as long as the      *)
(* entity that was returned holds it (json.c:222-273, 731-781).            *)
(***************************************************************************)
NothingLeft ==
  Done => temps = {} /\ (arena = "live" <=> entity.arena)

(***************************************************************************)
(* A member or value is written within its temporary array, as long as the *)
(* container has fewer elements than its 16-bit capacity can count         *)
(* (json.c:219-228, 726-737).                                              *)
(***************************************************************************)
TempsHaveRoom ==
  fault = "overflow" => Top.count > CapRange

=============================================================================
