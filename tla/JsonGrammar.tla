------------------------------ MODULE JsonGrammar ------------------------------
(***************************************************************************)
(* What fpx_json_read makes of a document, against a grammar of JSON that  *)
(* does not know how it is read: the documents of every length, built from *)
(* shorter ones.  A comma before a closing bracket is the one liberty the  *)
(* grammar takes (src/src/serialize/json.c:239-252 and 748-761).           *)
(***************************************************************************)
EXTENDS JsonReader

Longest == MaxTokens + MaxDepth + 2

\* The set L has for length n, which may be too short to have one.
At(L, n, what) == IF n \in DOMAIN L THEN L[n][what] ELSE {}

Bracketed(open, inner, close) == {<<open>> \o s \o <<close>> : s \in inner}

Containers(L, n, open, what, close) ==
  (IF n = 2 THEN {<<open, close>>} ELSE {})
  \cup Bracketed(open, At(L, n - 2, what), close)
  \cup Bracketed(open, {s \o <<",">> : s \in At(L, n - 3, what)}, close)

\* The values of length n, of those L has of less.
Values(L, n) ==
  (IF n = 1 THEN {<<"word">>, <<"text">>} ELSE {})
  \cup Containers(L, n, "[", "elements", "]")
  \cup Containers(L, n, "{", "members", "}")

\* A member is its key, a colon and a value.
Member(L, n) == {<<"text", ":">> \o v : v \in At(L, n - 2, "value")}

\* s is the first of several, which make n together.
Listed(L, n, k, first, what) ==
  UNION {{i \o <<",">> \o s : i \in first} : s \in At(L, n - 1 - k, what)}

\* L with the values, elements and members of the next length.
Longer(L, n) ==
  LET value == Values(L, n)
  IN  Append(L,
        [value |-> value,
         elements |-> value \cup
           UNION {Listed(L, n, k, At(L, k, "value"), "elements") : k \in 1 .. n - 2},
         members |-> Member(L, n) \cup
           UNION {Listed(L, n, k, Member(L, k), "members") : k \in 3 .. n - 2}])

\* What the grammar has of every length up to n.
Grammar[n \in Nat] == IF n = 0 THEN <<>> ELSE Longer(Grammar[n - 1], n)

\* Longer ones cannot be met: MaxTokens tokens, a colon and a value, and what
\* closes MaxDepth containers.
Documents ==
  LET L == Grammar[Longest]
  IN  UNION {L[n].value : n \in 1 .. Longest}

\* What a document may begin with.
Beginnings == UNION {{SubSeq(d, 1, n) : n \in 0 .. Len(d)} : d \in Documents}
-----------------------------------------------------------------------------
\* Words and strings are alike to the grammar, those that are cut short included.
Canonical(d) ==
  [i \in DOMAIN d |-> IF d[i] \in Strings THEN "text"
                     ELSE IF d[i] \in {"last", "cut"} THEN "word" ELSE d[i]]

\* The first n tokens that have been looked at, as far as they are the document's.
Own(n) == Canonical(SubSeq(doc, 1, IF n <= limit THEN n ELSE limit))

\* The reader has looked behind the document.
MeetsEnd == Len(doc) > limit \/ EndsIn({"cut", "open quote", "open past"})

(***************************************************************************)
(* What a tree is built of is a document of the grammar, or the beginning  *)
(* of one where the reader has met the end of what it was given: a comma   *)
(* there closes all containers, and bytes behind the end are taken for a   *)
(* part of the document.  What the dry run refuses is no document, and     *)
(* does not even begin like one unless it ends too early; with the one     *)
(* exception of a number that is a document of its own.  (fpx_json_read    *)
(* and the _json_*_parse functions, json.c:83-137, 172-782.)               *)
(***************************************************************************)
ReadsJson ==
  /\ entity.root = "tree" =>
       Own(pos) \in IF MeetsEnd THEN Beginnings ELSE Documents
  /\ failed = "invalid" =>
       \/ Own(Len(doc)) \notin IF MeetsEnd \/ EndsIn({"last"}) THEN Documents ELSE Beginnings
       \/ doc = <<"last">>
=============================================================================
