---------------------------- MODULE HttpContentProofs ----------------------------
(***************************************************************************)
(* TLAPS proofs about the functions of HttpContent: what a buffer can      *)
(* become by growing and being freed, what the headers of a message are    *)
(* after others have been added, and what is read of them.  AddHeaders is  *)
(* a recursive function: facts about it are proved by induction, which     *)
(* needs no more than that a set of numbers has a least one.               *)
(***************************************************************************)
EXTENDS HttpContent, WellFoundedInduction, TLAPS

-----------------------------------------------------------------------------
(* Induction. *)

\* A set of numbers has a least one.
LEMMA LeastNumber ==
  ASSUME NEW S \in SUBSET Nat, S # {}
  PROVE  \E m \in S : \A k \in S : m <= k
<1> DEFINE R == {p \in Nat \X Nat : p[1] < p[2]}
<1>1. IsWellFoundedOn(R, Nat)
  BY NatLessThanWellFounded, R = OpToRel(<, Nat) DEF OpToRel
<1>2. \E x \in S : \A y \in S : ~ (<<y, x>> \in R)
  <2> HIDE DEF R
  <2> QED
    BY <1>1, WFMin
<1>3. ASSUME NEW x \in Nat, NEW y \in Nat, ~ (<<y, x>> \in R)
      PROVE  x <= y
  <2>1. <<y, x>> \in Nat \X Nat /\ <<y, x>>[1] = y /\ <<y, x>>[2] = x
    OBVIOUS
  <2> QED
    BY <1>3, <2>1
<1> HIDE DEF R
<1> QED
  BY <1>2, <1>3

\* Numbers that 0 is among, and the successor of each, are all numbers up to n.
LEMMA UpTo ==
  ASSUME NEW n \in Nat, NEW P, 0 \in P, \A k \in 0 .. n : k < n /\ k \in P => k + 1 \in P
  PROVE  n \in P
<1> SUFFICES ASSUME n \notin P PROVE FALSE
  OBVIOUS
<1> DEFINE S == {k \in 0 .. n : k \notin P}
<1>1. PICK m \in S : \A k \in S : m <= k
  <2> S \in SUBSET Nat /\ S # {}
    OBVIOUS
  <2> HIDE DEF S
  <2> QED
    BY LeastNumber
<1>2. m # 0 /\ m - 1 \in 0 .. n /\ m - 1 < n
  OBVIOUS
<1>3. m - 1 \in P
  BY <1>1, <1>2
<1>4. m - 1 + 1 = m
  OBVIOUS
<1> QED
  BY <1>2, <1>3, <1>4

\* The definition by recursion in AddHeaders has the function it means.
LEMMA AddHeadersFunction ==
  ASSUME NEW c, NEW hs, NEW refused, NEW n \in Nat
  PROVE  \E f : f = [i \in 0 .. n |-> IF i = 0 THEN c
                                      ELSE AddHeader(f[i - 1], hs[i], i # refused)]
<1> DEFINE E(g, k) == g = [i \in 0 .. k |-> IF i = 0 THEN c
                                            ELSE AddHeader(g[i - 1], hs[i], i # refused)]
           P == {k \in Nat : \E g : E(g, k)}
<1>1. 0 \in P
  <2>1. E([i \in 0 .. 0 |-> c], 0)
    OBVIOUS
  <2> QED
    BY <2>1
<1>2. ASSUME NEW k \in Nat, k \in P PROVE k + 1 \in P
  <2>1. PICK g : E(g, k)
    BY <1>2
  <2> DEFINE next == AddHeader(g[k], hs[k + 1], k + 1 # refused)
             h == [i \in 0 .. k + 1 |-> IF i = k + 1 THEN next ELSE g[i]]
  <2>2. \A i \in 0 .. k : h[i] = g[i] /\ i \in 0 .. k + 1
    OBVIOUS
  <2>3. ASSUME NEW i \in 0 .. k + 1
        PROVE  h[i] = IF i = 0 THEN c ELSE AddHeader(h[i - 1], hs[i], i # refused)
    <3>1. CASE i = k + 1
      BY <3>1, <2>2
    <3>2. CASE i # k + 1
      <4>1. i \in 0 .. k /\ (i # 0 => i - 1 \in 0 .. k)
        BY <3>2
      <4> HIDE DEF h
      <4> QED
        BY <4>1, <2>2, <2>1
    <3> QED
      BY <3>1, <3>2
  <2>4. E(h, k + 1)
    BY <2>3
  <2> HIDE DEF h
  <2>5. k + 1 \in Nat /\ \E whole : E(whole, k + 1)
    BY <2>4
  <2> QED
    BY <2>5
<1>3. n \in P
  <2> HIDE DEF P
  <2> QED
    BY <1>1, <1>2, UpTo
<1> QED
  BY <1>3

\* Headers are added one after the other.
LEMMA AddHeadersSteps ==
  ASSUME NEW c, NEW hs, NEW refused, Len(hs) \in Nat
  PROVE  \E f : /\ f[0] = c
                /\ \A i \in 0 .. Len(hs) : i < Len(hs) =>
                     f[i + 1] = AddHeader(f[i], hs[i + 1], i + 1 # refused)
                /\ AddHeaders(c, hs, refused) = f[Len(hs)]
<1> DEFINE f[i \in 0 .. Len(hs)] == IF i = 0 THEN c
                                    ELSE AddHeader(f[i - 1], hs[i], i # refused)
<1>1. AddHeaders(c, hs, refused) = f[Len(hs)]
  BY DEF AddHeaders
<1>2. f = [i \in 0 .. Len(hs) |-> IF i = 0 THEN c
                                  ELSE AddHeader(f[i - 1], hs[i], i # refused)]
  <2>1. f = CHOOSE g : g = [i \in 0 .. Len(hs) |->
                              IF i = 0 THEN c ELSE AddHeader(g[i - 1], hs[i], i # refused)]
    BY DEF f
  <2> HIDE DEF f
  <2> QED
    BY <2>1, AddHeadersFunction
<1>3. f[0] = c
  <2> HIDE DEF f
  <2> QED
    BY <1>2
<1>4. ASSUME NEW i \in 0 .. Len(hs), i < Len(hs)
      PROVE  f[i + 1] = AddHeader(f[i], hs[i + 1], i + 1 # refused)
  <2>1. i + 1 \in 0 .. Len(hs) /\ i + 1 # 0 /\ i + 1 - 1 = i
    BY <1>4
  <2> HIDE DEF f
  <2> QED
    BY <1>2, <2>1
<1> HIDE DEF f
<1> QED
  BY <1>1, <1>3, <1>4

-----------------------------------------------------------------------------
(* What a buffer can be. *)

\* Of every buffer: a block has the room its pointer promises.
Sized(b) ==
  /\ b \in Buffers
  /\ b.ptr = "live" => b.allocated > 0 /\ b.len <= b.allocated /\ b.allocated <= b.size
  /\ b.ptr = "freed" /\ b.wrong # "freed" => b.len = 0
  /\ b.wrong # "overflow"

\* Of one that has not been destroyed.
Kept(b) == b.ptr # "freed" /\ b.wrong \in {"no", "lost"}

\* Of one that got every block it asked for.
Given(b) == b.wrong \notin {"null", "lost"} /\ (b.ptr = "null" => b.len = 0)

\* Blocks are counted up.
LEMMA AllocCalcRoom ==
  ASSUME NEW len \in Nat, NEW n \in Nat
  PROVE  AllocCalc(len, n) \in Nat /\ AllocCalc(len, n) >= len + n
<1> DEFINE x == len + n + Block - 1
           q == x \div Block
<1>1. Block \in Nat /\ Block > 0 /\ x \in Nat
  BY BlockAssumption
<1>2. q \in Nat /\ x = Block * q + (x % Block) /\ x % Block \in 0 .. Block - 1
  <2> HIDE DEF x
  <2> QED
    BY <1>1
<1>3. Block * q \in Nat
  <2> HIDE DEF q
  <2> QED
    BY <1>1, <1>2
<1>4. AllocCalc(len, n) = Block * q
  BY DEF AllocCalc
<1>5. Block * q >= len + n
  <2> HIDE DEF q
  <2> QED
    BY <1>1, <1>2, <1>3
<1> QED
  BY <1>3, <1>4, <1>5

LEMMA NewBuffer == Sized(NoBuffer) /\ Kept(NoBuffer) /\ Given(NoBuffer)
BY DEF Sized, Kept, Given, NoBuffer, Buffers, Wrongs

LEMMA WrittenBuffer ==
  ASSUME NEW b \in Buffers, NEW n \in Nat, b.ptr # "freed" => b.len + n <= b.size
  PROVE  /\ Written(b, n) \in Buffers
         /\ Written(b, n).ptr = b.ptr /\ Written(b, n).size = b.size
         /\ Written(b, n).len = b.len + n
         /\ Written(b, n).allocated = b.allocated
         /\ Written(b, n).wrong = IF b.ptr = "freed" THEN "freed" ELSE b.wrong
<1> DEFINE wrong == IF b.ptr = "freed" THEN "freed" ELSE b.wrong
<1>1. b.len \in Nat /\ b.size \in Nat /\ b.len + n \in Nat /\ wrong \in Wrongs
  BY DEF Buffers, Wrongs
<1>2. Written(b, n) = [b EXCEPT !.len = b.len + n, !.wrong = wrong]
  <2>1. CASE b.ptr = "freed"
    BY <2>1 DEF Written
  <2>2. CASE b.ptr # "freed"
    <3>1. ~(b.len + n > b.size)
      BY <1>1, <2>2
    <3> QED
      BY <2>2, <3>1 DEF Written
  <2> QED
    BY <2>1, <2>2
<1> HIDE DEF wrong
<1>3. /\ Written(b, n).ptr = b.ptr /\ Written(b, n).size = b.size
      /\ Written(b, n).len = b.len + n
      /\ Written(b, n).allocated = b.allocated
      /\ Written(b, n).wrong = wrong
  BY <1>2 DEF Buffers
<1>4. Written(b, n) \in Buffers
  BY <1>1, <1>2 DEF Buffers
<1> QED
  BY <1>3, <1>4 DEF wrong

LEMMA RefusedBuffer ==
  ASSUME NEW b \in Buffers
  PROVE  /\ Refused(b) \in Buffers
         /\ Refused(b).ptr = "null" /\ Refused(b).len = b.len
         /\ Refused(b).allocated = b.allocated
         /\ Refused(b).wrong = IF b.ptr = "null" THEN b.wrong
                               ELSE IF b.ptr = "freed" THEN "freed" ELSE "lost"
<1> DEFINE wrong == IF b.ptr = "null" THEN b.wrong
                    ELSE IF b.ptr = "freed" THEN "freed" ELSE "lost"
<1>1. wrong \in Wrongs /\ b.ptr \in {"null", "freed", "live"}
  BY DEF Buffers, Wrongs
<1>2. Refused(b) = [b EXCEPT !.ptr = "null", !.size = 0, !.wrong = wrong]
  <2>1. CASE b.ptr = "null"
    BY <2>1 DEF Refused
  <2>2. CASE b.ptr = "freed"
    BY <2>2 DEF Refused
  <2>3. CASE b.ptr = "live"
    BY <2>3 DEF Refused
  <2> QED
    BY <1>1, <2>1, <2>2, <2>3
<1> HIDE DEF wrong
<1>3. Refused(b) \in Buffers
  <2>1. Refused(b) = [ptr |-> "null", size |-> 0, len |-> b.len, allocated |-> b.allocated,
                      wrong |-> wrong]
    BY <1>2 DEF Buffers
  <2>2. b.len \in Nat /\ b.allocated \in Nat
    BY DEF Buffers
  <2> QED
    BY <1>1, <2>1, <2>2 DEF Buffers
<1>4. /\ Refused(b).ptr = "null" /\ Refused(b).len = b.len
      /\ Refused(b).allocated = b.allocated
      /\ Refused(b).wrong = wrong
  BY <1>1, <1>2 DEF Buffers
<1> QED
  BY <1>3, <1>4 DEF wrong

\* Growing keeps all of it, as far as blocks are granted.
LEMMA ExtendBuffer ==
  ASSUME NEW b, Sized(b), NEW n \in Nat, n > 0, NEW granted \in BOOLEAN,
         NEW e, e = Extend(b, n, granted)
  PROVE  /\ Sized(e)
         /\ Kept(b) => Kept(e)
         /\ Given(b) /\ granted => Given(e)
         /\ granted => e.ptr # "null" /\ e.len = (IF b.ptr = "null" THEN 0 ELSE b.len) + n
         /\ e.ptr # "null" => e.len = (IF b.ptr = "null" THEN 0 ELSE b.len) + n
         /\ e.len <= b.len + n
         /\ b.ptr = "freed" => e.wrong = "freed"
         /\ b.wrong = "freed" /\ granted => e.wrong = "freed"
<1> DEFINE r == IF b.ptr = "null" THEN [b EXCEPT !.len = 0, !.allocated = 0] ELSE b
           to == AllocCalc(b.len, n)
<1>1. to \in Nat /\ to >= b.len + n
  BY AllocCalcRoom DEF Sized, Buffers
<1>2. r \in Buffers /\ Extend(b, n, granted) = Resized(r, to, n, granted)
  BY DEF Extend, Sized, Buffers
<1>3. /\ r.ptr = b.ptr /\ r.wrong = b.wrong /\ r.size = b.size
      /\ r.len = (IF b.ptr = "null" THEN 0 ELSE b.len)
      /\ r.allocated = (IF b.ptr = "null" THEN 0 ELSE b.allocated)
  BY DEF Sized, Buffers
<1> HIDE DEF r, to
<1> e = Resized(r, to, n, granted)
  BY <1>2
<1>4. CASE r.allocated # 0 /\ to <= r.allocated
  <2> DEFINE a == [r EXCEPT !.allocated = to]
  <2>1. e = Written(a, n)
    BY <1>1, <1>2, <1>4 DEF Resized, Buffers
  <2>2. a \in Buffers /\ a.ptr = r.ptr /\ a.size = r.size /\ a.len = r.len /\ a.wrong = r.wrong
        /\ a.allocated = to
    BY <1>1, <1>2 DEF Buffers
  <2> HIDE DEF a
  <2>3. r.ptr # "null" /\ (r.ptr = "live" => r.len + n <= r.size)
    BY <1>1, <1>3, <1>4 DEF Sized, Buffers
  <2>5. a.ptr # "freed" => a.len + n <= a.size
    BY <1>2, <2>2, <2>3 DEF Buffers
  <2>4. /\ e \in Buffers
        /\ e.ptr = r.ptr /\ e.size = r.size /\ e.len = r.len + n /\ e.allocated = to
        /\ e.wrong = IF r.ptr = "freed" THEN "freed" ELSE r.wrong
    BY <2>1, <2>2, <2>5, WrittenBuffer
  <2> QED
    BY <1>1, <1>2, <1>3, <1>4, <2>3, <2>4 DEF Sized, Kept, Given, Buffers
<1>5. CASE ~(r.allocated # 0 /\ to <= r.allocated) /\ ~granted
  <2>1. e = Refused(r)
    BY <1>1, <1>2, <1>5 DEF Resized, Buffers
  <2>2. /\ e \in Buffers
        /\ e.ptr = "null" /\ e.len = r.len /\ e.allocated = r.allocated
        /\ e.wrong = IF r.ptr = "null" THEN r.wrong ELSE IF r.ptr = "freed" THEN "freed" ELSE "lost"
    BY <1>2, <2>1, RefusedBuffer
  <2> QED
    BY <1>1, <1>2, <1>3, <1>5, <2>2 DEF Sized, Kept, Given, Buffers
<1>6. CASE ~(r.allocated # 0 /\ to <= r.allocated) /\ granted
  <2> DEFINE a == [r EXCEPT !.size = to, !.allocated = to]
             w == Written(a, n)
  <2>1. e = [w EXCEPT !.ptr = "live"]
    BY <1>1, <1>2, <1>6 DEF Resized, Buffers
  <2>2. a \in Buffers /\ a.ptr = r.ptr /\ a.size = to /\ a.len = r.len /\ a.wrong = r.wrong
        /\ a.allocated = to
    BY <1>1, <1>2 DEF Buffers
  <2>3. r.len + n <= to
    BY <1>1, <1>3 DEF Sized, Buffers
  <2> HIDE DEF a
  <2>4. /\ w \in Buffers
        /\ w.size = to /\ w.len = r.len + n /\ w.allocated = to
        /\ w.wrong = IF r.ptr = "freed" THEN "freed" ELSE r.wrong
    BY <2>2, <2>3, WrittenBuffer
  <2> HIDE DEF w
  <2>5. /\ e \in Buffers /\ e.ptr = "live"
        /\ e.size = to /\ e.len = r.len + n /\ e.allocated = to
        /\ e.wrong = IF r.ptr = "freed" THEN "freed" ELSE r.wrong
    BY <2>1, <2>4 DEF Buffers
  <2>6. to > 0
    BY <1>1 DEF Sized, Buffers
  <2>7. Sized(e)
    BY <1>1, <1>3, <2>3, <2>5, <2>6 DEF Sized, Buffers
  <2>8. e.len <= b.len + n /\ e.len = (IF b.ptr = "null" THEN 0 ELSE b.len) + n
    BY <1>3, <2>5 DEF Sized, Buffers
  <2> QED
    BY <1>3, <1>6, <2>5, <2>7, <2>8 DEF Kept, Given
<1> QED
  BY <1>2, <1>4, <1>5, <1>6

\* Freeing leaves nothing, unless a block was refused before; only what was
\* destroyed already is freed twice.
LEMMA FreedBuffer ==
  ASSUME NEW b, Sized(b), NEW e, e = Freed(b)
  PROVE  /\ Sized(e)
         /\ e.len <= b.len
         /\ Kept(b) => e.wrong # "freed"
         /\ Given(b) => Given(e)
         /\ e.ptr # "live"
<1>1. CASE b.allocated = 0
  <2>1. e = b
    BY <1>1 DEF Freed
  <2> QED
    BY <1>1, <2>1 DEF Sized, Kept, Given, Buffers
<1>2. CASE b.allocated # 0
  <2>1. /\ e \in Buffers /\ e.ptr = "freed" /\ e.len = 0
        /\ e.wrong = IF b.ptr = "freed" THEN "freed"
                     ELSE IF b.ptr = "null" /\ b.len > 0 THEN "null" ELSE b.wrong
    BY <1>2 DEF Freed, Sized, Buffers, Wrongs
  <2> QED
    BY <2>1 DEF Sized, Kept, Given, Buffers
<1> QED
  BY <1>1, <1>2

-----------------------------------------------------------------------------
(* Headers are added. *)

\* The messages with headers out of S.
Contents(S) == [list : Seq(S), headers : Buffers, body : Buffers]

\* Every header that was added is there.
Complete(c) == Kept(c.headers) /\ Given(c.headers) /\ Len(c.list) = c.headers.len

LEMMA NewContent ==
  ASSUME NEW S
  PROVE  NoContent \in Contents(S) /\ Complete(NoContent)
BY NewBuffer DEF NoContent, Contents, Complete, NoBuffer, Sized

\* What adding a header to c leaves, headers out of S.
Grows(c, d, S, granted) ==
  /\ d \in Contents(S)
  /\ Sized(d.headers)
  /\ d.body = c.body
  /\ Kept(c.headers) => Kept(d.headers)
  /\ Given(c.headers) /\ granted => Given(d.headers)
  /\ c.headers.wrong = "freed" /\ granted => d.headers.wrong = "freed"

LEMMA AddHeaderGrows ==
  ASSUME NEW S, NEW c \in Contents(S), Sized(c.headers), NEW h \in S, NEW granted \in BOOLEAN,
         NEW d, d = AddHeader(c, h, granted)
  PROVE  /\ Grows(c, d, S, granted)
         /\ c.headers.ptr = "freed" => d.headers.wrong = "freed"
         /\ granted /\ Complete(c) => Complete(d) /\ d.list = Append(c.list, h)
         /\ ~granted => d.headers.ptr # "null" \/ d.list = <<>>
<1> DEFINE e == Extend(c.headers, 1, granted)
           l == Listed(c.list, e, h)
<1>1. /\ Sized(e)
      /\ Kept(c.headers) => Kept(e)
      /\ Given(c.headers) /\ granted => Given(e)
      /\ granted => e.ptr # "null" /\ e.len = (IF c.headers.ptr = "null" THEN 0 ELSE c.headers.len) + 1
      /\ c.headers.ptr = "freed" => e.wrong = "freed"
      /\ c.headers.wrong = "freed" /\ granted => e.wrong = "freed"
  BY ExtendBuffer
<1>2. d = [c EXCEPT !.headers = e, !.list = l]
  BY DEF AddHeader, WithHeaders
<1>3. \/ e.ptr = "null" /\ l = <<>>
      \/ e.ptr # "null" /\ e.len = 1 /\ l = <<h>>
      \/ e.ptr # "null" /\ e.len # 1 /\ l = Append(c.list, h)
  BY DEF Listed
<1> HIDE DEF e, l
<1>4. l \in Seq(S)
  <2>1. c.list \in Seq(S) /\ <<>> \in Seq(S) /\ <<h>> \in Seq(S)
    BY DEF Contents
  <2>2. Append(c.list, h) \in Seq(S)
    BY <2>1
  <2> QED
    BY <1>3, <2>1, <2>2
<1>5. d = [list |-> l, headers |-> e, body |-> c.body]
  BY <1>2 DEF Contents
<1>6. Grows(c, d, S, granted)
  BY <1>1, <1>4, <1>5 DEF Grows, Contents, Sized
<1>7. ASSUME granted, Complete(c)
      PROVE  Complete(d) /\ d.list = Append(c.list, h)
  <2>1. c.headers.len \in Nat /\ c.list \in Seq(S) /\ Len(c.list) = c.headers.len
    BY <1>7 DEF Contents, Buffers, Complete
  <2>2. e.len = c.headers.len + 1 /\ e.ptr # "null"
    BY <1>1, <1>7, <2>1 DEF Complete, Given
  <2>3. l = Append(c.list, h)
    <3>1. CASE e.len = 1
      <4>1. c.list = <<>>
        BY <2>1, <2>2, <3>1
      <4> QED
        BY <1>3, <2>2, <3>1, <4>1
    <3> QED
      BY <1>3, <2>2, <3>1
  <2>4. Len(l) = e.len
    BY <2>1, <2>2, <2>3
  <2> QED
    BY <1>1, <1>5, <1>7, <2>3, <2>4 DEF Complete
<1> QED
  BY <1>1, <1>3, <1>5, <1>6, <1>7

\* Headers that are added leave a message of headers out of those and its own.
LEMMA AddHeadersGrows ==
  ASSUME NEW S, NEW c \in Contents(S), Sized(c.headers), NEW hs \in Seq(S), NEW refused,
         NEW d, d = AddHeaders(c, hs, refused)
  PROVE  /\ Grows(c, d, S, refused \notin DOMAIN hs)
         /\ /\ c.headers.ptr = "freed" /\ refused \notin DOMAIN hs /\ hs # <<>>
            => d.headers.wrong = "freed"
<1>1. PICK f :
        /\ f[0] = c
        /\ \A i \in 0 .. Len(hs) : i < Len(hs) =>
             f[i + 1] = AddHeader(f[i], hs[i + 1], i + 1 # refused)
        /\ d = f[Len(hs)]
  BY AddHeadersSteps
<1> DEFINE all == refused \notin DOMAIN hs
           Good(i) == /\ Grows(c, f[i], S, all)
                      /\ i > 0 /\ c.headers.ptr = "freed" /\ all => f[i].headers.wrong = "freed"
           P == {i \in Nat : Good(i)}
<1>2. 0 \in P
  BY <1>1 DEF Grows
<1>3. ASSUME NEW k \in 0 .. Len(hs), k < Len(hs), k \in P
      PROVE  k + 1 \in P
  <2>1. k + 1 \in DOMAIN hs /\ hs[k + 1] \in S /\ k + 1 \in Nat /\ k + 1 > 0
    BY <1>3
  <2>2. Good(k)
    BY <1>3
  <2>3. f[k + 1] = AddHeader(f[k], hs[k + 1], k + 1 # refused)
    BY <1>1, <1>3
  <2>4. /\ Grows(f[k], f[k + 1], S, k + 1 # refused)
        /\ f[k].headers.ptr = "freed" => f[k + 1].headers.wrong = "freed"
    <3>1. f[k] \in Contents(S) /\ Sized(f[k].headers)
      BY <2>2 DEF Grows
    <3>2. PICK granted \in BOOLEAN : granted = (k + 1 # refused)
      OBVIOUS
    <3>3. f[k + 1] = AddHeader(f[k], hs[k + 1], granted)
      BY <2>3, <3>2
    <3>4. /\ Grows(f[k], f[k + 1], S, granted)
          /\ f[k].headers.ptr = "freed" => f[k + 1].headers.wrong = "freed"
      BY <2>1, <3>1, <3>3, AddHeaderGrows
    <3> QED
      BY <3>2, <3>4
  <2>5. all => k + 1 # refused
    BY <2>1
  <2> HIDE DEF all
  <2>6. Grows(c, f[k + 1], S, all)
    BY <2>2, <2>4, <2>5 DEF Grows
  <2>7. c.headers.ptr = "freed" /\ all => f[k + 1].headers.wrong = "freed"
    <3>1. CASE k = 0
      BY <1>1, <2>4, <3>1
    <3>2. CASE k > 0
      BY <2>2, <2>4, <2>5, <3>2 DEF Grows
    <3> QED
      BY <3>1, <3>2
  <2> QED
    BY <2>1, <2>6, <2>7
<1>4. Len(hs) \in P
  <2> HIDE DEF P
  <2> QED
    BY <1>2, <1>3, UpTo
<1>5. hs # <<>> => Len(hs) > 0
  OBVIOUS
<1> QED
  BY <1>1, <1>4, <1>5

\* They come behind those that are there, if none of them is refused a block.
LEMMA AddHeadersComplete ==
  ASSUME NEW S, NEW c \in Contents(S), Sized(c.headers), Complete(c), NEW hs \in Seq(S),
         NEW refused, refused \notin DOMAIN hs, NEW d, d = AddHeaders(c, hs, refused)
  PROVE  Complete(d) /\ d.list = c.list \o hs
<1>1. PICK f :
        /\ f[0] = c
        /\ \A i \in 0 .. Len(hs) : i < Len(hs) =>
             f[i + 1] = AddHeader(f[i], hs[i + 1], i + 1 # refused)
        /\ d = f[Len(hs)]
  BY AddHeadersSteps
<1> DEFINE Good(i) == /\ f[i] \in Contents(S) /\ Sized(f[i].headers) /\ Complete(f[i])
                      /\ f[i].list = c.list \o SubSeq(hs, 1, i)
           P == {i \in Nat : Good(i)}
<1>2. 0 \in P
  BY <1>1 DEF Contents
<1>3. ASSUME NEW k \in 0 .. Len(hs), k < Len(hs), k \in P
      PROVE  k + 1 \in P
  <2>1. k + 1 \in DOMAIN hs /\ hs[k + 1] \in S /\ k + 1 \in Nat /\ k + 1 # refused
    BY <1>3
  <2>2. Good(k)
    BY <1>3
  <2>3. f[k + 1] = AddHeader(f[k], hs[k + 1], TRUE)
    BY <1>1, <1>3, <2>1
  <2>4. /\ Grows(f[k], f[k + 1], S, TRUE) /\ Complete(f[k + 1])
        /\ f[k + 1].list = Append(f[k].list, hs[k + 1])
    <3>1. f[k] \in Contents(S) /\ Sized(f[k].headers) /\ Complete(f[k])
      BY <2>2
    <3>2. PICK granted \in BOOLEAN : granted = TRUE
      OBVIOUS
    <3>3. f[k + 1] = AddHeader(f[k], hs[k + 1], granted)
      BY <2>3, <3>2
    <3>4. /\ Grows(f[k], f[k + 1], S, granted)
          /\ granted /\ Complete(f[k]) => Complete(f[k + 1]) /\ f[k + 1].list = Append(f[k].list, hs[k + 1])
      BY <2>1, <3>1, <3>3, AddHeaderGrows
    <3> QED
      BY <3>1, <3>2, <3>4
  <2>5. Append(c.list \o SubSeq(hs, 1, k), hs[k + 1]) = c.list \o SubSeq(hs, 1, k + 1)
    BY <2>1 DEF Contents
  <2> QED
    BY <2>1, <2>2, <2>4, <2>5 DEF Grows
<1>4. Len(hs) \in P
  <2> HIDE DEF P
  <2> QED
    BY <1>2, <1>3, UpTo
<1>5. SubSeq(hs, 1, Len(hs)) = hs
  OBVIOUS
<1> QED
  BY <1>1, <1>4, <1>5

\* The headers of a new message: all of them, or those before the refused one.
LEMMA NewHeadersMade ==
  ASSUME NEW S, NEW hs \in Seq(S), NEW refused, NEW d, d = NewHeaders(hs, refused)
  PROVE  /\ d \in Contents(S) /\ Sized(d.headers) /\ Kept(d.headers)
         /\ d.body = NoBuffer
         /\ refused \notin DOMAIN hs => Complete(d) /\ d.list = hs
<1> DEFINE tried == IF refused \in DOMAIN hs THEN SubSeq(hs, 1, refused) ELSE hs
<1>1. NoContent \in Contents(S) /\ Complete(NoContent)
  BY NewContent
<1>2. Sized(NoContent.headers) /\ NoContent.body = NoBuffer /\ NoContent.list = <<>>
  BY NewBuffer DEF NoContent
<1>3. tried \in Seq(S)
  OBVIOUS
<1>4. d = AddHeaders(NoContent, tried, refused)
  BY DEF NewHeaders
<1> HIDE DEF tried
<1>5. Grows(NoContent, d, S, refused \notin DOMAIN tried)
  BY <1>1, <1>2, <1>3, <1>4, AddHeadersGrows
<1>6. refused \notin DOMAIN hs => Complete(d) /\ d.list = hs
  <2> SUFFICES ASSUME refused \notin DOMAIN hs PROVE Complete(d) /\ d.list = hs
    OBVIOUS
  <2>1. tried = hs
    BY DEF tried
  <2>2. Complete(d) /\ d.list = <<>> \o hs
    BY <1>1, <1>2, <1>4, <2>1, AddHeadersComplete
  <2> QED
    BY <2>2
<1> QED
  BY <1>1, <1>2, <1>5, <1>6 DEF Grows, Complete

-----------------------------------------------------------------------------
(* Headers are read. *)

\* The key is found in header h.
Sees(h, key) == key \in Parts[h].seen

LEMMA SeesKey ==
  ASSUME NEW h \in DOMAIN Lines, NEW key
  PROVE  /\ Sees(h, key) <=> key = Lines[h].key \/ key \in Lines[h].within
         /\ Parts[h].key = Lines[h].key /\ Parts[h].value = Lines[h].value
         /\ Parts[h].number = Lines[h].number
BY DEF Sees, Parts

\* Looking for a key reads the first header that it is found in.
LEMMA LookupFirst ==
  ASSUME NEW hs \in Seq(DOMAIN Lines), NEW key
  PROVE  \/ /\ \A i \in DOMAIN hs : ~Sees(hs[i], key)
            /\ Lookup(hs, key) = Unfound
         \/ \E i \in DOMAIN hs :
              /\ Sees(hs[i], key)
              /\ \A j \in DOMAIN hs : Sees(hs[j], key) => i <= j
              /\ Lookup(hs, key) = ReadAt(Parts[hs[i]], key)
<1> DEFINE places == {i \in DOMAIN hs : Sees(hs[i], key)}
<1>1. Lookup(hs, key) = ReadFirst(hs, places, key)
  BY DEF Lookup, Sees
<1>2. CASE places = {}
  BY <1>1, <1>2 DEF ReadFirst
<1>3. CASE places # {}
  <2>1. PICK m \in places : \A k \in places : m <= k
    <3> places \in SUBSET Nat
      OBVIOUS
    <3> HIDE DEF places
    <3> QED
      BY <1>3, LeastNumber
  <2>2. FirstOf(places) \in places /\ \A k \in places : FirstOf(places) <= k
    <3> HIDE DEF places
    <3> QED
      BY <2>1 DEF FirstOf
  <2>3. Lookup(hs, key) = ReadAt(Parts[hs[FirstOf(places)]], key)
    BY <1>1, <1>3 DEF ReadFirst
  <2> QED
    BY <2>2, <2>3
<1> QED
  BY <1>2, <1>3

\* What can be read of a key in a header.
Reading(h, key) ==
  IF Lines[h].key = key
  THEN [ret |-> "found", value |-> Lines[h].value, number |-> Lines[h].number]
  ELSE [ret |-> "hidden", value |-> "none", number |-> 0]

LEMMA ReadAtReading ==
  ASSUME NEW h \in DOMAIN Lines, NEW key
  PROVE  ReadAt(Parts[h], key) = Reading(h, key)
BY SeesKey DEF ReadAt, Reading, Unfound

\* A key that is looked for is missing, or read in one of the headers of S.
LEMMA LookupIn ==
  ASSUME NEW S \in SUBSET DOMAIN Lines, NEW hs \in Seq(S), NEW key
  PROVE  \/ /\ \A i \in DOMAIN hs : ~Sees(hs[i], key)
            /\ Lookup(hs, key) = [ret |-> "missing", value |-> "none", number |-> 0]
         \/ \E h \in S : Sees(h, key) /\ Lookup(hs, key) = Reading(h, key)
<1>1. hs \in Seq(DOMAIN Lines) /\ \A i \in DOMAIN hs : hs[i] \in S
  OBVIOUS
<1> QED
  BY <1>1, LookupFirst, ReadAtReading DEF Unfound

LEMMA LookupTyped ==
  ASSUME NEW hs \in Seq(DOMAIN Lines), NEW key
  PROVE  /\ Lookup(hs, key).number \in Int
         /\ Lookup(hs, key).ret \in {"missing", "hidden", "found"}
BY LookupIn, LinesAssumption DEF Reading

\* Headers behind others are read if the key is missing in those.
LEMMA LookupConcat ==
  ASSUME NEW hs \in Seq(DOMAIN Lines), NEW ks \in Seq(DOMAIN Lines), NEW key
  PROVE  Lookup(hs \o ks, key) =
           IF Lookup(hs, key).ret = "missing" THEN Lookup(ks, key) ELSE Lookup(hs, key)
<1> DEFINE all == hs \o ks
<1>1. all \in Seq(DOMAIN Lines) /\ Len(all) = Len(hs) + Len(ks)
  OBVIOUS
<1>2. \A i \in DOMAIN hs : i \in DOMAIN all /\ all[i] = hs[i]
  OBVIOUS
<1>3. \A i \in DOMAIN ks : i + Len(hs) \in DOMAIN all /\ all[i + Len(hs)] = ks[i]
  OBVIOUS
<1>4. \A i \in DOMAIN all :
        i \in DOMAIN hs \/ (i - Len(hs) \in DOMAIN ks /\ all[i] = ks[i - Len(hs)])
  OBVIOUS
<1>5. ASSUME NEW h \in DOMAIN Lines
      PROVE  ReadAt(Parts[h], key).ret # "missing"
  <2>1. Reading(h, key).ret # "missing"
    BY DEF Reading
  <2> QED
    BY <2>1, ReadAtReading
<1> HIDE DEF all
<1>6. CASE \A i \in DOMAIN hs : ~Sees(hs[i], key)
  <2>1. Lookup(hs, key) = Unfound
    BY <1>6, LookupFirst
  <2>2. CASE \A i \in DOMAIN ks : ~Sees(ks[i], key)
    <3>1. \A i \in DOMAIN all : ~Sees(all[i], key)
      BY <1>2, <1>4, <1>6, <2>2
    <3>2. Lookup(ks, key) = Unfound /\ Lookup(all, key) = Unfound
      BY <1>1, <2>2, <3>1, LookupFirst
    <3> QED
      BY <2>1, <3>2 DEF Unfound, all
  <2>3. CASE \E i \in DOMAIN ks : Sees(ks[i], key)
    <3>1. PICK i \in DOMAIN ks : /\ Sees(ks[i], key)
                                 /\ \A j \in DOMAIN ks : Sees(ks[j], key) => i <= j
                                 /\ Lookup(ks, key) = ReadAt(Parts[ks[i]], key)
      BY <2>3, LookupFirst
    <3>2. PICK m \in DOMAIN all : /\ Sees(all[m], key)
                                  /\ \A j \in DOMAIN all : Sees(all[j], key) => m <= j
                                  /\ Lookup(all, key) = ReadAt(Parts[all[m]], key)
      BY <1>1, <1>3, <3>1, LookupFirst
    <3>3. m - Len(hs) \in DOMAIN ks /\ all[m] = ks[m - Len(hs)]
      BY <1>2, <1>4, <1>6, <3>2
    <3>4. i <= m - Len(hs) /\ m <= i + Len(hs)
      BY <1>3, <3>1, <3>2, <3>3
    <3>5. m - Len(hs) = i
      BY <1>1, <3>4
    <3> QED
      BY <2>1, <3>1, <3>2, <3>3, <3>5 DEF Unfound, all
  <2> QED
    BY <2>2, <2>3
<1>7. CASE \E i \in DOMAIN hs : Sees(hs[i], key)
  <2>1. PICK i \in DOMAIN hs : /\ Sees(hs[i], key)
                               /\ \A j \in DOMAIN hs : Sees(hs[j], key) => i <= j
                               /\ Lookup(hs, key) = ReadAt(Parts[hs[i]], key)
    BY <1>7, LookupFirst
  <2>2. PICK m \in DOMAIN all : /\ Sees(all[m], key)
                                /\ \A j \in DOMAIN all : Sees(all[j], key) => m <= j
                                /\ Lookup(all, key) = ReadAt(Parts[all[m]], key)
    BY <1>1, <1>2, <2>1, LookupFirst
  <2>3. m <= i
    BY <1>2, <2>1, <2>2
  <2>4. m \in DOMAIN hs
    BY <1>1, <2>3
  <2>5. m = i
    BY <1>2, <2>1, <2>2, <2>3, <2>4
  <2>6. Lookup(hs, key).ret # "missing"
    BY <1>5, <2>1
  <2> QED
    BY <1>2, <2>1, <2>2, <2>5, <2>6 DEF all
<1> QED
  BY <1>6, <1>7
===============================================================================
