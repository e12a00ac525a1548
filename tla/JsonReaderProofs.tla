--------------------------- MODULE JsonReaderProofs ---------------------------
(***************************************************************************)
(* TLAPS proofs about JsonReader and about the grammar it is compared with *)
(* in JsonGrammar, for documents of any length and nesting, any sizes, and *)
(* any range of the 16-bit capacity that the increment divides, as 8       *)
(* divides 2^16.                                                           *)
(***************************************************************************)
EXTENDS JsonGrammar, SequenceTheorems, WellFoundedInduction, TLAPS

\* Where the parser stands says which frames there are.
Where ==
  /\ expect \in {"first", "next", "colon", "sep"} => stack # <<>>
  /\ expect = "root" => stack = <<>>
  /\ expect = "first" => Depth \notin temps

\* Who holds the arena; and nothing happens after a fault.
Phases ==
  /\ phase = "dry" => used = 0 /\ arena = "none" /\ entity = Zero
  /\ phase = "real" => arena = "live" /\ entity = Zero
  /\ Done => stack = <<>> /\ (arena = "live" <=> entity.arena)
  /\ fault # "none" => phase \in {"dry", "real"} /\ expect # "unwind"

\* The capacity is the size of the array, until that is all a capacity can count.
Sized(f) ==
  /\ f.size <= CapRange /\ \E k \in Nat : f.size = k * Increment
  /\ f.cap = IF f.size = CapRange THEN 0 ELSE f.size

\* The elements of a frame are in its array, and there is a slot for one more.
Fits(f)    == f.count <= f.size \/ f.size = CapRange
HasRoom(f) == f.count < f.size \/ f.size = CapRange

\* A frame has room when its next element is being read.
FramesSound ==
  fault = "none" /\ expect # "unwind" =>
    /\ \A i \in 1 .. Depth : Sized(stack[i])
    /\ \A i \in 1 .. Depth : i < Depth => HasRoom(stack[i])
    /\ expect \in {"colon", "value"} /\ stack # <<>> => HasRoom(Top)
    /\ stack # <<>> => Fits(Top)

Inv == TypeOK /\ Where /\ Phases /\ FramesSound /\ TempsHaveRoom

-----------------------------------------------------------------------------
\* Frames, one by one.

\* Of two multiples the smaller one is at least one increment smaller.
LEMMA MultiplesApart ==
  ASSUME NEW k \in Nat, NEW n \in Nat, NEW m \in Nat \ {0}, k * m < n * m
  PROVE  (k + 1) * m <= n * m /\ (k + 1) * m = k * m + m
<1>1. k < n
  <2> SUFFICES ASSUME k >= n PROVE FALSE
    OBVIOUS
  <2>1. PICK j \in Nat : k = n + j
    <3>1. k - n \in Nat /\ k = n + (k - n)
      OBVIOUS
    <3> QED
      BY <3>1
  <2>2. j * m \in Nat /\ n * m \in Nat
    OBVIOUS
  <2>3. k * m = n * m + j * m
    BY <2>1
  <2> QED
    BY <2>2, <2>3
<1>2. PICK j \in Nat : n = k + 1 + j
  <2>1. n - k - 1 \in Nat /\ n = k + 1 + (n - k - 1)
    BY <1>1
  <2> QED
    BY <2>1
<1>3. n * m = (k + 1) * m + j * m
  BY <1>2
<1>4. j * m \in Nat /\ (k + 1) * m \in Nat
  OBVIOUS
<1>5. (k + 1) * m <= n * m
  BY <1>3, <1>4
<1>6. (k + 1) * m = k * m + m
  OBVIOUS
<1> QED
  BY <1>5, <1>6

\* The capacity wraps when the array is as large as can be, and not before.
LEMMA Wraps ==
  ASSUME NEW n \in Nat, n <= CapRange
  PROVE  n % CapRange = IF n = CapRange THEN 0 ELSE n
BY GrowthAssumption

LEMMA GrownTyped ==
  ASSUME NEW f \in Frames
  PROVE  /\ Grown(f) \in Frames
         /\ Grown(f).kind = f.kind /\ Grown(f).count = f.count
<1>1. f.count + Increment \in Nat /\ (f.cap + Increment) % CapRange \in Nat
  BY GrowthAssumption DEF Frames
<1> QED
  BY <1>1 DEF Grown, Frames

\* An array that is grown when it is full has room for one element more.
LEMMA GrownHasRoom ==
  ASSUME NEW f \in Frames, Sized(f), Fits(f)
  PROVE  Sized(Grown(f)) /\ HasRoom(Grown(f))
<1> DEFINE g == Grown(f)
<1>0. f.count \in Nat /\ f.cap \in Nat /\ f.size \in Nat
  BY DEF Frames
<1>1. PICK n \in 1 .. CapRange : CapRange = n * Increment
  BY GrowthAssumption
<1>2. PICK k \in Nat : f.size = k * Increment
  BY DEF Sized
<1>3. CASE f.cap # f.count
  <2>1. g = f
    BY <1>3 DEF Grown
  <2>2. f.size # CapRange => f.count < f.size
    BY <1>0, <1>3 DEF Sized, Fits
  <2> QED
    BY <2>1, <2>2 DEF HasRoom
<1>4. CASE f.cap = f.count
  <2>1. /\ g.size = f.count + Increment /\ g.cap = (f.cap + Increment) % CapRange
        /\ g.count = f.count
    BY <1>4 DEF Grown, Frames
  <2>2. \E j \in Nat : f.count + Increment = j * Increment
    <3>1. CASE f.size = CapRange
      <4>1. f.count + Increment = 1 * Increment
        BY <1>4, <3>1, GrowthAssumption DEF Sized
      <4> QED
        BY <4>1
    <3>2. CASE f.size # CapRange
      <4>1. f.count + Increment = (k + 1) * Increment
        <5>1. f.count = k * Increment
          BY <1>2, <1>4, <3>2 DEF Sized
        <5> QED
          BY <5>1, GrowthAssumption
      <4> QED
        BY <4>1
    <3> QED
      BY <3>1, <3>2
  <2>3. f.count + Increment <= CapRange
    <3>1. CASE f.size = CapRange
      <4>1. f.count = 0
        BY <1>4, <3>1 DEF Sized
      <4>2. n * Increment >= Increment
        <5>1. n - 1 \in Nat /\ n * Increment = (n - 1) * Increment + Increment
          BY GrowthAssumption
        <5>2. (n - 1) * Increment \in Nat
          BY <5>1, GrowthAssumption
        <5> QED
          BY <5>1, <5>2, GrowthAssumption
      <4> QED
        BY <1>1, <4>1, <4>2, GrowthAssumption
    <3>2. CASE f.size # CapRange
      <4>1. f.count = k * Increment /\ k * Increment < n * Increment
        BY <1>0, <1>1, <1>2, <1>4, <3>2, GrowthAssumption DEF Sized
      <4>2. (k + 1) * Increment <= n * Increment /\ (k + 1) * Increment = k * Increment + Increment
        BY <4>1, MultiplesApart, GrowthAssumption
      <4> QED
        BY <1>1, <4>1, <4>2
    <3> QED
      BY <3>1, <3>2
  <2>4. g.cap = IF g.size = CapRange THEN 0 ELSE g.size
    <3>1. f.count + Increment \in Nat
      BY <1>0, GrowthAssumption
    <3>2. (f.count + Increment) % CapRange
            = IF f.count + Increment = CapRange THEN 0 ELSE f.count + Increment
      BY <2>3, <3>1, Wraps
    <3> QED
      BY <1>4, <2>1, <3>2
  <2>5. Sized(g)
    BY <2>1, <2>2, <2>3, <2>4 DEF Sized
  <2>6. HasRoom(g)
    BY <1>0, <2>1, GrowthAssumption DEF HasRoom
  <2> QED
    BY <2>5, <2>6
<1> QED
  BY <1>3, <1>4

-----------------------------------------------------------------------------
\* The frames of the open objects and arrays.

\* All elements before the last ones are being read or have a slot.
Ready(s) ==
  /\ s \in Seq(Frames)
  /\ \A i \in 1 .. Len(s) : Sized(s[i]) /\ HasRoom(s[i])

LEMMA TopTyped ==
  ASSUME TypeOK, stack # <<>>
  PROVE  /\ stack \in Seq(Frames) /\ Depth \in Nat \ {0} /\ Depth \in DOMAIN stack
         /\ Top \in Frames
<1>1. stack \in Seq(Frames) /\ Len(stack) \in Nat \ {0} /\ Len(stack) \in 1 .. Len(stack)
  BY DEF TypeOK
<1>2. stack[Len(stack)] \in Frames
  BY <1>1
<1> QED
  BY <1>1, <1>2 DEF Depth, Top

LEMMA GrownStackReady ==
  ASSUME Inv, stack # <<>>, fault = "none", expect # "unwind"
  PROVE  Ready(GrownStack) /\ Len(GrownStack) = Depth
<1>0. /\ stack \in Seq(Frames) /\ Depth \in Nat \ {0} /\ Depth = Len(stack)
      /\ Top \in Frames /\ Top = stack[Depth]
  BY TopTyped DEF Inv, Depth, Top
<1>1. Grown(Top) \in Frames
  BY <1>0, GrownTyped
<1>2. Sized(Top) /\ Fits(Top)
  BY <1>0 DEF Inv, FramesSound
<1>3. Sized(Grown(Top)) /\ HasRoom(Grown(Top))
  BY <1>0, <1>2, GrownHasRoom
<1>4. /\ GrownStack \in Seq(Frames) /\ Len(GrownStack) = Depth
      /\ \A i \in 1 .. Depth : GrownStack[i] = IF i = Depth THEN Grown(Top) ELSE stack[i]
  BY <1>0, <1>1 DEF GrownStack
<1>5. \A i \in 1 .. Depth : i # Depth => Sized(stack[i]) /\ HasRoom(stack[i])
  BY <1>0 DEF Inv, FramesSound
<1>6. \A i \in 1 .. Depth : Sized(GrownStack[i]) /\ HasRoom(GrownStack[i])
  <2> TAKE i \in 1 .. Depth
  <2>1. CASE i = Depth
    BY <1>3, <1>4, <2>1
  <2>2. CASE i # Depth
    BY <1>4, <1>5, <2>2
  <2> QED
    BY <2>1, <2>2
<1> QED
  BY <1>4, <1>6 DEF Ready

\* Where a value begins, its frame has room for it.
LEMMA ForValueReady ==
  ASSUME Inv, Running, AtValue
  PROVE  /\ Ready(ForValue) /\ Len(ForValue) = Depth
         /\ GrownTemps \subseteq 1 .. Depth
<1>0. fault = "none" /\ TypeOK /\ Depth \in Nat /\ stack \in Seq(Frames) /\ Depth = Len(stack)
  BY DEF Inv, Running, TypeOK, Depth
<1>1. CASE expect = "value"
  <2>1. \A i \in 1 .. Depth : Sized(stack[i]) /\ HasRoom(stack[i])
    <3> TAKE i \in 1 .. Depth
    <3>1. stack # <<>>
      BY <1>0
    <3>2. CASE i = Depth
      BY <1>0, <1>1, <3>1, <3>2 DEF Inv, FramesSound, Top
    <3>3. CASE i # Depth
      BY <1>0, <1>1, <3>3 DEF Inv, FramesSound
    <3> QED
      BY <3>2, <3>3
  <2>2. ForValue = stack /\ GrownTemps = temps
    BY <1>1 DEF ForValue, GrownTemps
  <2>3. Ready(stack)
    BY <1>0, <2>1 DEF Ready
  <2> QED
    BY <1>0, <2>2, <2>3 DEF TypeOK
<1>2. CASE expect # "value"
  <2>1. expect \in {"first", "next"} /\ stack # <<>>
    BY <1>2 DEF AtValue, Inv, Where
  <2>2. ForValue = GrownStack /\ GrownTemps = temps \cup {Depth}
    BY <1>2 DEF ForValue, GrownTemps
  <2>3. Depth \in 1 .. Depth
    BY <1>0, <2>1, TopTyped
  <2> QED
    BY <1>0, <2>1, <2>2, <2>3, GrownStackReady DEF TypeOK
<1> QED
  BY <1>1, <1>2

\* The frames around the innermost one have room for it.
LEMMA OuterReady ==
  ASSUME Inv, Running, stack # <<>>, expect # "unwind"
  PROVE  /\ Ready(SubSeq(stack, 1, Depth - 1)) /\ Len(SubSeq(stack, 1, Depth - 1)) = Depth - 1
         /\ Depth - 1 \in Nat
<1>0. /\ fault = "none" /\ Depth \in Nat \ {0} /\ stack \in Seq(Frames)
      /\ Depth = Len(stack)
  BY TopTyped DEF Inv, Running, Depth
<1> DEFINE s == SubSeq(stack, 1, Depth - 1)
<1>1. /\ s \in Seq(Frames) /\ Len(s) = Depth - 1
      /\ \A i \in 1 .. Depth - 1 : s[i] = stack[i]
  BY <1>0
<1>2. \A i \in 1 .. Depth - 1 : Sized(stack[i]) /\ HasRoom(stack[i])
  BY <1>0 DEF Inv, FramesSound
<1> HIDE DEF s
<1>3. \A i \in 1 .. Depth - 1 : Sized(s[i]) /\ HasRoom(s[i])
  BY <1>1, <1>2
<1> QED
  BY <1>0, <1>1, <1>3 DEF Ready, s

\* A value is complete: the frame it belongs to has one element more, and only
\* a frame whose capacity has wrapped has had no slot for it.
LEMMA CompletesSound ==
  ASSUME NEW s, Ready(s), Completes(s), fault = "none"
  PROVE  /\ stack' \in Seq(Frames) /\ Len(stack') = Len(s)
         /\ expect' \in {"root", "sep"} /\ (expect' = "root" <=> stack' = <<>>)
         /\ fault' \in {"none", "overflow"} /\ (fault' # "none" => phase = "real")
         /\ FramesSound' /\ TempsHaveRoom'
<1>1. CASE s = <<>>
  <2>1. expect' = "root" /\ stack' = <<>> /\ fault' = "none"
    BY <1>1 DEF Completes
  <2> QED
    BY <1>1, <2>1 DEF FramesSound, TempsHaveRoom, Depth
<1>2. CASE s # <<>>
  <2> DEFINE d == Len(s)
             f == [s[d] EXCEPT !.count = @ + 1]
  <2>1. /\ s \in Seq(Frames) /\ d \in Nat \ {0} /\ s[d] \in Frames /\ d \in 1 .. d
        /\ Sized(s[d]) /\ HasRoom(s[d])
    BY <1>2 DEF Ready
  <2>2. /\ expect' = "sep" /\ stack' = [s EXCEPT ![d].count = @ + 1]
        /\ fault' = IF phase = "real" /\ s[d].count >= s[d].size
                    THEN "overflow" ELSE fault
    BY <1>2 DEF Completes
  <2>3. /\ f \in Frames /\ f.count = s[d].count + 1 /\ f.size = s[d].size
        /\ f.cap = s[d].cap /\ f.size \in Nat /\ f.count \in Nat
    BY <2>1 DEF Frames
  <2>4. /\ stack' \in Seq(Frames) /\ Len(stack') = d /\ stack'[d] = f
        /\ \A i \in 1 .. d : i # d => stack'[i] = s[i]
    BY <2>1, <2>2, <2>3
  <2> HIDE DEF f
  <2>5. Depth' = d /\ Top' = f /\ stack' # <<>>
    BY <2>1, <2>4 DEF Depth, Top
  <2>6. Sized(f) /\ Fits(f)
    <3>1. s[d].count \in Nat /\ s[d].size \in Nat
      BY <2>1 DEF Frames
    <3> QED
      BY <2>1, <2>3, <3>1 DEF Sized, HasRoom, Fits
  <2>7. \A i \in 1 .. d : Sized(stack'[i]) /\ (i < d => HasRoom(stack'[i]))
    <3> TAKE i \in 1 .. d
    <3>1. CASE i = d
      BY <2>1, <2>4, <2>6, <3>1
    <3>2. CASE i # d
      BY <2>4, <3>2 DEF Ready
    <3> QED
      BY <3>1, <3>2
  <2>8. FramesSound'
    BY <2>2, <2>5, <2>6, <2>7 DEF FramesSound, Sized, Fits, HasRoom
  <2>9. TempsHaveRoom'
    <3>1. s[d].count \in Nat /\ s[d].size \in Nat
      BY <2>1 DEF Frames
    <3>2. s[d].count >= s[d].size => s[d].count >= CapRange
      BY <2>1, <3>1 DEF HasRoom
    <3> QED
      BY <2>2, <2>3, <2>5, <3>1, <3>2, GrowthAssumption DEF TempsHaveRoom
  <2> QED
    BY <2>2, <2>4, <2>5, <2>8, <2>9
<1> QED
  BY <1>1, <1>2

-----------------------------------------------------------------------------
\* The document and the memory.

Reading == doc \in Seq(Tokens) /\ pos \in 0 .. Len(doc)
Measure == need \in Nat /\ used \in 0 .. need /\ (phase = "dry" => used = 0)

LEMMA SeesTyped ==
  ASSUME TypeOK, NEW t \in Tokens, Sees(t)
  PROVE  /\ doc' \in Seq(Tokens) /\ pos \in 0 .. Len(doc') /\ pos + 1 \in 0 .. Len(doc')
<1>1. doc \in Seq(Tokens) /\ pos \in 0 .. Len(doc) /\ Len(doc) \in Nat
  BY DEF TypeOK
<1>2. CASE pos < Len(doc) /\ doc' = doc
  BY <1>1, <1>2
<1>3. CASE pos = Len(doc) /\ doc' = Append(doc, t)
  <2>1. Append(doc, t) \in Seq(Tokens) /\ Len(Append(doc, t)) = Len(doc) + 1
    BY <1>1
  <2> QED
    BY <1>1, <1>3, <2>1
<1> QED
  BY <1>2, <1>3 DEF Sees

LEMMA TakesReading ==
  ASSUME TypeOK, NEW t \in Tokens, Takes(t)
  PROVE  Reading'
BY SeesTyped DEF Takes, Reading

LEMMA SeesReading ==
  ASSUME TypeOK, NEW t \in Tokens, Sees(t), pos' = pos
  PROVE  Reading'
BY SeesTyped DEF Reading

LEMMA ClosingReading ==
  ASSUME TypeOK, NEW k, SeesClosing(Closing(k))
  PROVE  Reading'
<1>1. Closing(k) \in Tokens
  BY DEF Closing, Tokens
<1> QED
  BY <1>1, TakesReading, SeesReading DEF SeesClosing

LEMMA EndsReading ==
  ASSUME TypeOK, Ends
  PROVE  Reading'
<1>1. CASE SeesClosing(Closing(Top.kind))
  BY <1>1, ClosingReading
<1>2. CASE Takes(",")
  <2>1. "," \in Tokens
    BY DEF Tokens
  <2> QED
    BY <1>2, <2>1, TakesReading
<1>3. CASE (\E t \in Tokens : Sees(t)) /\ pos' = pos
  BY <1>3, SeesReading
<1> QED
  BY <1>1, <1>2, <1>3 DEF Ends

LEMMA ClaimsMeasure ==
  ASSUME Inv, NEW n \in Nat, Claims(n), phase' = phase
  PROVE  Measure'
<1>1. need \in Nat /\ used \in 0 .. need /\ (phase = "dry" => used = 0)
  BY DEF Inv, TypeOK, Phases
<1>2. CASE phase = "dry" /\ need' = need + n /\ used' = used
  BY <1>1, <1>2 DEF Measure
<1>3. CASE phase = "real" /\ used + n <= need /\ used' = used + n /\ need' = need
  BY <1>1, <1>3 DEF Measure
<1> QED
  BY <1>2, <1>3 DEF Claims

LEMMA KeepsMeasure ==
  ASSUME Inv, UNCHANGED <<need, used, phase>>
  PROVE  Measure'
BY DEF Inv, TypeOK, Phases, Measure

LEMMA SizesNat ==
  /\ ValueSize \in Nat /\ MemberSize \in Nat
  /\ \A t : StringSize(t) \in Nat
  /\ \A k : SlotSize(k) \in Nat
  /\ Strings \subseteq Tokens
BY SizesAssumption DEF StringSize, SlotSize, Strings, Tokens

\* Of a step of the parser this is left to show, the rest stays as it is.
ParseState ==
  /\ stack \in Seq(Frames) /\ temps \subseteq 1 .. Depth
  /\ expect \in {"value", "first", "next", "colon", "sep", "root", "unwind"}
  /\ fault \in {"none", "overflow", "frame"}
  /\ fault # "none" => expect # "unwind"
  /\ Where /\ FramesSound /\ TempsHaveRoom

LEMMA ParseInv ==
  ASSUME Inv, phase \in {"dry", "real"}, UNCHANGED <<limit, padded, phase, arena, refused, entity>>,
         failed' \in {"no", "invalid", "memory"},
         Reading', Measure', ParseState'
  PROVE  Inv'
<1>1. TypeOK'
  <2>1. /\ doc' \in Seq(Tokens) /\ pos' \in 0 .. Len(doc') /\ need' \in Nat
        /\ used' \in 0 .. need'
    BY DEF Reading, Measure
  <2>2. /\ stack' \in Seq(Frames) /\ temps' \subseteq 1 .. Depth'
        /\ expect' \in {"value", "first", "next", "colon", "sep", "root", "unwind"}
        /\ fault' \in {"none", "overflow", "frame"}
    BY DEF ParseState
  <2> QED
    BY <2>1, <2>2, Zenon DEF Inv, TypeOK
<1>2. Phases'
  <2>1. /\ phase' \in {"dry", "real"} /\ (fault' # "none" => expect' # "unwind")
        /\ (phase' = "dry" => used' = 0)
    BY DEF ParseState, Measure
  <2>2. /\ phase' = "dry" => arena' = "none" /\ entity' = Zero
        /\ phase' = "real" => arena' = "live" /\ entity' = Zero
    BY DEF Inv, Phases
  <2> QED
    BY <2>1, <2>2 DEF Phases, Done
<1> QED
  BY <1>1, <1>2 DEF Inv, ParseState

LEMMA CompletesInv ==
  ASSUME Inv, Running, NEW s, Ready(s), Completes(s), UNCHANGED still,
         temps' \subseteq 1 .. Len(s), Reading', Measure'
  PROVE  Inv'
<1>1. /\ stack' \in Seq(Frames) /\ Len(stack') = Len(s)
      /\ expect' \in {"root", "sep"} /\ (expect' = "root" <=> stack' = <<>>)
      /\ fault' \in {"none", "overflow"} /\ FramesSound' /\ TempsHaveRoom'
  BY CompletesSound DEF Running
<1>2. Where'
  BY <1>1 DEF Where
<1>3. ParseState'
  BY <1>1, <1>2 DEF ParseState, Depth
<1> QED
  BY <1>3, ParseInv DEF still, Running, Inv, TypeOK

-----------------------------------------------------------------------------
\* The parser, action by action.

LEMMA ValueInv ==
  ASSUME Inv, Word \/ Text
  PROVE  Inv'
<1>1. /\ Ready(ForValue) /\ Completes(ForValue) /\ Running /\ UNCHANGED still
      /\ temps' \subseteq 1 .. Len(ForValue)
  BY ForValueReady DEF Word, Text
<1>2. CASE Word
  <2>1. Reading'
    <3>1. \A t \in Literals : t \in Tokens
      BY DEF Tokens
    <3> QED
      BY <1>2, <3>1, TakesReading DEF Word, Inv
  <2>2. Measure'
    BY <1>2, KeepsMeasure DEF Word, still
  <2> QED
    BY <1>1, <2>1, <2>2, CompletesInv
<1>3. CASE Text
  <2>1. PICK t \in Strings : Takes(t) /\ Claims(StringSize(t))
    BY <1>3 DEF Text
  <2>2. Reading'
    BY <2>1, TakesReading, SizesNat DEF Inv
  <2>3. Measure'
    BY <1>1, <2>1, ClaimsMeasure, SizesNat DEF still
  <2> QED
    BY <1>1, <2>2, <2>3, CompletesInv
<1> QED
  BY <1>2, <1>3

LEMMA OpenInv ==
  ASSUME Inv, Open
  PROVE  Inv'
<1>1. /\ Ready(ForValue) /\ Len(ForValue) = Depth /\ GrownTemps \subseteq 1 .. Depth
      /\ Running /\ UNCHANGED <<still, need, used, fault>> /\ temps' = GrownTemps
      /\ expect' = "first"
  BY ForValueReady DEF Open
<1>2. PICK k \in Kinds :
        /\ Takes(IF k = "object" THEN "{" ELSE "[")
        /\ stack' = Append(ForValue, [kind |-> k, count |-> 0, cap |-> 0, size |-> 0])
  BY DEF Open
<1> DEFINE f == [kind |-> k, count |-> 0, cap |-> 0, size |-> 0]
<1>3. f \in Frames /\ Sized(f) /\ Fits(f)
  <2>1. 0 = 0 * Increment
    BY GrowthAssumption
  <2> QED
    BY <2>1, GrowthAssumption DEF Frames, Sized, Fits
<1>4. /\ stack' \in Seq(Frames) /\ Len(stack') = Depth + 1 /\ stack'[Depth + 1] = f
      /\ \A i \in 1 .. Depth : stack'[i] = ForValue[i]
      /\ Depth \in Nat
  <2> HIDE DEF f
  <2>1. ForValue \in Seq(Frames) /\ Len(ForValue) \in Nat
    BY <1>1 DEF Ready
  <2>2. stack' = Append(ForValue, f)
    BY <1>2 DEF f
  <2> QED
    BY <1>1, <1>3, <2>1, <2>2
<1> HIDE DEF f
<1>5. Depth' = Depth + 1 /\ Top' = f /\ stack' # <<>> /\ fault' = "none"
  BY <1>1, <1>4 DEF Depth, Top, Running
<1>6. FramesSound'
  <2>1. \A i \in 1 .. Depth : Sized(stack'[i]) /\ HasRoom(stack'[i])
    BY <1>1, <1>4 DEF Ready
  <2>2. \A i \in 1 .. Depth + 1 : Sized(stack'[i]) /\ (i < Depth + 1 => HasRoom(stack'[i]))
    <3> TAKE i \in 1 .. Depth + 1
    <3>1. CASE i = Depth + 1
      BY <1>3, <1>4, <3>1
    <3>2. CASE i # Depth + 1
      BY <1>4, <2>1, <3>2
    <3> QED
      BY <3>1, <3>2
  <2> QED
    BY <1>1, <1>3, <1>5, <2>2 DEF FramesSound, Sized, Fits, HasRoom
<1>7. Where' /\ TempsHaveRoom' /\ temps' \subseteq 1 .. Depth'
  BY <1>1, <1>4, <1>5 DEF Where, TempsHaveRoom
<1>8. ParseState'
  BY <1>1, <1>4, <1>5, <1>6, <1>7 DEF ParseState
<1>9. Reading'
  BY <1>2, TakesReading DEF Inv, Tokens
<1>10. Measure'
  BY <1>1, KeepsMeasure DEF still
<1> QED
  BY <1>1, <1>8, <1>9, <1>10, ParseInv DEF still, Running, Inv, TypeOK

\* The innermost frame is left, and with it its temporary array.
LEMMA EmptyArrayInv ==
  ASSUME Inv, EmptyArray
  PROVE  Inv'
<1> DEFINE s == SubSeq(stack, 1, Depth - 1)
<1>1. /\ Running /\ stack # <<>> /\ expect = "first" /\ Depth \notin temps
      /\ temps \subseteq 1 .. Depth /\ Depth \in Nat \ {0}
  BY TopTyped DEF EmptyArray, Inv, Where, TypeOK
<1>2. Ready(s) /\ Len(s) = Depth - 1 /\ Depth - 1 \in Nat
  BY <1>1, OuterReady
<1> HIDE DEF s
<1>3. Completes(s) /\ UNCHANGED <<temps, need, used, still>>
  BY DEF EmptyArray, s
<1>4. temps' \subseteq 1 .. Len(s)
  BY <1>1, <1>2, <1>3
<1>5. Reading'
  <2>1. SeesClosing(Closing("array"))
    BY DEF EmptyArray, Closing
  <2> QED
    BY <2>1, ClosingReading DEF Inv
<1>6. Measure'
  BY <1>3, KeepsMeasure DEF still
<1> QED
  BY <1>1, <1>2, <1>3, <1>4, <1>5, <1>6, CompletesInv

LEMMA EmptyObjectInv ==
  ASSUME Inv, EmptyObject
  PROVE  Inv'
<1> DEFINE s == SubSeq(stack, 1, Depth - 1)
<1>1. /\ Running /\ stack # <<>> /\ expect = "first" /\ Depth \notin temps
      /\ temps \subseteq 1 .. Depth /\ fault = "none" /\ Depth \in Nat \ {0}
      /\ UNCHANGED <<temps, used, still>>
  BY TopTyped DEF EmptyObject, Inv, Where, TypeOK, Running
<1>2. Ready(s) /\ Len(s) = Depth - 1 /\ Depth - 1 \in Nat
  BY <1>1, OuterReady
<1>3. Reading'
  <2>1. SeesClosing(Closing("object"))
    BY DEF EmptyObject, Closing
  <2> QED
    BY <2>1, ClosingReading DEF Inv
<1>4. CASE Completes(s) /\ need' = IF phase = "dry" THEN 0 ELSE need
  <2> HIDE DEF s
  <2>1. temps' \subseteq 1 .. Len(s)
    BY <1>1, <1>2
  <2>2. Measure'
    BY <1>1, <1>4 DEF Measure, Inv, TypeOK, Phases, still
  <2> QED
    BY <1>1, <1>2, <1>3, <1>4, <2>1, <2>2, CompletesInv
<1>5. CASE fault' = "frame" /\ UNCHANGED <<expect, stack, need>>
  <2>1. ParseState'
    BY <1>1, <1>5 DEF ParseState, Where, FramesSound, TempsHaveRoom, Inv, TypeOK, Depth, Top
  <2>2. Measure'
    BY <1>1, <1>5, KeepsMeasure DEF still
  <2> QED
    BY <1>1, <1>3, <2>1, <2>2, ParseInv DEF still, Running, Inv, TypeOK
<1> QED
  BY <1>4, <1>5 DEF EmptyObject

LEMMA CloseInv ==
  ASSUME Inv, Close
  PROVE  Inv'
<1> DEFINE s == SubSeq(stack, 1, Depth - 1)
<1>1. /\ Running /\ stack # <<>> /\ expect \in {"sep", "next"}
      /\ temps \subseteq 1 .. Depth /\ Top \in Frames /\ Depth \in Nat \ {0}
  BY TopTyped DEF Close, Inv, Where, TypeOK
<1>2. Ready(s) /\ Len(s) = Depth - 1 /\ Depth - 1 \in Nat
  BY <1>1, OuterReady
<1>3. /\ Claims(Top.count * SlotSize(Top.kind)) /\ Completes(s)
      /\ temps' = temps \ {Depth} /\ UNCHANGED still
  BY DEF Close
<1>4. temps' \subseteq 1 .. Len(s)
  <2> HIDE DEF s
  <2> QED
    BY <1>1, <1>2, <1>3
<1>5. Reading'
  BY EndsReading DEF Close, Inv
<1>6. Measure'
  <2>1. Top.count \in Nat /\ SlotSize(Top.kind) \in Nat
    BY <1>1, SizesNat DEF Frames
  <2>2. Top.count * SlotSize(Top.kind) \in Nat
    BY <2>1
  <2> QED
    BY <1>3, <2>2, ClaimsMeasure DEF still
<1> HIDE DEF s
<1> QED
  BY <1>1, <1>2, <1>3, <1>4, <1>5, <1>6, CompletesInv

\* The frame of a member that is being read has a slot for it.
LEMMA KeyInv ==
  ASSUME Inv, Key
  PROVE  Inv'
<1>1. /\ Running /\ stack # <<>> /\ fault = "none" /\ expect \in {"first", "next"}
      /\ stack' = GrownStack /\ temps' = temps \cup {Depth} /\ expect' = "colon"
      /\ UNCHANGED <<fault, still>> /\ temps \subseteq 1 .. Depth
  BY DEF Key, AtMember, Running, Inv, Where, TypeOK
<1>2. Ready(stack') /\ Len(stack') = Depth /\ Depth \in Nat \ {0}
  BY <1>1, GrownStackReady, TopTyped DEF Inv
<1>3. /\ stack' \in Seq(Frames) /\ Depth' = Depth /\ stack' # <<>>
      /\ \A i \in 1 .. Depth : Sized(stack'[i]) /\ HasRoom(stack'[i])
      /\ Top' = stack'[Depth] /\ Top' \in Frames
  BY <1>2 DEF Ready, Depth, Top
<1>4. Fits(Top')
  BY <1>2, <1>3 DEF HasRoom, Fits, Frames
<1>5. FramesSound'
  BY <1>1, <1>2, <1>3, <1>4 DEF FramesSound, Sized, HasRoom, Fits
<1>6. ParseState'
  <2>1. temps' \subseteq 1 .. Depth'
    BY <1>1, <1>2, <1>3
  <2>2. fault' = "none" /\ expect' = "colon"
    BY <1>1
  <2>3. Where' /\ TempsHaveRoom'
    BY <1>3, <2>2 DEF Where, TempsHaveRoom
  <2> QED
    BY <1>3, <1>5, <2>1, <2>2, <2>3 DEF ParseState
<1>7. PICK t \in Strings : Takes(t) /\ Claims(ValueSize + StringSize(t))
  BY DEF Key
<1>8. Reading'
  BY <1>7, TakesReading, SizesNat DEF Inv
<1>9. Measure'
  <2>1. ValueSize + StringSize(t) \in Nat
    BY SizesNat
  <2> QED
    BY <1>1, <1>7, <2>1, ClaimsMeasure DEF still
<1> QED
  BY <1>1, <1>6, <1>8, <1>9, ParseInv DEF still, Running, Inv, TypeOK

LEMMA PunctuationInv ==
  ASSUME Inv, Colon \/ Comma
  PROVE  Inv'
<1>1. /\ Running /\ stack # <<>> /\ fault = "none"
      /\ UNCHANGED <<stack, temps, need, used, fault, still>>
      /\ \/ expect = "colon" /\ expect' = "value"
         \/ expect = "sep" /\ expect' = "next"
  BY DEF Colon, Comma, Running, Inv, Where
<1>2. Reading'
  <2>1. ":" \in Tokens /\ "," \in Tokens
    BY DEF Tokens
  <2> QED
    BY <2>1, TakesReading DEF Colon, Comma, Inv
<1>3. Measure'
  BY <1>1, KeepsMeasure DEF still
<1>4. ParseState'
  <2>1. FramesSound'
    BY <1>1 DEF Inv, FramesSound, Depth, Top
  <2> QED
    BY <1>1, <2>1 DEF ParseState, Where, TempsHaveRoom, Inv, TypeOK, Depth, Top
<1> QED
  BY <1>1, <1>2, <1>3, <1>4, ParseInv DEF still, Running, Inv, TypeOK

-----------------------------------------------------------------------------
\* Failure, and what comes before and after the parser.

\* A step that fails leaves typed frames and goes back from here.
LEMMA FailingInv ==
  ASSUME Inv, Running, Reading', expect' = "unwind", failed' \in {"invalid", "memory"},
         UNCHANGED <<limit, padded, phase, need, used, arena, refused, entity, fault>>,
         stack' \in Seq(Frames), Len(stack') = Depth, temps' \subseteq 1 .. Depth
  PROVE  Inv'
<1>1. Measure'
  BY KeepsMeasure
<1>2. ParseState'
  BY DEF ParseState, Running, Where, FramesSound, TempsHaveRoom, Depth
<1> QED
  BY <1>1, <1>2, ParseInv DEF Running

LEMMA FailInv ==
  ASSUME Inv, Reject \/ Refuse
  PROVE  Inv'
<1>0. /\ Running /\ expect # "unwind" /\ expect' = "unwind" /\ fault = "none"
      /\ failed' \in {"invalid", "memory"} /\ TypeOK
      /\ UNCHANGED <<limit, padded, phase, need, used, arena, refused, entity, fault>>
      /\ Depth \in Nat /\ Depth = Len(stack) /\ stack \in Seq(Frames)
      /\ temps \subseteq 1 .. Depth
  <2>1. Running
    BY DEF Reject, Refuse
  <2>2. expect # "unwind"
    <3>1. CASE Refuse
      BY <3>1 DEF Refuse, AtValue, AtMember
    <3>2. CASE Reject
      BY <3>2 DEF Reject, Acceptable
    <3> QED
      BY <3>1, <3>2
  <2> QED
    BY <2>1, <2>2 DEF Reject, Refuse, Running, Inv, TypeOK, Depth
<1>1. Reading'
  <2>1. CASE Reject
    BY <1>0, <2>1, SeesReading DEF Reject
  <2>2. CASE \E t \in Strings : Takes(t)
    BY <1>0, <2>2, TakesReading, SizesNat
  <2>3. CASE Ends
    BY <1>0, <2>3, EndsReading
  <2> QED
    BY <2>1, <2>2, <2>3 DEF Refuse
<1>2. /\ stack' \in Seq(Frames) /\ Len(stack') = Depth /\ temps' \subseteq 1 .. Depth
  <2>1. CASE UNCHANGED <<stack, temps>>
    BY <1>0, <2>1
  <2>2. CASE /\ stack' = GrownStack /\ temps' = temps \cup {Depth}
             /\ expect \in {"first", "next"}
    <3>1. stack # <<>>
      BY <2>2 DEF Inv, Where
    <3>2. Ready(GrownStack) /\ Len(GrownStack) = Depth /\ Depth \in Nat \ {0}
      BY <1>0, <3>1, GrownStackReady, TopTyped DEF Inv
    <3>3. temps' \subseteq 1 .. Depth
      <4>1. Depth \in 1 .. Depth
        BY <3>2
      <4> QED
        BY <1>0, <2>2, <4>1, Zenon
    <3> QED
      BY <2>2, <3>2, <3>3 DEF Ready
  <2>3. CASE AtValue /\ stack' = ForValue /\ temps' = GrownTemps
    BY <1>0, <2>3, ForValueReady DEF Ready
  <2> QED
    BY <2>1, <2>2, <2>3 DEF Reject, Refuse, AtMember
<1> QED
  BY <1>0, <1>1, <1>2, FailingInv

LEMMA UnwindInv ==
  ASSUME Inv, Unwind
  PROVE  Inv'
<1>0. /\ stack # <<>> /\ expect = "unwind" /\ expect' = "unwind"
      /\ stack' = SubSeq(stack, 1, Depth - 1) /\ temps' = temps \ {Depth}
      /\ temps \subseteq 1 .. Depth
      /\ UNCHANGED <<doc, limit, padded, phase, pos, need, used, failed, arena,
                     refused, entity, fault>>
  BY DEF Unwind, Inv, TypeOK
<1>1. stack \in Seq(Frames) /\ Depth \in Nat \ {0} /\ Depth = Len(stack)
  BY <1>0, TopTyped DEF Inv, Depth
<1>2. stack' \in Seq(Frames) /\ Depth' = Depth - 1 /\ Depth - 1 \in Nat
  <2>1. /\ SubSeq(stack, 1, Depth - 1) \in Seq(Frames)
        /\ Len(SubSeq(stack, 1, Depth - 1)) = Depth - 1
    BY <1>1
  <2> QED
    BY <1>0, <1>1, <2>1 DEF Depth
<1>3. phase \in {"dry", "real"} /\ fault = "none"
  BY <1>0 DEF Inv, Phases, Done, TypeOK
<1>4. ParseState'
  <2>1. temps' \subseteq 1 .. Depth'
    <3>1. (1 .. Depth) \ {Depth} = 1 .. Depth - 1
      BY <1>1
    <3> QED
      BY <1>0, <1>2, <3>1, Zenon
  <2>2. fault' = "none" /\ expect' = "unwind"
    BY <1>0, <1>3
  <2> QED
    BY <1>2, <2>1, <2>2 DEF ParseState, Where, FramesSound, TempsHaveRoom
<1>5. Reading'
  BY <1>0 DEF Reading, Inv, TypeOK
<1>6. Measure'
  BY <1>0, KeepsMeasure
<1> QED
  BY <1>0, <1>3, <1>4, <1>5, <1>6, ParseInv DEF Inv, TypeOK

\* The runs begin with no frame and no temporary array, and end like that.
LEMMA RunsInv ==
  ASSUME Inv, Measured \/ MeasuredInVain \/ Built \/ GiveUp \/ fpx_json_destroy
  PROVE  Inv'
<1> USE DEF Inv
<1>1. /\ fault = "none" /\ fault' = "none" /\ stack = <<>> /\ stack' = <<>>
      /\ UNCHANGED <<doc, limit, padded, temps, need, used, failed>>
      /\ phase' \in {"real", "done", "destroyed"}
      /\ arena' \in {"none", "live", "freed"} /\ refused' \in BOOLEAN
      /\ expect' \in {"value", "root", "unwind"} /\ pos' \in 0 .. Len(doc)
      /\ expect' = "root" => expect = "root"
  <2>1. CASE Measured
    BY <2>1 DEF Measured, Finished, Where, TypeOK
  <2>2. CASE MeasuredInVain
    BY <2>2 DEF MeasuredInVain, Finished, Where, TypeOK, run
  <2>3. CASE Built
    BY <2>3 DEF Built, Finished, Where, TypeOK, run
  <2>4. CASE GiveUp
    BY <2>4 DEF GiveUp, Phases, TypeOK, run
  <2>5. CASE fpx_json_destroy
    <3>1. fault = "none" /\ stack = <<>> /\ expect \in {"root", "unwind", "value"}
      BY <2>5 DEF fpx_json_destroy, Phases, Where, Done, TypeOK
    <3> QED
      BY <2>5, <3>1 DEF fpx_json_destroy, TypeOK, run
  <2> QED
    BY <2>1, <2>2, <2>3, <2>4, <2>5
<1>2. /\ entity' \in [valid : BOOLEAN, arena : BOOLEAN, root : {"none", "tree", "sizes"}]
      /\ Phases'
  <2>1. CASE Measured
    BY <1>1, <2>1 DEF Measured, Phases, Done, TypeOK
  <2>2. CASE MeasuredInVain
    BY <1>1, <2>2 DEF MeasuredInVain, Phases, Done, TypeOK
  <2>3. CASE Built
    BY <1>1, <2>3 DEF Built, Phases, Done, TypeOK
  <2>4. CASE GiveUp
    BY <1>1, <2>4 DEF GiveUp, Phases, Done, TypeOK, Zero
  <2>5. CASE fpx_json_destroy
    BY <1>1, <2>5 DEF fpx_json_destroy, Phases, Done, TypeOK, Zero
  <2> QED
    BY <2>1, <2>2, <2>3, <2>4, <2>5
<1>3. TypeOK'
  <2>1. Depth' = Depth
    BY <1>1 DEF Depth
  <2> QED
    BY <1>1, <1>2, <2>1 DEF TypeOK
<1>4. Where' /\ FramesSound' /\ TempsHaveRoom'
  <2>1. Depth' = 0
    BY <1>1 DEF Depth
  <2> QED
    BY <1>1, <2>1 DEF Where, FramesSound, TempsHaveRoom
<1> QED
  BY <1>2, <1>3, <1>4

-----------------------------------------------------------------------------
LEMMA InitInv == Init => Inv
<1> SUFFICES ASSUME Init PROVE Inv
  OBVIOUS
<1>1. Depth = 0
  BY DEF Init, Depth
<1>2. TypeOK
  <2>1. doc \in Seq(Tokens) /\ stack \in Seq(Frames) /\ pos \in 0 .. Len(doc)
    BY DEF Init
  <2>2. entity \in [valid : BOOLEAN, arena : BOOLEAN, root : {"none", "tree", "sizes"}]
    BY DEF Init, Zero
  <2> QED
    BY <1>1, <2>1, <2>2 DEF Init, TypeOK
<1>3. Where /\ Phases /\ FramesSound /\ TempsHaveRoom
  BY <1>1 DEF Init, Where, Phases, FramesSound, TempsHaveRoom, Done
<1> QED
  BY <1>2, <1>3 DEF Inv

LEMMA NextInv == Inv /\ [Next]_vars => Inv'
<1> SUFFICES ASSUME Inv, [Next]_vars PROVE Inv'
  OBVIOUS
<1>1. CASE Parse
  BY <1>1, ValueInv, OpenInv, EmptyArrayInv, EmptyObjectInv, KeyInv, PunctuationInv, CloseInv
     DEF Parse
<1>2. CASE Fail
  BY <1>2, FailInv, UnwindInv, RunsInv DEF Fail
<1>3. CASE Measured \/ MeasuredInVain \/ Built \/ fpx_json_destroy
  BY <1>3, RunsInv
<1>4. CASE UNCHANGED vars
  BY <1>4 DEF vars, run, Inv, TypeOK, Where, Phases, FramesSound, TempsHaveRoom,
              Depth, Top, Done, Sized, Fits, HasRoom
<1> QED
  BY <1>1, <1>2, <1>3, <1>4 DEF Next

THEOREM AlwaysInv == Spec => []Inv
BY InitInv, NextInv, PTL DEF Spec

\* Every variable of the reader has its type, for any document: the real run never
\* takes more from the arena than it was made for, and a temporary array belongs to
\* an object or array that is open.  (fpx_json_read and what it calls.)
THEOREM TypeCorrect == Spec => []TypeOK
<1>1. Inv => TypeOK
  BY DEF Inv
<1> QED
  BY <1>1, AlwaysInv, PTL

\* However deep a document that fails is nested, no temporary array is left when
\* fpx_json_read returns, nor an arena that the entity does not hold.  (The error
\* paths of the parser, and fpx_json_read.)
THEOREM NothingIsLeft == Spec => []NothingLeft
<1>1. Inv => NothingLeft
  <2> SUFFICES ASSUME Inv, Done PROVE temps = {} /\ (arena = "live" <=> entity.arena)
    BY DEF NothingLeft
  <2>1. stack = <<>> /\ (arena = "live" <=> entity.arena) /\ temps \subseteq 1 .. Depth
    BY DEF Inv, Phases, TypeOK
  <2>2. Depth = 0
    BY <2>1 DEF Depth
  <2> QED
    BY <2>1, <2>2
<1> QED
  BY <1>1, AlwaysInv, PTL

\* For any increment that divides the range of the capacity: an element is only
\* written behind its temporary array when the container has more elements than a
\* 16-bit capacity can count.  (_json_object_parse and _json_array_parse.)
THEOREM TempsAlwaysHaveRoom == Spec => []TempsHaveRoom
<1>1. Inv => TempsHaveRoom
  BY DEF Inv
<1> QED
  BY <1>1, AlwaysInv, PTL

-----------------------------------------------------------------------------
(* The two runs do the same: what the dry run has done is a list of *)
(* configurations, each of which leads to the next one with the     *)
(* token it looks at, and the real run is at one of them.           *)

\* Where a run is in the document, and what it has added up, or taken.
Config(p, e, s, n) == [pos |-> p, expect |-> e, stack |-> s, sum |-> n]
Configs == [pos : Nat, expect : {"value", "first", "next", "colon", "sep", "root"},
            stack : Seq(Frames), sum : Nat]

Inner(c)   == c.stack[Len(c.stack)]
Outer(c)   == SubSeq(c.stack, 1, Len(c.stack) - 1)
WithRoom(c) == [c.stack EXCEPT ![Len(c.stack)] = Grown(@)]
Room(c)    == IF c.expect = "value" THEN c.stack ELSE WithRoom(c)
AtElement(c) ==
  \/ c.expect = "value"
  \/ c.expect = "first" /\ Inner(c).kind = "array"
  \/ c.expect = "next"  /\ Inner(c).kind = "array" /\ c.pos < limit
AtKey(c) ==
  /\ c.expect \in {"first", "next"} /\ Inner(c).kind = "object"
  /\ c.expect = "next" => c.pos < limit

Moved(c, k, e, s, n) == Config(c.pos + k, e, s, c.sum + n)

\* A value is complete, and s are the frames around it.
Counted(s) == IF s = <<>> THEN s ELSE [s EXCEPT ![Len(s)].count = @ + 1]
Settled(c, k, s, n) == Moved(c, k, IF s = <<>> THEN "root" ELSE "sep", Counted(s), n)

\* At the end of the document a closing bracket is looked at, not read.
Width(c) == IF c.pos = limit /\ ~EndsIn({"cut", "open past"}) THEN 0 ELSE 1

\* What the members of the innermost container take when it closes.
MembersSize(c) == Inner(c).count * SlotSize(Inner(c).kind)

\* Token t, and what it needs, leads from c to d.
After(c, t, d) ==
  \/ AtElement(c) /\ t \in Literals /\ d = Settled(c, 1, Room(c), 0)
  \/ AtElement(c) /\ t \in Strings /\ d = Settled(c, 1, Room(c), StringSize(t))
  \/ /\ AtElement(c) /\ t \in {"{", "["}
     /\ d = Moved(c, 1, "first",
                  Append(Room(c), [kind |-> IF t = "{" THEN "object" ELSE "array",
                                   count |-> 0, cap |-> 0, size |-> 0]), 0)
  \/ c.expect = "first" /\ t \in {"]", "}"} /\ d = Settled(c, Width(c), Outer(c), 0)
  \/ /\ AtKey(c) /\ t \in Strings
     /\ d = Moved(c, 1, "colon", WithRoom(c), ValueSize + StringSize(t))
  \/ c.expect = "colon" /\ d = Moved(c, 1, "value", c.stack, 0)
  \/ c.expect = "sep" /\ t = "," /\ c.pos < limit /\ d = Moved(c, 1, "next", c.stack, 0)
  \/ /\ c.expect = "sep" \/ (c.expect = "next" /\ c.pos < limit)
     /\ t \in {"]", "}"} /\ d = Settled(c, Width(c), Outer(c), MembersSize(c))
  \/ /\ c.expect = "sep" /\ t = "," /\ c.pos >= limit
     /\ d = Settled(c, 1, Outer(c), MembersSize(c))
  \/ /\ c.expect = "next" /\ c.pos = limit
     /\ d = Settled(c, 0, Outer(c), MembersSize(c))

\* There is one such configuration, and none behind the root.
LEMMA OneAfter ==
  ASSUME NEW c \in Configs, NEW t, NEW d, NEW e, TypeOK, After(c, t, d), After(c, t, e)
  PROVE  d = e /\ c.expect # "root"
<1>1. c.pos \in Nat /\ limit \in Nat
  BY BoundsAssumption DEF Configs, TypeOK
<1>2. (c.pos < limit => ~(c.pos >= limit) /\ c.pos # limit)
  BY <1>1
<1> DEFINE in  == c.pos < limit
           out == c.pos >= limit
           at  == c.pos = limit
<1>3. (in => ~out /\ ~at)
  BY <1>2
<1> HIDE DEF in, out, at
<1> QED
  BY <1>3 DEF After, AtElement, AtKey, Strings, Literals, in, out, at

\* What is looked at stays in the document.
LEMMA SeenToken ==
  ASSUME TypeOK, NEW t \in Tokens, Sees(t)
  PROVE  /\ pos \in Nat /\ pos < Len(doc') /\ doc'[pos + 1] = t
         /\ Len(doc) \in Nat /\ Len(doc) <= Len(doc')
         /\ doc' \in Seq(Tokens)
         /\ \A i \in 1 .. Len(doc) : doc'[i] = doc[i]
         /\ phase = "real" => doc' = doc
<1>1. doc \in Seq(Tokens) /\ pos \in 0 .. Len(doc) /\ Len(doc) \in Nat
  BY DEF TypeOK
<1>2. CASE pos < Len(doc) /\ t = doc[pos + 1] /\ doc' = doc
  BY <1>1, <1>2
<1>3. CASE pos = Len(doc) /\ phase = "dry" /\ doc' = Append(doc, t)
  <2>1. /\ Append(doc, t) \in Seq(Tokens) /\ Len(Append(doc, t)) = Len(doc) + 1
        /\ \A i \in 1 .. Len(doc) : Append(doc, t)[i] = doc[i]
        /\ Append(doc, t)[Len(doc) + 1] = t
    BY <1>1
  <2> QED
    BY <1>1, <1>3, <2>1
<1> QED
  BY <1>2, <1>3 DEF Sees

\* The configuration the reader is in.
LEMMA HereIs ==
  ASSUME NEW n, NEW c, c = Config(pos, expect, stack, n)
  PROVE  /\ c.pos = pos /\ c.expect = expect /\ c.stack = stack /\ c.sum = n
         /\ Inner(c) = Top /\ Outer(c) = SubSeq(stack, 1, Depth - 1)
         /\ WithRoom(c) = GrownStack /\ Room(c) = ForValue
         /\ AtElement(c) <=> AtValue
         /\ AtKey(c) <=> AtMember
         /\ Width(c) = IF AtEnd THEN 0 ELSE 1
         /\ MembersSize(c) = Top.count * SlotSize(Top.kind)
<1>1. c.pos = pos /\ c.expect = expect /\ c.stack = stack /\ c.sum = n
  BY DEF Config
<1>2. Inner(c) = Top /\ Outer(c) = SubSeq(stack, 1, Depth - 1) /\ WithRoom(c) = GrownStack
  BY <1>1 DEF Inner, Top, Depth, Outer, WithRoom, GrownStack
<1> QED
  BY <1>1, <1>2 DEF Room, ForValue, AtElement, AtValue, AtKey, AtMember, Width, AtEnd, MembersSize

LEMMA CompletesSettled ==
  ASSUME NEW c, NEW s, Completes(s), NEW k, NEW n, pos' = c.pos + k
  PROVE  Settled(c, k, s, n) = Config(pos', expect', stack', c.sum + n)
BY DEF Settled, Moved, Counted, Completes, Config

\* What is claimed.
LEMMA Claimed ==
  ASSUME Inv, NEW n \in Nat, Claims(n)
  PROVE  /\ phase = "real" => used' = used + n
         /\ phase = "dry" => used' = used /\ need' = need + n
         /\ phase = "real" => need' = need
BY DEF Claims

\* An object ends where it began.
EndsEmpty(t) == expect = "first" /\ Top.kind = "object" /\ t = "}"

\* The step reads token t and needs m bytes for it.
Reads(n, t, m) ==
  /\ Sees(t)
  /\ After(Config(pos, expect, stack, n), t, Config(pos', expect', stack', n + m))
  /\ phase = "real" => used' = used + m /\ need' = need
  /\ phase = "dry" => used' = used
  /\ phase = "dry" => need' = need + m \/ (need' = 0 /\ EndsEmpty(t))

LEMMA StringSizeNat ==
  ASSUME NEW t
  PROVE  /\ StringSize(t) \in Nat /\ ValueSize + StringSize(t) \in Nat
         /\ t \in Strings => t \in Tokens
<1>1. StringSize(t) = 0 \/ StringSize(t) = TextSize
  BY DEF StringSize
<1>2. StringSize(t) \in Nat /\ ValueSize \in Nat
  BY <1>1, SizesAssumption
<1>3. t \in Strings => t \in Tokens
  BY DEF Strings, Tokens
<1> QED
  BY <1>2, <1>3

LEMMA NothingClaimed ==
  ASSUME Inv, UNCHANGED <<need, used>>
  PROVE  /\ phase = "real" => used' = used + 0 /\ need' = need
         /\ phase = "dry" => used' = used
         /\ phase = "dry" => need' = need + 0
<1>1. need \in Nat /\ used \in Nat
  BY DEF Inv, TypeOK
<1> QED
  BY <1>1

LEMMA NothingTaken ==
  ASSUME Inv
  PROVE  used + 0 = used
BY DEF Inv, TypeOK

LEMMA WordReads ==
  ASSUME Inv, Word, NEW n \in Nat
  PROVE  \E t \in Tokens : \E m \in Nat : Reads(n, t, m)
<1> DEFINE c == Config(pos, expect, stack, n)
           d == Config(pos', expect', stack', n + 0)
<1>1. /\ c.pos = pos /\ c.sum = n /\ Room(c) = ForValue /\ (AtElement(c) <=> AtValue)
  BY HereIs
<1>2. AtValue /\ Completes(ForValue) /\ UNCHANGED <<need, used>>
  BY DEF Word
<1>20. PICK t \in Literals : Takes(t)
  BY DEF Word
<1>3. pos' = c.pos + 1 /\ Sees(t)
  BY <1>1, <1>20 DEF Takes
<1> HIDE DEF c
<1>4. Settled(c, 1, Room(c), 0) = d
  BY <1>1, <1>2, <1>3, CompletesSettled
<1> HIDE DEF d
<1>5. After(c, t, d)
  BY <1>1, <1>2, <1>4 DEF After
<1>6. Reads(n, t, 0)
  BY <1>2, <1>3, <1>5, NothingClaimed DEF Reads, c, d
<1>7. t \in Tokens /\ 0 \in Nat
  BY DEF Tokens
<1> QED
  BY <1>6, <1>7

LEMMA TextReads ==
  ASSUME Inv, Text, NEW n \in Nat
  PROVE  \E t \in Tokens : \E m \in Nat : Reads(n, t, m)
<1>1. PICK t \in Strings : Takes(t) /\ Claims(StringSize(t))
  BY DEF Text
<1> DEFINE m == StringSize(t)
           c == Config(pos, expect, stack, n)
           d == Config(pos', expect', stack', n + m)
<1>2. /\ c.pos = pos /\ c.sum = n /\ Room(c) = ForValue /\ (AtElement(c) <=> AtValue)
  BY HereIs
<1>3. AtValue /\ Completes(ForValue)
  BY DEF Text
<1>4. pos' = c.pos + 1 /\ Sees(t) /\ m \in Nat /\ t \in Tokens /\ Claims(m)
  BY <1>1, <1>2, StringSizeNat DEF Takes
<1> HIDE DEF c
<1>5. Settled(c, 1, Room(c), m) = d
  <2> HIDE DEF m
  <2> QED
    BY <1>2, <1>3, <1>4, CompletesSettled
<1> HIDE DEF d
<1>6. After(c, t, d)
  BY <1>1, <1>2, <1>3, <1>5 DEF After
<1> HIDE DEF m
<1>7. Reads(n, t, m)
  BY <1>4, <1>6, Claimed DEF Reads, c, d
<1> QED
  BY <1>4, <1>7

LEMMA OpenReads ==
  ASSUME Inv, Open, NEW n \in Nat
  PROVE  \E t \in Tokens : \E m \in Nat : Reads(n, t, m)
<1>1. PICK k \in Kinds :
        /\ Takes(IF k = "object" THEN "{" ELSE "[")
        /\ stack' = Append(ForValue, [kind |-> k, count |-> 0, cap |-> 0, size |-> 0])
  BY DEF Open
<1> DEFINE t == IF k = "object" THEN "{" ELSE "["
           c == Config(pos, expect, stack, n)
           d == Config(pos', expect', stack', n + 0)
<1>2. /\ c.pos = pos /\ c.sum = n /\ Room(c) = ForValue /\ (AtElement(c) <=> AtValue)
  BY HereIs
<1>3. AtValue /\ expect' = "first" /\ UNCHANGED <<need, used>>
  BY DEF Open, Running
<1>4. pos' = c.pos + 1 /\ Sees(t) /\ t \in {"{", "["} /\ t \in Tokens
  BY <1>1, <1>2 DEF Takes, Tokens
<1>5. k = IF t = "{" THEN "object" ELSE "array"
  BY <1>1 DEF Kinds
<1> HIDE DEF t, c
<1>6. d = Moved(c, 1, "first",
                Append(Room(c), [kind |-> IF t = "{" THEN "object" ELSE "array",
                                 count |-> 0, cap |-> 0, size |-> 0]), 0)
  BY <1>1, <1>2, <1>3, <1>4, <1>5 DEF Moved
<1> HIDE DEF d
<1>7. After(c, t, d)
  BY <1>2, <1>3, <1>4, <1>6 DEF After
<1>8. Reads(n, t, 0)
  BY <1>3, <1>4, <1>7, NothingClaimed DEF Reads, c, d
<1> QED
  BY <1>4, <1>8

LEMMA ClosingWidth ==
  ASSUME Inv, NEW c, Width(c) = IF AtEnd THEN 0 ELSE 1, NEW b, SeesClosing(b)
  PROVE  Sees(b) /\ pos' = pos + Width(c)
<1>1. pos \in Nat
  BY DEF Inv, TypeOK
<1>2. CASE ~AtEnd
  BY <1>2 DEF SeesClosing, Takes
<1>3. CASE AtEnd
  <2>1. Sees(b) /\ pos' = pos /\ Width(c) = 0
    BY <1>3 DEF SeesClosing
  <2>2. pos + 0 = pos
    BY <1>1
  <2> QED
    BY <2>1, <2>2
<1> QED
  BY <1>2, <1>3

LEMMA EmptyArrayReads ==
  ASSUME Inv, EmptyArray, NEW n \in Nat
  PROVE  \E t \in Tokens : \E m \in Nat : Reads(n, t, m)
<1> DEFINE c == Config(pos, expect, stack, n)
           d == Config(pos', expect', stack', n + 0)
           s == SubSeq(stack, 1, Depth - 1)
<1>1. c.pos = pos /\ c.sum = n /\ c.expect = expect /\ Outer(c) = s
      /\ Width(c) = IF AtEnd THEN 0 ELSE 1
  BY HereIs
<1>2. /\ expect = "first" /\ Completes(s) /\ SeesClosing("]")
      /\ UNCHANGED <<need, used>>
  BY DEF EmptyArray
<1> HIDE DEF c, s
<1>3. Sees("]") /\ pos' = pos + Width(c)
  BY <1>1, <1>2, ClosingWidth
<1>4. pos' = c.pos + Width(c) /\ "]" \in Tokens
  BY <1>1, <1>3 DEF Tokens
<1>5. Settled(c, Width(c), Outer(c), 0) = d
  BY <1>1, <1>2, <1>4, CompletesSettled
<1> HIDE DEF d
<1>6. After(c, "]", d)
  BY <1>1, <1>2, <1>3, <1>5 DEF After
<1>7. Reads(n, "]", 0)
  BY <1>2, <1>3, <1>6, NothingClaimed DEF Reads, c, d
<1> QED
  BY <1>4, <1>7

LEMMA EmptyObjectReads ==
  ASSUME Inv, EmptyObject, fault' # "frame", NEW n \in Nat
  PROVE  \E t \in Tokens : \E m \in Nat : Reads(n, t, m)
<1> DEFINE c == Config(pos, expect, stack, n)
           d == Config(pos', expect', stack', n + 0)
           s == SubSeq(stack, 1, Depth - 1)
<1>1. c.pos = pos /\ c.sum = n /\ c.expect = expect /\ Outer(c) = s
      /\ Width(c) = IF AtEnd THEN 0 ELSE 1
  BY HereIs
<1>2. /\ expect = "first" /\ Top.kind = "object" /\ Completes(s)
      /\ need' = (IF phase = "dry" THEN 0 ELSE need) /\ used' = used
  BY DEF EmptyObject
<1> HIDE DEF c, s
<1>3. Sees("}") /\ pos' = pos + Width(c)
  <2>1. SeesClosing("}")
    BY DEF EmptyObject
  <2> QED
    BY <1>1, <2>1, ClosingWidth
<1>4. pos' = c.pos + Width(c) /\ "}" \in Tokens
  BY <1>1, <1>3 DEF Tokens
<1>5. Settled(c, Width(c), Outer(c), 0) = d
  BY <1>1, <1>2, <1>4, CompletesSettled
<1> HIDE DEF d
<1>6. After(c, "}", d)
  BY <1>1, <1>2, <1>3, <1>5 DEF After
<1>7. EndsEmpty("}") /\ used' = used + 0
  <2>1. used + 0 = used
    BY NothingTaken
  <2>2. used' = used + 0
    BY <1>2, <2>1
  <2> QED
    BY <1>2, <1>3, <2>2 DEF EndsEmpty
<1>8. Reads(n, "}", 0)
  BY <1>2, <1>3, <1>6, <1>7 DEF Reads, c, d
<1> QED
  BY <1>4, <1>8

LEMMA KeyReads ==
  ASSUME Inv, Key, NEW n \in Nat
  PROVE  \E t \in Tokens : \E m \in Nat : Reads(n, t, m)
<1>1. PICK t \in Strings : Takes(t) /\ Claims(ValueSize + StringSize(t))
  BY DEF Key
<1> DEFINE m == ValueSize + StringSize(t)
           c == Config(pos, expect, stack, n)
           d == Config(pos', expect', stack', n + m)
<1>2. /\ c.pos = pos /\ c.sum = n /\ c.expect = expect /\ WithRoom(c) = GrownStack
      /\ (AtKey(c) <=> AtMember)
  BY HereIs
<1>3. /\ AtMember
      /\ stack' = GrownStack /\ expect' = "colon"
  BY DEF Key
<1>4. pos' = c.pos + 1 /\ Sees(t) /\ m \in Nat /\ t \in Tokens /\ Claims(m)
  BY <1>1, <1>2, StringSizeNat DEF Takes
<1> HIDE DEF c
<1>5. d = Moved(c, 1, "colon", WithRoom(c), ValueSize + StringSize(t))
  BY <1>2, <1>3, <1>4 DEF Moved
<1> HIDE DEF d, m
<1>6. After(c, t, d)
  BY <1>1, <1>2, <1>3, <1>5 DEF After
<1>7. Reads(n, t, m)
  BY <1>4, <1>6, Claimed DEF Reads, c, d
<1> QED
  BY <1>4, <1>7

LEMMA PunctuationReads ==
  ASSUME Inv, Colon \/ Comma, NEW n \in Nat
  PROVE  \E t \in Tokens : \E m \in Nat : Reads(n, t, m)
<1> DEFINE c == Config(pos, expect, stack, n)
           d == Config(pos', expect', stack', n + 0)
<1>1. c.pos = pos /\ c.sum = n /\ c.expect = expect /\ c.stack = stack
  BY HereIs
<1>2. UNCHANGED <<stack, need, used>>
  BY DEF Colon, Comma
<1> HIDE DEF c
<1>3. CASE Colon
  <2>1. expect = "colon" /\ expect' = "value" /\ pos' = pos + 1 /\ Sees(":")
    BY <1>3 DEF Colon, Takes
  <2>2. d = Moved(c, 1, "value", c.stack, 0)
    BY <1>1, <1>2, <2>1 DEF Moved
  <2> HIDE DEF d
  <2>3. After(c, ":", d)
    BY <1>1, <2>1, <2>2 DEF After
  <2>4. Reads(n, ":", 0)
    BY <1>2, <2>1, <2>3, NothingClaimed DEF Reads, c, d
  <2> QED
    BY <2>4 DEF Tokens
<1>4. CASE Comma
  <2>1. expect = "sep" /\ expect' = "next" /\ pos' = pos + 1 /\ Sees(",") /\ pos < limit
    BY <1>4 DEF Comma, Takes
  <2>2. d = Moved(c, 1, "next", c.stack, 0)
    BY <1>1, <1>2, <2>1 DEF Moved
  <2> HIDE DEF d
  <2>3. After(c, ",", d)
    BY <1>1, <2>1, <2>2 DEF After
  <2>4. Reads(n, ",", 0)
    BY <1>2, <2>1, <2>3, NothingClaimed DEF Reads, c, d
  <2> QED
    BY <2>4 DEF Tokens
<1> QED
  BY <1>3, <1>4

\* What the members of the innermost container take when it closes.
LEMMA ClosingNat ==
  ASSUME Inv, stack # <<>>
  PROVE  Top.count * SlotSize(Top.kind) \in Nat
<1>1. Top.count \in Nat
  BY TopTyped DEF Inv, Frames
<1>2. SlotSize(Top.kind) = MemberSize \/ SlotSize(Top.kind) = ValueSize
  BY DEF SlotSize
<1>3. SlotSize(Top.kind) \in Nat
  BY <1>2, SizesAssumption
<1> HIDE DEF SlotSize
<1> QED
  BY <1>1, <1>3

LEMMA CloseReads ==
  ASSUME Inv, Close, NEW n \in Nat
  PROVE  \E t \in Tokens : \E m \in Nat : Reads(n, t, m)
<1> DEFINE m == Top.count * SlotSize(Top.kind)
           c == Config(pos, expect, stack, n)
           d == Config(pos', expect', stack', n + m)
           s == SubSeq(stack, 1, Depth - 1)
<1>1. /\ c.pos = pos /\ c.sum = n /\ c.expect = expect /\ Outer(c) = s
      /\ m = MembersSize(c) /\ Width(c) = IF AtEnd THEN 0 ELSE 1
  BY HereIs
<1>2. expect \in {"sep", "next"} /\ Completes(s) /\ Claims(m) /\ stack # <<>> /\ Ends
  BY DEF Close, Inv, Where
<1>3. m \in Nat
  BY <1>2, ClosingNat
<1> HIDE DEF c, s, m
<1>4. ASSUME NEW k, pos' = c.pos + k
      PROVE  Settled(c, k, Outer(c), MembersSize(c)) = d
  BY <1>1, <1>2, <1>3, <1>4, CompletesSettled
<1>5. ASSUME NEW t \in Tokens, Sees(t), After(c, t, d)
      PROVE  Reads(n, t, m)
  BY <1>2, <1>3, <1>5, Claimed DEF Reads, c
<1> HIDE DEF d
<1>6. CASE (expect = "sep" \/ pos < limit) /\ SeesClosing(Closing(Top.kind))
  <2> DEFINE b == Closing(Top.kind)
  <2>1. b \in {"]", "}"} /\ b \in Tokens
    BY DEF Closing, Tokens
  <2> HIDE DEF b
  <2>2. Sees(b) /\ pos' = pos + Width(c)
    BY <1>1, <1>6, ClosingWidth DEF b
  <2>3. d = Settled(c, Width(c), Outer(c), MembersSize(c))
    BY <1>1, <1>4, <2>2
  <2>4. After(c, b, d)
    BY <1>1, <1>2, <1>6, <2>1, <2>3 DEF After
  <2> QED
    BY <1>3, <1>5, <2>1, <2>2, <2>4
<1>7. CASE expect = "sep" /\ pos >= limit /\ Takes(",")
  <2>1. Sees(",") /\ pos' = pos + 1 /\ "," \in Tokens
    BY <1>7 DEF Takes, Tokens
  <2>2. d = Settled(c, 1, Outer(c), MembersSize(c))
    BY <1>1, <1>4, <2>1
  <2>3. After(c, ",", d)
    BY <1>1, <1>7, <2>2 DEF After
  <2> QED
    BY <1>3, <1>5, <2>1, <2>3
<1>8. CASE expect = "next" /\ pos = limit /\ (\E t \in Tokens : Sees(t)) /\ pos' = pos
  <2>1. PICK t \in Tokens : Sees(t)
    BY <1>8
  <2>2. pos' = c.pos + 0
    BY <1>1, <1>8 DEF Inv, TypeOK
  <2>3. d = Settled(c, 0, Outer(c), MembersSize(c))
    BY <1>4, <2>2
  <2>4. After(c, t, d)
    BY <1>1, <1>8, <2>3 DEF After
  <2> QED
    BY <1>3, <1>5, <2>1, <2>4
<1> QED
  BY <1>2, <1>6, <1>7, <1>8 DEF Ends

\* Every step of the parser reads a token that leads on.
LEMMA ParseReads ==
  ASSUME Inv, Parse, fault' # "frame", NEW n \in Nat
  PROVE  \E t \in Tokens : \E m \in Nat : Reads(n, t, m)
BY WordReads, TextReads, OpenReads, EmptyArrayReads, EmptyObjectReads, KeyReads,
   PunctuationReads, CloseReads DEF Parse

-----------------------------------------------------------------------------
(* What the dry run has done. *)

\* The token looked at in a configuration leads to the next one.
Linked(h, d, i) ==
  h[i].pos < Len(d) /\ After(h[i], d[h[i].pos + 1], h[i + 1])

\* The configurations of a run over d, which only ever adds to its sum.
Recorded(h, d) ==
  /\ h # <<>> /\ h[1] = Config(0, "value", <<>>, 0)
  /\ \A i \in 1 .. Len(h) - 1 : Linked(h, d, i)
  /\ \A i \in 1 .. Len(h) : h[i].sum <= h[Len(h)].sum

\* What has been looked at stays where it is.
DocStays ==
  /\ Len(doc) \in Nat /\ Len(doc) <= Len(doc') /\ Len(doc') \in Nat
  /\ \A j \in 1 .. Len(doc) : doc'[j] = doc[j]
  /\ limit' = limit /\ limit \in Nat

\* The end of the document is the same all the time, once it has been met.
LEMMA SameEnd ==
  ASSUME DocStays, limit <= Len(doc), NEW S
  PROVE  EndsIn(S)' <=> EndsIn(S)
<1> DEFINE a == Len(doc)
           b == Len(doc')
<1>1. a \in Nat /\ b \in Nat /\ a <= b /\ limit <= a /\ limit \in Nat
  BY DEF DocStays
<1> HIDE DEF a, b
<1>2. limit <= b /\ (limit > 0 => limit \in 1 .. a)
  BY <1>1
<1>3. limit > 0 => doc'[limit] = doc[limit]
  BY <1>2 DEF DocStays, a
<1> QED
  BY <1>1, <1>2, <1>3 DEF EndsIn, DocStays, a, b

LEMMA SameAfter ==
  ASSUME DocStays, NEW c, c.pos \in Nat, c.pos <= Len(doc), NEW t, NEW d
  PROVE  After(c, t, d)' <=> After(c, t, d)
<1>1. limit' = limit
  BY DEF DocStays
<1>2. (Width(c) = Width(c))'
  OBVIOUS
<1>3. Width(c)' = Width(c)
  <2>1. CASE c.pos = limit
    <3>1. EndsIn({"cut", "open past"})' <=> EndsIn({"cut", "open past"})
      BY <2>1, SameEnd
    <3> QED
      BY <1>1, <3>1 DEF Width
  <2>2. CASE c.pos # limit
    BY <1>1, <2>2 DEF Width
  <2> QED
    BY <2>1, <2>2
<1> HIDE DEF Width
<1> QED
  BY <1>1, <1>3 DEF After, AtElement, AtKey

LEMMA SeesStays ==
  ASSUME TypeOK, limit' = limit, NEW t \in Tokens, Sees(t)
  PROVE  DocStays
<1>1. limit \in Nat
  BY BoundsAssumption DEF TypeOK
<1> QED
  BY <1>1, SeenToken DEF DocStays

LEMMA StandsStays ==
  ASSUME TypeOK, UNCHANGED <<doc, limit>>
  PROVE  DocStays
<1>1. limit \in Nat
  BY BoundsAssumption DEF TypeOK
<1> QED
  BY <1>1 DEF DocStays, TypeOK

LEMMA LinkedStays ==
  ASSUME DocStays, NEW h \in Seq(Configs), NEW i \in 1 .. Len(h) - 1, Linked(h, doc, i)
  PROVE  Linked(h, doc, i)'
<1>1. h[i] \in Configs
  OBVIOUS
<1>2. h[i].pos \in Nat /\ h[i].pos < Len(doc)
  BY <1>1 DEF Configs, Linked
<1>3. doc'[h[i].pos + 1] = doc[h[i].pos + 1] /\ h[i].pos < Len(doc')
  <2> DEFINE p == h[i].pos
  <2> HIDE DEF p
  <2>1. p \in Nat /\ p < Len(doc)
    BY <1>2 DEF p
  <2>2. doc'[p + 1] = doc[p + 1] /\ p < Len(doc')
    BY <2>1 DEF DocStays
  <2> QED
    BY <2>2 DEF p
<1>4. PICK u : u = doc[h[i].pos + 1]
  OBVIOUS
<1>5. After(h[i], u, h[i + 1])
  BY <1>4 DEF Linked
<1>6. After(h[i], u, h[i + 1])'
  <2>1. h[i].pos <= Len(doc)
    BY <1>2 DEF DocStays
  <2> QED
    BY <1>2, <1>5, <2>1, SameAfter
<1> QED
  BY <1>3, <1>4, <1>6 DEF Linked

LEMMA RecordedStays ==
  ASSUME DocStays, NEW h \in Seq(Configs), Recorded(h, doc)
  PROVE  Recorded(h, doc)'
<1>1. ASSUME NEW i \in 1 .. Len(h) - 1 PROVE Linked(h, doc, i)'
  BY <1>1, LinkedStays DEF Recorded
<1> QED
  BY <1>1 DEF Recorded

\* One configuration more.
LEMMA RecordedMore ==
  ASSUME DocStays, NEW h \in Seq(Configs), Recorded(h, doc), NEW e \in Configs,
         NEW c, c = h[Len(h)], c.pos < Len(doc'), c.pos <= Len(doc), c.sum <= e.sum,
         NEW t, t = doc'[c.pos + 1], After(c, t, e)
  PROVE  /\ Append(h, e) \in Seq(Configs) /\ Recorded(Append(h, e), doc)'
         /\ Len(Append(h, e)) = Len(h) + 1 /\ Append(h, e)[Len(h) + 1] = e
<1> DEFINE g == Append(h, e)
<1>1. Len(h) \in Nat \ {0}
  BY DEF Recorded
<1>2. /\ g \in Seq(Configs) /\ Len(g) = Len(h) + 1 /\ g[Len(h) + 1] = e
      /\ \A i \in 1 .. Len(h) : g[i] = h[i]
  OBVIOUS
<1> HIDE DEF g
<1>3. g # <<>> /\ g[1] = Config(0, "value", <<>>, 0)
  BY <1>1, <1>2 DEF Recorded
<1>4. ASSUME NEW i \in 1 .. Len(g) - 1 PROVE Linked(g, doc, i)'
  <2>1. CASE i = Len(h)
    <3>1. g[i] = c /\ g[i + 1] = e
      BY <1>1, <1>2, <2>1
    <3>2. After(c, t, e)'
      <4>1. c \in Configs
        BY <1>1
      <4>2. c.pos \in Nat
        BY <4>1 DEF Configs
      <4> QED
        BY <4>2, SameAfter
    <3> QED
      BY <3>1, <3>2 DEF Linked
  <2>2. CASE i # Len(h)
    <3>1. i \in 1 .. Len(h) - 1 /\ g[i] = h[i] /\ g[i + 1] = h[i + 1]
      BY <1>1, <1>2, <1>4, <2>2
    <3>2. Linked(h, doc, i)
      BY <3>1 DEF Recorded
    <3>3. Linked(h, doc, i)'
      BY <3>1, <3>2, LinkedStays
    <3> QED
      BY <3>1, <3>3 DEF Linked
  <2> QED
    BY <2>1, <2>2
<1>5. ASSUME NEW i \in 1 .. Len(g) PROVE g[i].sum <= g[Len(g)].sum
  <2>1. e.sum \in Nat /\ c.sum \in Nat
    <3>1. c \in Configs
      BY <1>1
    <3> QED
      BY <3>1 DEF Configs
  <2>2. CASE i = Len(g)
    BY <1>2, <2>1, <2>2
  <2>3. CASE i # Len(g)
    <3>1. i \in 1 .. Len(h) /\ g[i] = h[i] /\ g[Len(g)] = e
      BY <1>1, <1>2, <1>5, <2>3
    <3>2. h[i] \in Configs /\ h[i].sum <= c.sum
      BY <3>1 DEF Recorded
    <3>3. h[i].sum \in Nat
      BY <3>2 DEF Configs
    <3> QED
      BY <2>1, <3>1, <3>2, <3>3
  <2> QED
    BY <2>2, <2>3
<1> QED
  BY <1>2, <1>3, <1>4, <1>5 DEF Recorded, g

-----------------------------------------------------------------------------
(* Both runs along the same configurations. *)

Here(c) == c.pos = pos /\ c.expect = expect /\ c.stack = stack

\* n has been added up, and is what the dry run has measured or would have.
Exact(n) == need <= n /\ (need = n \/ HasEmptyObject)

\* An object has just begun.
Opened ==
  expect = "first" /\ Top.kind = "object" => pos \in 1 .. Len(doc) /\ doc[pos] = "{"

Measuring ==
  \E h \in Seq(Configs) :
    /\ Recorded(h, doc) /\ Exact(h[Len(h)].sum)
    /\ Here(h[Len(h)])

Building ==
  \E h \in Seq(Configs) :
    /\ Recorded(h, doc) /\ Exact(h[Len(h)].sum)
    /\ h[Len(h)].expect = "root"
    /\ \E k \in 1 .. Len(h) : Here(h[k]) /\ h[k].sum = used

Replay ==
  /\ failed = "no" <=> expect # "unwind"
  /\ failed = "no" /\ fault = "none" => Opened
  /\ failed = "no" /\ fault = "none" /\ phase = "dry"  => Measuring
  /\ failed = "no" /\ fault = "none" /\ phase = "real" => Building

\* A configuration is what its parts are.
LEMMA ConfigIs ==
  ASSUME NEW c \in Configs, Here(c)
  PROVE  c = Config(pos, expect, stack, c.sum) /\ c.sum \in Nat
BY DEF Here, Config, Configs

LEMMA AfterExpects ==
  ASSUME NEW c, NEW t, NEW d, After(c, t, d)
  PROVE  d.expect \in {"value", "first", "next", "colon", "sep", "root"}
<1>1. ASSUME NEW k, NEW e, NEW s, NEW n PROVE Moved(c, k, e, s, n).expect = e
  BY DEF Moved, Config
<1>2. ASSUME NEW k, NEW s, NEW n PROVE Settled(c, k, s, n).expect \in {"sep", "root"}
  BY <1>1 DEF Settled
<1>3. \/ \E k, s, n : d = Settled(c, k, s, n)
      \/ \E e \in {"first", "colon", "value", "next"} : \E k, s, n : d = Moved(c, k, e, s, n)
  BY DEF After
<1> QED
  BY <1>1, <1>2, <1>3

LEMMA NextConfig ==
  ASSUME TypeOK', NEW c, NEW t, NEW n \in Nat,
         NEW d, d = Config(pos', expect', stack', n), After(c, t, d)
  PROVE  d \in Configs /\ d.sum = n /\ Here(d)'
<1>1. d.expect = expect' /\ d.pos = pos' /\ d.stack = stack' /\ d.sum = n
  BY DEF Config
<1>2. expect' \in {"value", "first", "next", "colon", "sep", "root"}
  BY <1>1, AfterExpects
<1>3. pos' \in Nat /\ stack' \in Seq(Frames)
  BY DEF TypeOK
<1>4. d \in Configs
  BY <1>2, <1>3 DEF Config, Configs
<1> QED
  BY <1>1, <1>4 DEF Here

\* An empty object stays where it is, and is there when one ends where it began.
LEMMA EmptyObjectStays ==
  ASSUME DocStays, HasEmptyObject
  PROVE  HasEmptyObject'
<1>1. PICK i \in 1 .. Len(doc) - 1 : doc[i] = "{" /\ doc[i + 1] = "}"
  BY DEF HasEmptyObject
<1>2. i \in 1 .. Len(doc') - 1 /\ doc'[i] = doc[i] /\ doc'[i + 1] = doc[i + 1]
  <2> DEFINE j == i + 1
  <2>1. Len(doc) \in Nat /\ Len(doc') \in Nat /\ Len(doc) <= Len(doc')
    BY DEF DocStays
  <2>2. i \in 1 .. Len(doc) /\ j \in 1 .. Len(doc) /\ i \in 1 .. Len(doc') - 1
    <3> DEFINE a == Len(doc)
               b == Len(doc')
    <3>1. a \in Nat /\ b \in Nat /\ a <= b /\ i \in 1 .. a - 1
      BY <2>1
    <3> HIDE DEF a, b
    <3>2. i \in 1 .. a /\ i + 1 \in 1 .. a /\ i \in 1 .. b - 1
      BY <3>1
    <3> QED
      BY <3>2 DEF a, b
  <2> HIDE DEF j
  <2>3. doc'[i] = doc[i] /\ doc'[j] = doc[j]
    BY <2>2 DEF DocStays
  <2> QED
    BY <2>2, <2>3 DEF j
<1> QED
  BY <1>1, <1>2 DEF HasEmptyObject

LEMMA EmptyObjectSeen ==
  ASSUME TypeOK, DocStays, Opened, NEW t \in Tokens, Sees(t), EndsEmpty(t)
  PROVE  HasEmptyObject'
<1>1. pos \in 1 .. Len(doc) /\ doc[pos] = "{" /\ t = "}"
  BY DEF Opened, EndsEmpty
<1>2. pos \in Nat /\ pos < Len(doc') /\ doc'[pos + 1] = t
  BY SeenToken
<1>3. pos \in 1 .. Len(doc') - 1
  <2> DEFINE b == Len(doc')
  <2>1. b \in Nat /\ pos < b /\ pos \in Nat
    BY <1>2 DEF DocStays
  <2>2. pos >= 1
    <3> DEFINE a == Len(doc)
    <3>1. a \in Nat /\ pos \in 1 .. a
      BY <1>1 DEF DocStays
    <3> HIDE DEF a
    <3> QED
      BY <3>1
  <2> HIDE DEF b
  <2>3. pos \in 1 .. b - 1
    BY <2>1, <2>2
  <2> QED
    BY <2>3 DEF b
<1>4. doc'[pos] = doc[pos]
  BY <1>1 DEF DocStays
<1> QED
  BY <1>1, <1>2, <1>3, <1>4 DEF HasEmptyObject

\* The dry run goes on.
LEMMA MeasuringOn ==
  ASSUME Inv, Inv', Parse, fault' # "frame", limit' = limit,
         Measuring, Opened, phase = "dry"
  PROVE  Measuring'
<1>1. PICK h \in Seq(Configs) :
        Recorded(h, doc) /\ Exact(h[Len(h)].sum) /\ Here(h[Len(h)])
  BY DEF Measuring
<1> DEFINE c == h[Len(h)]
           n == c.sum
<1>2. c \in Configs
  BY <1>1 DEF Recorded
<1>3. n \in Nat /\ c = Config(pos, expect, stack, n) /\ c.pos = pos
  BY <1>1, <1>2, ConfigIs DEF Here
<1>4. Exact(n) /\ c = h[Len(h)] /\ c.sum = n
  BY <1>1
<1> HIDE DEF n, c
<1>5. PICK t \in Tokens : \E m \in Nat : Reads(n, t, m)
  BY <1>3, ParseReads
<1>50. PICK m \in Nat : Reads(n, t, m)
  BY <1>5
<1>51. Sees(t) /\ DocStays
  BY <1>50, SeesStays DEF Reads, Inv
<1>6. PICK e : e = Config(pos', expect', stack', n + m)
  OBVIOUS
<1>7. After(c, t, e)
  BY <1>3, <1>50, <1>6 DEF Reads
<1>8. e \in Configs /\ e.sum = n + m /\ Here(e)'
  <2>1. n + m \in Nat
    BY <1>3, <1>50
  <2> QED
    BY <1>6, <1>7, <2>1, NextConfig DEF Inv
<1>9. /\ c.pos < Len(doc') /\ t = doc'[c.pos + 1] /\ c.sum <= e.sum
      /\ c.pos <= Len(doc)
  <2>1. pos < Len(doc') /\ doc'[pos + 1] = t
    BY <1>51, SeenToken DEF Inv
  <2>2. n <= n + m
    BY <1>3, <1>50
  <2>3. pos <= Len(doc)
    BY DEF Inv, TypeOK
  <2> QED
    BY <1>3, <1>4, <1>8, <2>1, <2>2, <2>3
<1>10. PICK g : g = Append(h, e)
  OBVIOUS
<1>11. /\ g \in Seq(Configs) /\ Recorded(g, doc)'
       /\ Len(g) = Len(h) + 1 /\ g[Len(h) + 1] = e
  BY <1>1, <1>4, <1>7, <1>8, <1>9, <1>10, <1>51, RecordedMore
<1>12. g[Len(g)] = e
  BY <1>11
<1>13. Exact(n + m)'
  <2>1. need' = need + m \/ (need' = 0 /\ EndsEmpty(t))
    BY <1>50 DEF Reads
  <2>2. need \in Nat /\ need <= n /\ (need = n \/ HasEmptyObject)
    BY <1>4 DEF Exact, Inv, TypeOK
  <2>3. CASE need' = need + m
    <3>1. need' <= n + m /\ (need' = n + m \/ HasEmptyObject)
      BY <1>3, <2>2, <2>3
    <3> QED
      BY <1>51, <3>1, EmptyObjectStays DEF Exact
  <2>4. CASE need' = 0 /\ EndsEmpty(t)
    <3>1. HasEmptyObject'
      BY <1>51, <2>4, EmptyObjectSeen DEF Inv
    <3>2. need' <= n + m
      BY <1>3, <2>4
    <3> QED
      BY <3>1, <3>2 DEF Exact
  <2> QED
    BY <2>1, <2>3, <2>4
<1> QED
  BY <1>8, <1>11, <1>12, <1>13 DEF Measuring

\* The real run goes on, the way the dry run went.
LEMMA BuildingOn ==
  ASSUME Inv, Inv', Parse, fault' # "frame", limit' = limit,
         Building, phase = "real"
  PROVE  Building'
<1>1. PICK h \in Seq(Configs) :
        /\ Recorded(h, doc) /\ Exact(h[Len(h)].sum) /\ h[Len(h)].expect = "root"
        /\ \E k \in 1 .. Len(h) : Here(h[k]) /\ h[k].sum = used
  BY DEF Building
<1>2. PICK k \in 1 .. Len(h) : Here(h[k]) /\ h[k].sum = used
  BY <1>1
<1> DEFINE c == h[k]
<1>3. Len(h) \in Nat /\ c \in Configs
  OBVIOUS
<1>4. used \in Nat /\ c = Config(pos, expect, stack, used) /\ c.pos = pos
  BY <1>2, <1>3, ConfigIs DEF Here
<1>5. PICK t \in Tokens : \E m \in Nat : Reads(used, t, m)
  BY <1>4, ParseReads
<1>6. PICK m \in Nat : Reads(used, t, m)
  BY <1>5
<1>7. Sees(t) /\ DocStays
  BY <1>6, SeesStays DEF Reads, Inv
<1>8. doc' = doc /\ doc[pos + 1] = t
  BY <1>7, SeenToken DEF Inv
<1>9. PICK e : e = Config(pos', expect', stack', used + m)
  OBVIOUS
<1>10. After(c, t, e)
  BY <1>4, <1>6, <1>9 DEF Reads
<1>11. e.sum = used + m /\ Here(e)'
  <2>1. used + m \in Nat
    BY <1>4, <1>6
  <2> HIDE DEF c
  <2> QED
    BY <1>9, <1>10, <2>1, NextConfig DEF Inv
<1>12. k # Len(h)
  <2>1. c.expect # "root"
    BY <1>3, <1>10, OneAfter DEF Inv
  <2> QED
    BY <1>1, <2>1
<1>13. k \in 1 .. Len(h) - 1 /\ k + 1 \in 1 .. Len(h)
  BY <1>3, <1>12
<1>14. h[k + 1] = e
  <2>1. Linked(h, doc, k)
    BY <1>1, <1>13 DEF Recorded
  <2>2. After(c, t, h[k + 1])
    BY <1>4, <1>8, <2>1 DEF Linked
  <2> QED
    BY <1>3, <1>10, <2>2, OneAfter DEF Inv
<1>15. Here(h[k + 1])' /\ h[k + 1].sum = used'
  <2>1. used' = used + m
    BY <1>6 DEF Reads
  <2> QED
    BY <1>11, <1>14, <2>1
<1>16. Recorded(h, doc)'
  BY <1>1, <1>7, RecordedStays
<1>17. Exact(h[Len(h)].sum)'
  <2>1. need' = need
    BY <1>6 DEF Reads
  <2>2. HasEmptyObject => HasEmptyObject'
    BY <1>7, EmptyObjectStays
  <2> QED
    BY <1>1, <2>1, <2>2 DEF Exact
<1> HIDE DEF c
<1> QED
  BY <1>1, <1>13, <1>15, <1>16, <1>17 DEF Building

\* An object begins when its bracket has been read.
LEMMA OpenedOn ==
  ASSUME Inv, Inv', Parse, fault' = "none"
  PROVE  Opened'
<1>1. CASE Open
  <2>1. PICK k \in Kinds :
          /\ Takes(IF k = "object" THEN "{" ELSE "[")
          /\ stack' = Append(ForValue, [kind |-> k, count |-> 0, cap |-> 0, size |-> 0])
    BY <1>1 DEF Open
  <2>2. ForValue \in Seq(Frames)
    BY <1>1, ForValueReady DEF Open, Running, Ready
  <2>3. Top'.kind = k
    <3> DEFINE f == [kind |-> k, count |-> 0, cap |-> 0, size |-> 0]
               v == ForValue
    <3>1. f.kind = k /\ f \in Frames /\ stack' = Append(v, f) /\ v \in Seq(Frames)
      BY <2>1, <2>2 DEF Frames
    <3> HIDE DEF f, v
    <3>2. stack'[Len(stack')] = f
      BY <3>1
    <3> QED
      BY <3>1, <3>2 DEF Top, Depth
  <2>4. CASE k = "object"
    <3>1. Sees("{") /\ pos' = pos + 1 /\ "{" \in Tokens
      BY <2>1, <2>4 DEF Takes, Tokens
    <3>2. doc'[pos + 1] = "{"
      BY <3>1, SeenToken DEF Inv
    <3>3. pos' \in 1 .. Len(doc')
      <4>1. pos \in Nat /\ pos < Len(doc')
        BY <3>1, SeenToken DEF Inv
      <4> DEFINE b == Len(doc')
      <4>2. pos' \in 0 .. b /\ b \in Nat
        BY DEF Inv, TypeOK
      <4>3. pos' = pos + 1 /\ pos \in Nat
        BY <3>1, <4>1
      <4> HIDE DEF b
      <4>4. pos' \in 1 .. b
        BY <4>2, <4>3
      <4> QED
        BY <4>4 DEF b
    <3> QED
      BY <3>1, <3>2, <3>3 DEF Opened
  <2>5. CASE k # "object"
    BY <2>3, <2>5 DEF Opened
  <2> QED
    BY <2>4, <2>5
<1>2. CASE ~ Open
  <2>1. expect' # "first"
    BY <1>2 DEF Parse, Word, Text, EmptyArray, EmptyObject, Key, Colon, Comma, Close, Completes
  <2> QED
    BY <2>1 DEF Opened
<1> QED
  BY <1>1, <1>2

\* What a refusal refuses is what the dry run has added up here.
LEMMA RefusedAfter ==
  ASSUME Inv, Refuse
  PROVE  \E t \in Tokens : \E e :
           Sees(t) /\ After(Config(pos, expect, stack, used), t, e) /\ e.sum > need
<1> DEFINE c == Config(pos, expect, stack, used)
<1>1. /\ c.expect = expect /\ c.sum = used /\ Inner(c) = Top
      /\ (AtElement(c) <=> AtValue) /\ (AtKey(c) <=> AtMember)
      /\ MembersSize(c) = Top.count * SlotSize(Top.kind) /\ c.pos = pos
  BY HereIs
<1> HIDE DEF c
<1>2. ASSUME NEW k, NEW x, NEW s, NEW m
      PROVE  Moved(c, k, x, s, m).sum = used + m /\ Settled(c, k, s, m).sum = used + m
  BY <1>1 DEF Settled, Moved, Config
<1>3. CASE AtValue /\ \E t \in Strings : Takes(t) /\ Refuses(StringSize(t))
  <2>1. PICK t \in Strings : Sees(t) /\ Refuses(StringSize(t))
    BY <1>3 DEF Takes
  <2>2. PICK e : e = Settled(c, 1, Room(c), StringSize(t))
    OBVIOUS
  <2>3. After(c, t, e)
    BY <1>1, <1>3, <2>2 DEF After
  <2>4. e.sum > need
    BY <1>2, <2>1, <2>2 DEF Refuses
  <2>5. t \in Tokens
    BY StringSizeNat
  <2> QED
    BY <2>1, <2>3, <2>4, <2>5 DEF c
<1>4. CASE /\ AtMember
           /\ \E t \in Strings : Takes(t) /\ Refuses(ValueSize + StringSize(t))
  <2>1. PICK t \in Strings : Sees(t) /\ Refuses(ValueSize + StringSize(t))
    BY <1>4 DEF Takes
  <2>2. PICK e : e = Moved(c, 1, "colon", WithRoom(c), ValueSize + StringSize(t))
    OBVIOUS
  <2>3. After(c, t, e)
    BY <1>1, <1>4, <2>2 DEF After
  <2>4. e.sum > need
    BY <1>2, <2>1, <2>2 DEF Refuses
  <2>5. t \in Tokens
    BY StringSizeNat
  <2> QED
    BY <2>1, <2>3, <2>4, <2>5 DEF c
<1>5. ASSUME NEW t \in Tokens, NEW k, Sees(t), Refuses(Top.count * SlotSize(Top.kind)),
             After(c, t, Settled(c, k, Outer(c), MembersSize(c)))
      PROVE  \E u \in Tokens : \E e : Sees(u) /\ After(c, u, e) /\ e.sum > need
  <2>1. PICK e : e = Settled(c, k, Outer(c), MembersSize(c))
    OBVIOUS
  <2>2. e.sum > need
    BY <1>1, <1>2, <1>5, <2>1 DEF Refuses
  <2> QED
    BY <1>5, <2>1, <2>2
<1>6. CASE Ends /\ expect \in {"sep", "next"} /\ Refuses(Top.count * SlotSize(Top.kind))
  <2>1. CASE (expect = "sep" \/ pos < limit) /\ SeesClosing(Closing(Top.kind))
    <3> DEFINE b == Closing(Top.kind)
    <3>1. b \in {"]", "}"} /\ b \in Tokens /\ Sees(b)
      BY <2>1 DEF Closing, Tokens, SeesClosing, Takes
    <3> HIDE DEF b
    <3>2. After(c, b, Settled(c, Width(c), Outer(c), MembersSize(c)))
      BY <1>1, <1>6, <2>1, <3>1 DEF After
    <3> QED
      BY <1>5, <1>6, <3>1, <3>2 DEF c
  <2>2. CASE expect = "sep" /\ pos >= limit /\ Takes(",")
    <3>1. Sees(",") /\ "," \in Tokens
      BY <2>2 DEF Takes, Tokens
    <3>2. After(c, ",", Settled(c, 1, Outer(c), MembersSize(c)))
      BY <1>1, <2>2 DEF After
    <3> QED
      BY <1>5, <1>6, <3>1, <3>2 DEF c
  <2>3. CASE expect = "next" /\ pos = limit /\ (\E t \in Tokens : Sees(t))
    <3>1. PICK t \in Tokens : Sees(t)
      BY <2>3
    <3>2. After(c, t, Settled(c, 0, Outer(c), MembersSize(c)))
      BY <1>1, <2>3 DEF After
    <3> QED
      BY <1>5, <1>6, <3>1, <3>2 DEF c
  <2> QED
    BY <1>6, <2>1, <2>2, <2>3 DEF Ends
<1> QED
  BY <1>3, <1>4, <1>6 DEF Refuse

LEMMA RefusedOnlyByEmptyObject ==
  ASSUME Inv, Building, Refuse
  PROVE  HasEmptyObject
<1>1. PICK h \in Seq(Configs) :
        /\ Recorded(h, doc) /\ Exact(h[Len(h)].sum) /\ h[Len(h)].expect = "root"
        /\ \E k \in 1 .. Len(h) : Here(h[k]) /\ h[k].sum = used
  BY DEF Building
<1>2. PICK k \in 1 .. Len(h) : Here(h[k]) /\ h[k].sum = used
  BY <1>1
<1> DEFINE c == h[k]
           d == h[Len(h)]
<1>3. Len(h) \in Nat /\ c \in Configs /\ d \in Configs
  BY <1>1 DEF Recorded
<1>4. c = Config(pos, expect, stack, used) /\ c.pos = pos
  BY <1>2, <1>3, ConfigIs DEF Here
<1>5. PICK t \in Tokens : \E e :
        Sees(t) /\ After(Config(pos, expect, stack, used), t, e) /\ e.sum > need
  BY RefusedAfter
<1>6. PICK e : Sees(t) /\ After(c, t, e) /\ e.sum > need
  BY <1>4, <1>5
<1>7. doc[pos + 1] = t
  BY <1>6, SeenToken DEF Inv, Refuse, Refuses
<1>8. k # Len(h)
  <2>1. c.expect # "root"
    BY <1>3, <1>6, OneAfter DEF Inv
  <2> QED
    BY <1>1, <2>1
<1>9. k \in 1 .. Len(h) - 1 /\ k + 1 \in 1 .. Len(h)
  BY <1>3, <1>8
<1>10. h[k + 1] = e
  <2>1. Linked(h, doc, k)
    BY <1>1, <1>9 DEF Recorded
  <2>2. After(c, t, h[k + 1])
    BY <1>4, <1>7, <2>1 DEF Linked
  <2> QED
    BY <1>3, <1>6, <2>2, OneAfter DEF Inv
<1>11. e.sum <= d.sum /\ e \in Configs
  BY <1>1, <1>9, <1>10 DEF Recorded
<1>12. e.sum \in Nat /\ d.sum \in Nat /\ need \in Nat
  BY <1>3, <1>11 DEF Configs, Inv, TypeOK
<1>13. d.sum # need
  BY <1>6, <1>11, <1>12
<1> QED
  BY <1>1, <1>13 DEF Exact

\* A tree that has been built has taken all that was measured.
LEMMA BuiltExactly ==
  ASSUME Inv, Building, expect = "root"
  PROVE  used = need
<1>1. PICK h \in Seq(Configs) :
        /\ Recorded(h, doc) /\ Exact(h[Len(h)].sum) /\ h[Len(h)].expect = "root"
        /\ \E k \in 1 .. Len(h) : Here(h[k]) /\ h[k].sum = used
  BY DEF Building
<1>2. PICK k \in 1 .. Len(h) : Here(h[k]) /\ h[k].sum = used
  BY <1>1
<1>3. k = Len(h)
  <2> SUFFICES ASSUME k # Len(h) PROVE FALSE
    OBVIOUS
  <2>1. k \in 1 .. Len(h) - 1
    OBVIOUS
  <2>2. Linked(h, doc, k)
    BY <1>1, <2>1 DEF Recorded
  <2>3. h[k].expect # "root"
    BY <2>2, OneAfter DEF Linked, Inv
  <2> QED
    BY <1>2, <2>3 DEF Here
<1>4. need <= used
  BY <1>1, <1>2, <1>3 DEF Exact
<1> QED
  BY <1>4 DEF Inv, TypeOK

-----------------------------------------------------------------------------
LEMMA ParseReplay ==
  ASSUME Inv, Inv', Replay, MeasureIsExact, Parse
  PROVE  Replay' /\ MeasureIsExact'
<1>1. Running /\ UNCHANGED still
  BY DEF Parse, Word, Text, Open, EmptyArray, EmptyObject, Key, Colon, Comma, Close
<1>2. /\ failed = "no" /\ failed' = "no" /\ fault = "none" /\ entity' = Zero
      /\ phase' = phase /\ limit' = limit
  BY <1>1 DEF Running, still, Inv, Phases
<1>3. MeasureIsExact'
  BY <1>2 DEF MeasureIsExact, Zero
<1>4. expect' # "unwind"
  BY <1>2 DEF Replay, Parse, Word, Text, Open, EmptyArray, EmptyObject, Key, Colon, Comma,
              Close, Completes
<1>5. CASE fault' # "none"
  BY <1>2, <1>3, <1>4, <1>5 DEF Replay
<1>6. CASE fault' = "none"
  <2>1. Opened'
    BY <1>6, OpenedOn
  <2>2. phase = "dry" => Measuring'
    BY <1>2, <1>6, MeasuringOn DEF Replay
  <2>3. phase = "real" => Building'
    BY <1>2, <1>6, BuildingOn DEF Replay
  <2> QED
    BY <1>2, <1>3, <1>4, <1>6, <2>1, <2>2, <2>3 DEF Replay
<1> QED
  BY <1>5, <1>6

LEMMA FailReplay ==
  ASSUME Inv, Replay, MeasureIsExact, Reject \/ Refuse
  PROVE  Replay' /\ MeasureIsExact'
<1>1. /\ failed' # "no" /\ expect' = "unwind" /\ UNCHANGED entity
      /\ Running
  BY DEF Reject, Refuse
<1>2. Replay'
  BY <1>1 DEF Replay
<1>3. entity' = Zero
  BY <1>1 DEF Running, Inv, Phases
<1>4. CASE Reject
  BY <1>2, <1>3, <1>4 DEF Reject, MeasureIsExact, Zero
<1>5. CASE Refuse
  <2>1. phase = "real"
    BY <1>5 DEF Refuse, Refuses
  <2>2. HasEmptyObject
    BY <1>1, <1>5, <2>1, RefusedOnlyByEmptyObject DEF Replay, Running
  <2>3. doc' = doc
    BY <1>5, <2>1 DEF Refuse, Ends, SeesClosing, Takes, Sees
  <2>4. HasEmptyObject'
    BY <2>2, <2>3 DEF HasEmptyObject
  <2> QED
    BY <1>2, <1>3, <2>4 DEF MeasureIsExact, Zero
<1> QED
  BY <1>4, <1>5

\* The real run begins where the dry run began.
LEMMA MeasuredBuilding ==
  ASSUME Inv, Measuring, Measured
  PROVE  Building'
<1>1. PICK h \in Seq(Configs) :
        Recorded(h, doc) /\ Exact(h[Len(h)].sum) /\ Here(h[Len(h)])
  BY DEF Measuring
<1>2. /\ expect = "root" /\ pos' = 0 /\ expect' = "value" /\ stack' = stack /\ used' = used
      /\ UNCHANGED <<doc, limit, need>> /\ phase = "dry"
  BY DEF Measured, Finished
<1>3. stack = <<>> /\ used = 0
  BY <1>2 DEF Inv, Where, Phases
<1>4. Recorded(h, doc)'
  <2>1. DocStays
    BY <1>2, StandsStays DEF Inv
  <2> QED
    BY <1>1, <2>1, RecordedStays
<1>5. Exact(h[Len(h)].sum)'
  <2>1. HasEmptyObject' <=> HasEmptyObject
    BY <1>2 DEF HasEmptyObject
  <2> QED
    BY <1>1, <1>2, <2>1 DEF Exact
<1>6. h[Len(h)].expect = "root"
  BY <1>1, <1>2 DEF Here
<1>7. 1 \in 1 .. Len(h) /\ h[1] = Config(0, "value", <<>>, 0)
  BY <1>1 DEF Recorded
<1>8. Here(h[1])' /\ h[1].sum = used'
  BY <1>2, <1>3, <1>7 DEF Here, Config
<1> QED
  BY <1>4, <1>5, <1>6, <1>7, <1>8 DEF Building

LEMMA RunsReplay ==
  ASSUME Inv, Replay, MeasureIsExact,
         Unwind \/ GiveUp \/ Measured \/ MeasuredInVain \/ Built \/ fpx_json_destroy
  PROVE  Replay' /\ MeasureIsExact'
<1>0. UNCHANGED <<doc, need, used, failed, fault>>
  BY DEF Unwind, GiveUp, Measured, MeasuredInVain, Built, fpx_json_destroy, run
<1>1. HasEmptyObject' <=> HasEmptyObject
  BY <1>0 DEF HasEmptyObject
<1>2. CASE Unwind \/ GiveUp
  <2>1. /\ expect = "unwind" /\ expect' = "unwind" /\ failed' # "no" /\ entity' = entity
    BY <1>0, <1>2 DEF Unwind, GiveUp, run, Replay
  <2> QED
    BY <1>0, <1>1, <2>1 DEF Replay, MeasureIsExact
<1>3. CASE Measured
  <2>1. /\ fault = "none" /\ failed = "no" /\ phase = "dry" /\ phase' = "real"
        /\ expect' = "value" /\ entity' = entity
    BY <1>3 DEF Measured, Finished, Replay
  <2>2. Building'
    BY <1>3, <2>1, MeasuredBuilding DEF Replay
  <2>3. Opened'
    BY <2>1 DEF Opened
  <2> QED
    BY <1>0, <1>1, <2>1, <2>2, <2>3 DEF Replay, MeasureIsExact
<1>4. CASE MeasuredInVain
  <2>1. /\ failed = "no" /\ phase' = "done" /\ expect' = expect /\ expect = "root"
        /\ entity'.root = "sizes"
    BY <1>4 DEF MeasuredInVain, Finished, Replay, run
  <2>2. Opened'
    BY <2>1 DEF Opened
  <2> QED
    BY <1>0, <1>1, <2>1, <2>2 DEF Replay, MeasureIsExact
<1>5. CASE Built
  <2>1. /\ fault = "none" /\ failed = "no" /\ phase = "real" /\ phase' = "done"
        /\ expect = "root" /\ expect' = expect
    BY <1>5 DEF Built, Finished, Replay, run
  <2>2. used' = need'
    BY <1>0, <2>1, BuiltExactly DEF Replay
  <2>3. Opened'
    BY <2>1 DEF Opened
  <2> QED
    BY <1>0, <1>1, <2>1, <2>2, <2>3 DEF Replay, MeasureIsExact
<1>6. CASE fpx_json_destroy
  <2>1. phase' = "destroyed" /\ UNCHANGED <<pos, expect, stack>> /\ entity' = Zero
    BY <1>6 DEF fpx_json_destroy, run
  <2>2. Opened' <=> Opened
    BY <1>0, <2>1 DEF Opened, Top, Depth
  <2> QED
    BY <1>0, <1>1, <2>1, <2>2 DEF Replay, MeasureIsExact, Zero
<1> QED
  BY <1>2, <1>3, <1>4, <1>5, <1>6

LEMMA StandsReplay ==
  ASSUME Inv, Replay, MeasureIsExact, UNCHANGED vars
  PROVE  Replay' /\ MeasureIsExact'
<1>1. UNCHANGED <<doc, limit, phase, pos, expect, stack, need, used, failed, entity, fault>>
  BY DEF vars, run
<1>2. (HasEmptyObject' <=> HasEmptyObject) /\ (Opened' <=> Opened)
  BY <1>1 DEF HasEmptyObject, Opened, Top, Depth
<1>3. DocStays
  BY <1>1, StandsStays DEF Inv
<1>4. ASSUME NEW h \in Seq(Configs), Recorded(h, doc) PROVE Recorded(h, doc)'
  BY <1>3, <1>4, RecordedStays
<1>5. ASSUME NEW n PROVE (Exact(n)' <=> Exact(n)) /\ (Here(n)' <=> Here(n))
  BY <1>1, <1>2 DEF Exact, Here
<1>6. Measuring => Measuring'
  BY <1>4, <1>5 DEF Measuring
<1>7. Building => Building'
  BY <1>1, <1>4, <1>5 DEF Building
<1> QED
  BY <1>1, <1>2, <1>6, <1>7 DEF Replay, MeasureIsExact

LEMMA InitReplay == Init => Replay /\ MeasureIsExact
<1> SUFFICES ASSUME Init PROVE Replay /\ MeasureIsExact
  OBVIOUS
<1>1. PICK c : c = Config(0, "value", <<>>, 0)
  OBVIOUS
<1>2. /\ c.pos = 0 /\ c.expect = "value" /\ c.stack = <<>> /\ c.sum = 0
      /\ c \in Configs
  BY <1>1 DEF Config, Configs
<1>3. PICK h : h = <<c>>
  OBVIOUS
<1>4. h \in Seq(Configs) /\ Len(h) = 1 /\ h[1] = c /\ h # <<>>
  BY <1>2, <1>3
<1>5. Recorded(h, doc)
  BY <1>1, <1>2, <1>4 DEF Recorded
<1>6. Here(h[Len(h)]) /\ Exact(h[Len(h)].sum)
  BY <1>2, <1>4 DEF Init, Here, Exact
<1>7. Measuring
  BY <1>4, <1>5, <1>6 DEF Measuring
<1> QED
  BY <1>7 DEF Init, Replay, MeasureIsExact, Opened, Zero

\* However long and deep a document is, the real run goes the way of the dry run, and
\* takes what that has measured (the two branches of if (dry_run), json.c:172-782).
THEOREM AlwaysReplay == Spec => [](Replay /\ MeasureIsExact)
<1>1. Init => Replay /\ MeasureIsExact
  BY InitReplay
<1>2. Inv /\ Inv' /\ Replay /\ MeasureIsExact /\ [Next]_vars => Replay' /\ MeasureIsExact'
  BY ParseReplay, FailReplay, RunsReplay, StandsReplay DEF Next, Fail
<1> QED
  BY <1>1, <1>2, AlwaysInv, PTL DEF Spec

\* However long and deep a document is, and whatever it looks like: a tree that is
\* built has taken from the arena exactly what the dry run has measured, and the real
\* run never runs out of memory unless the document has an empty object.
\* (fpx_json_read, json.c:113-135, and the two branches of if (dry_run) in every
\* function that it calls.)
THEOREM TheRunsAgree == Spec => []MeasureIsExact
BY AlwaysReplay, PTL

(***************************************************************************)
(* The grammar of JsonGrammar, from here to ReadsOnlyJson.  It is built by *)
(* length, as a table; the first lemmas turn the table into the equations  *)
(* of a grammar for words of every length (ValueIs, ElementsAre,           *)
(* MembersAre), and those into what each token leads to, read from the     *)
(* left, with containers open (Rest).  First of all, induction.            *)
(***************************************************************************)

\* A set of numbers has a least one.
LEMMA LeastNumber ==
  ASSUME NEW S \in SUBSET Nat, S # {}
  PROVE  \E m \in S : \A k \in S : m <= k
<1> DEFINE R == {p \in Nat \X Nat : p[1] < p[2]}
<1>1. IsWellFoundedOn(R, Nat)
  BY NatLessThanWellFounded, R = OpToRel(<, Nat) DEF OpToRel
<1>2. \E x \in S : \A y \in S : ~ (<<y, x>> \in R)
  <2> HIDE DEF R
  <2> QED
    BY <1>1, WFMin
<1>3. ASSUME NEW x \in Nat, NEW y \in Nat, ~ (<<y, x>> \in R)
      PROVE  x <= y
  <2>1. <<y, x>> \in Nat \X Nat /\ <<y, x>>[1] = y /\ <<y, x>>[2] = x
    OBVIOUS
  <2> QED
    BY <1>3, <2>1
<1> HIDE DEF R
<1> QED
  BY <1>2, <1>3

\* Numbers that 0 is among, and the successor of each, are all numbers up to n.
LEMMA UpTo ==
  ASSUME NEW n \in Nat, NEW P, 0 \in P, \A k \in 0 .. n : k < n /\ k \in P => k + 1 \in P
  PROVE  n \in P
<1> SUFFICES ASSUME n \notin P PROVE FALSE
  OBVIOUS
<1> DEFINE S == {k \in 0 .. n : k \notin P}
<1>1. PICK m \in S : \A k \in S : m <= k
  <2> S \in SUBSET Nat /\ S # {}
    OBVIOUS
  <2> HIDE DEF S
  <2> QED
    BY LeastNumber
<1>2. m # 0 /\ m - 1 \in 0 .. n /\ m - 1 < n
  OBVIOUS
<1>3. m - 1 \in P
  BY <1>1, <1>2
<1>4. m - 1 + 1 = m
  OBVIOUS
<1> QED
  BY <1>2, <1>3, <1>4

-----------------------------------------------------------------------------
(* The grammar. *)

\* What the definition by recursion means, up to n.
Tabulates(g, n) ==
  g = [i \in 0 .. n |-> IF i = 0 THEN <<>> ELSE Longer(g[i - 1], i)]

\* There is one such function, and only one.
LEMMA Tabulated ==
  ASSUME NEW n \in Nat
  PROVE  \E g : Tabulates(g, n)
<1> DEFINE P == {k \in Nat : \E g : Tabulates(g, k)}
<1>1. 0 \in P
  <2>1. Tabulates([i \in 0 .. 0 |-> <<>>], 0)
    BY DEF Tabulates
  <2> QED
    BY <2>1
<1>2. ASSUME NEW k \in Nat, k \in P PROVE k + 1 \in P
  <2>1. PICK g : Tabulates(g, k)
    BY <1>2
  <2> DEFINE h == [i \in 0 .. k + 1 |-> IF i = k + 1 THEN Longer(g[k], k + 1) ELSE g[i]]
  <2>2. \A i \in 0 .. k : h[i] = g[i] /\ i \in 0 .. k + 1
    OBVIOUS
  <2>3. ASSUME NEW i \in 0 .. k + 1
        PROVE  h[i] = IF i = 0 THEN <<>> ELSE Longer(h[i - 1], i)
    <3>1. CASE i = k + 1
      BY <3>1, <2>2
    <3>2. CASE i # k + 1
      <4>1. i \in 0 .. k /\ (i # 0 => i - 1 \in 0 .. k)
        BY <3>2
      <4> HIDE DEF h
      <4> QED
        BY <4>1, <2>2, <2>1 DEF Tabulates
    <3> QED
      BY <3>1, <3>2
  <2>4. Tabulates(h, k + 1)
    BY <2>3 DEF Tabulates
  <2> HIDE DEF h
  <2>5. k + 1 \in Nat /\ \E whole : Tabulates(whole, k + 1)
    BY <2>4
  <2> QED
    BY <2>5
<1>3. n \in P
  <2> HIDE DEF P
  <2> QED
    BY <1>1, <1>2, UpTo
<1> QED
  BY <1>3

LEMMA TabulatedAlike ==
  ASSUME NEW n \in Nat, NEW m \in Nat, n <= m, NEW g, NEW h, Tabulates(g, n), Tabulates(h, m)
  PROVE  g[n] = h[n]
<1> DEFINE P == {k \in 0 .. n : g[k] = h[k]}
<1>1. 0 \in P
  BY DEF Tabulates
<1>2. \A k \in 0 .. n : k < n /\ k \in P => k + 1 \in P
  <2> SUFFICES ASSUME NEW k \in 0 .. n, k < n, g[k] = h[k] PROVE g[k + 1] = h[k + 1]
    OBVIOUS
  <2>1. k + 1 \in 0 .. n /\ k + 1 \in 0 .. m /\ k + 1 # 0 /\ k + 1 - 1 = k
    OBVIOUS
  <2>2. g[k + 1] = Longer(g[k], k + 1)
    BY <2>1 DEF Tabulates
  <2>3. h[k + 1] = Longer(h[k], k + 1)
    BY <2>1 DEF Tabulates
  <2> QED
    BY <2>2, <2>3
<1>3. n \in P
  <2> HIDE DEF P
  <2> QED
    BY <1>1, <1>2, UpTo
<1> QED
  BY <1>3

\* So Grammar is what its definition says, for every length.
LEMMA GrammarSteps ==
  /\ Grammar[0] = <<>>
  /\ \A n \in Nat : Grammar[n + 1] = Longer(Grammar[n], n + 1)
<1> DEFINE E(g) == g = [n \in Nat |-> IF n = 0 THEN <<>> ELSE Longer(g[n - 1], n)]
           T(n) == CHOOSE g : Tabulates(g, n)
           G == [n \in Nat |-> T(n)[n]]
<1>1. \A n \in Nat : Tabulates(T(n), n)
  BY Tabulated
<1>2. ASSUME NEW n \in Nat
      PROVE  G[n] = IF n = 0 THEN <<>> ELSE Longer(G[n - 1], n)
  <2>1. T(n)[n] = IF n = 0 THEN <<>> ELSE Longer(T(n)[n - 1], n)
    <3>1. Tabulates(T(n), n)
      BY <1>1
    <3> HIDE DEF T
    <3> QED
      BY <3>1 DEF Tabulates
  <2>2. n # 0 => T(n - 1)[n - 1] = T(n)[n - 1]
    <3>1. SUFFICES ASSUME n # 0 PROVE T(n - 1)[n - 1] = T(n)[n - 1]
      OBVIOUS
    <3>2. n - 1 \in Nat /\ n - 1 <= n
      BY <3>1
    <3>3. Tabulates(T(n - 1), n - 1) /\ Tabulates(T(n), n)
      BY <1>1, <3>2
    <3> HIDE DEF T
    <3>4. PICK k : k = n - 1
      OBVIOUS
    <3> QED
      BY <3>2, <3>3, <3>4, TabulatedAlike
  <2> HIDE DEF T
  <2> QED
    BY <2>1, <2>2
<1>3. E(G)
  <2> HIDE DEF G
  <2>1. G = [n \in Nat |-> G[n]]
    BY DEF G
  <2> QED
    BY <1>2, <2>1
<1>4. E(Grammar)
  <2>1. Grammar = CHOOSE g : E(g)
    BY DEF Grammar
  <2>2. E(CHOOSE g : E(g))
    <3> HIDE DEF G, E
    <3> QED
      BY <1>3
  <2> HIDE DEF E
  <2> QED
    BY <2>1, <2>2
<1>5. Grammar[0] = <<>>
  BY <1>4
<1>6. ASSUME NEW n \in Nat PROVE Grammar[n + 1] = Longer(Grammar[n], n + 1)
  <2>1. n + 1 \in Nat /\ n + 1 # 0 /\ n + 1 - 1 = n
    OBVIOUS
  <2> QED
    BY <1>4, <2>1
<1> QED
  BY <1>5, <1>6
-----------------------------------------------------------------------------
(* Words and their lengths. *)

Words == Seq(Tokens)

LEMMA OneToken ==
  ASSUME NEW t \in Tokens
  PROVE  <<t>> \in Words /\ Len(<<t>>) = 1 /\ <<t>>[1] = t
BY DEF Words

LEMMA Joined ==
  ASSUME NEW s \in Words, NEW t \in Words
  PROVE  s \o t \in Words /\ Len(s \o t) = Len(s) + Len(t) /\ Len(s) \in Nat /\ Len(t) \in Nat
BY ConcatProperties DEF Words

LEMMA Regrouped ==
  ASSUME NEW s \in Words, NEW t \in Words, NEW u \in Words
  PROVE  (s \o t) \o u = s \o (t \o u)
BY ConcatAssociative DEF Words

\* A word begins with one token only, and goes on in one way only.
LEMMA OneBeginning ==
  ASSUME NEW a \in Tokens, NEW b \in Tokens, NEW s \in Words, NEW t \in Words,
         <<a>> \o s = <<b>> \o t
  PROVE  a = b /\ s = t
<1>1. <<a>> \in Words /\ <<b>> \in Words /\ Len(<<a>>) = 1 /\ Len(<<b>>) = 1
  BY OneToken
<1>2. (<<a>> \o s)[1] = a /\ (<<b>> \o t)[1] = b
  <2>1. Len(s) \in Nat /\ Len(t) \in Nat
    BY DEF Words
  <2>2. 1 \in 1 .. Len(<<a>>) + Len(s) /\ 1 \in 1 .. Len(<<b>>) + Len(t)
    BY <1>1, <2>1
  <2>3. (<<a>> \o s)[1] = <<a>>[1] /\ (<<b>> \o t)[1] = <<b>>[1]
    BY <1>1, <2>2, ConcatProperties DEF Words
  <2> QED
    BY <2>3
<1>3. s = t
  <2>1. <<a>> \o s = <<a>> \o t
    BY <1>2
  <2> QED
    BY <1>1, <2>1, ConcatSimplifications DEF Words
<1> QED
  BY <1>2, <1>3

\* The tokens of the grammar.
LEMMA Punctuation ==
  /\ {"{", "}", "[", "]", ",", ":", "word", "text"} \subseteq Tokens
  /\ \A t \in {"{", "}", "[", "]", ",", ":", "word", "text"} : <<t>> \in Words /\ Len(<<t>>) = 1
<1>1. {"{", "}", "[", "]", ",", ":", "word", "text"} \subseteq Tokens
  BY DEF Tokens, Strings, Literals
<1> QED
  BY <1>1, OneToken

\* What a member begins with.
LEMMA KeyAndColon == <<"text", ":">> \in Words /\ Len(<<"text", ":">>) = 2
<1>1. "text" \in Tokens /\ ":" \in Tokens
  BY Punctuation
<1>2. <<"text", ":">> \in Seq(Tokens)
  BY <1>1
<1> QED
  BY <1>2 DEF Words

Parts == {"value", "elements", "members"}

\* What there is of every length has that length.
Graded(L) ==
  /\ L \in Seq([Parts -> SUBSET Words])
  /\ \A i \in 1 .. Len(L) : \A w \in Parts : \A s \in L[i][w] : Len(s) = i

LEMMA AtGraded ==
  ASSUME NEW L, Graded(L), NEW w \in Parts, NEW n, NEW s \in At(L, n, w)
  PROVE  n \in 1 .. Len(L) /\ s \in L[n][w] /\ s \in Words /\ Len(s) = n
<1>1. n \in DOMAIN L /\ s \in L[n][w]
  BY DEF At
<1>2. n \in 1 .. Len(L) /\ L[n] \in [Parts -> SUBSET Words]
  BY <1>1 DEF Graded
<1> QED
  BY <1>1, <1>2 DEF Graded

LEMMA BracketedIs ==
  ASSUME NEW o \in Tokens, NEW c \in Tokens, NEW s \in Words
  PROVE  <<o>> \o s \o <<c>> \in Words /\ Len(<<o>> \o s \o <<c>>) = Len(s) + 2
<1>1. <<o>> \in Words /\ <<c>> \in Words /\ Len(<<o>>) = 1 /\ Len(<<c>>) = 1
  BY OneToken
<1>2. <<o>> \o s \in Words /\ Len(<<o>> \o s) = 1 + Len(s) /\ Len(s) \in Nat
  BY <1>1, Joined
<1>3. <<o>> \o s \o <<c>> \in Words /\ Len(<<o>> \o s \o <<c>>) = Len(<<o>> \o s) + 1
  BY <1>1, <1>2, Joined
<1> QED
  BY <1>2, <1>3

LEMMA WithComma ==
  ASSUME NEW s \in Words
  PROVE  s \o <<",">> \in Words /\ Len(s \o <<",">>) = Len(s) + 1
BY Punctuation, Joined

Opening(k) == IF k = "object" THEN "{" ELSE "["
Inside(k)  == IF k = "object" THEN "members" ELSE "elements"

\* A container of what is in S.
Contains(S, k, s) ==
  \/ s = <<Opening(k), Closing(k)>>
  \/ \E e \in S : s = <<Opening(k)>> \o e \o <<Closing(k)>>
  \/ \E e \in S : s = <<Opening(k)>> \o (e \o <<",">>) \o <<Closing(k)>>

LEMMA KindTokens ==
  ASSUME NEW k \in Kinds
  PROVE  Opening(k) \in Tokens /\ Closing(k) \in Tokens /\ Inside(k) \in Parts
BY DEF Kinds, Opening, Closing, Inside, Tokens, Parts

LEMMA ContainersGraded ==
  ASSUME NEW L, Graded(L), NEW k \in Kinds, NEW n \in Nat,
         NEW s \in Containers(L, n, Opening(k), Inside(k), Closing(k))
  PROVE  s \in Words /\ Len(s) = n
<1> DEFINE o == Opening(k)
           c == Closing(k)
           w == Inside(k)
<1>0. o \in Tokens /\ c \in Tokens /\ w \in Parts
  BY KindTokens
<1> HIDE DEF o, c, w
<1>1. CASE n = 2 /\ s = <<o, c>>
  BY <1>0, <1>1 DEF Words
<1>2. CASE s \in Bracketed(o, At(L, n - 2, w), c)
  <2>1. PICK e \in At(L, n - 2, w) : s = <<o>> \o e \o <<c>>
    BY <1>2 DEF Bracketed
  <2>2. e \in Words /\ Len(e) = n - 2
    BY <1>0, AtGraded
  <2> QED
    BY <1>0, <2>1, <2>2, BracketedIs
<1>3. CASE s \in Bracketed(o, {e \o <<",">> : e \in At(L, n - 3, w)}, c)
  <2>1. PICK e \in At(L, n - 3, w) : s = <<o>> \o (e \o <<",">>) \o <<c>>
    BY <1>3 DEF Bracketed
  <2>2. e \in Words /\ Len(e) = n - 3
    BY <1>0, AtGraded
  <2>3. e \o <<",">> \in Words /\ Len(e \o <<",">>) = n - 2
    <3>1. e \o <<",">> \in Words /\ Len(e \o <<",">>) = Len(e) + 1
      BY <2>2, WithComma
    <3>2. Len(e) + 1 = n - 2
      BY <2>2
    <3> QED
      BY <3>1, <3>2
  <2>4. PICK u : u = e \o <<",">>
    OBVIOUS
  <2>5. u \in Words /\ Len(u) = n - 2 /\ s = <<o>> \o u \o <<c>>
    BY <2>1, <2>3, <2>4
  <2>6. (n - 2) + 2 = n
    OBVIOUS
  <2>7. s \in Words /\ Len(s) = Len(u) + 2
    BY <1>0, <2>5, BracketedIs
  <2> QED
    BY <2>5, <2>6, <2>7
<1>4. s \in Containers(L, n, o, w, c)
  BY DEF o, c, w
<1> QED
  BY <1>1, <1>2, <1>3, <1>4 DEF Containers

LEMMA ValuesGraded ==
  ASSUME NEW L, Graded(L), NEW n \in Nat, NEW s \in Values(L, n)
  PROVE  s \in Words /\ Len(s) = n
<1>1. CASE n = 1 /\ s \in {<<"word">>, <<"text">>}
  BY <1>1, Punctuation
<1>2. CASE \E k \in Kinds : s \in Containers(L, n, Opening(k), Inside(k), Closing(k))
  BY <1>2, ContainersGraded
<1>3. /\ Opening("array") = "[" /\ Inside("array") = "elements" /\ Closing("array") = "]"
      /\ Opening("object") = "{" /\ Inside("object") = "members" /\ Closing("object") = "}"
      /\ {"array", "object"} = Kinds
  BY DEF Opening, Inside, Closing, Kinds
<1> QED
  BY <1>1, <1>2, <1>3 DEF Values

LEMMA MemberGraded ==
  ASSUME NEW L, Graded(L), NEW n \in Int, NEW s \in Member(L, n)
  PROVE  s \in Words /\ Len(s) = n
<1>1. PICK v \in At(L, n - 2, "value") : s = <<"text", ":">> \o v
  BY DEF Member
<1>2. v \in Words /\ Len(v) = n - 2
  BY AtGraded DEF Parts
<1>3. <<"text", ":">> \in Words /\ Len(<<"text", ":">>) = 2
  BY KeyAndColon
<1>4. s \in Words /\ Len(s) = 2 + Len(v)
  BY <1>1, <1>2, <1>3, Joined
<1>5. 2 + (n - 2) = n
  OBVIOUS
<1> QED
  BY <1>2, <1>4, <1>5

LEMMA FollowedIs ==
  ASSUME NEW i \in Words, NEW s \in Words
  PROVE  i \o <<",">> \o s \in Words /\ Len(i \o <<",">> \o s) = Len(i) + 1 + Len(s)
<1>1. i \o <<",">> \in Words /\ Len(i \o <<",">>) = Len(i) + 1
  BY WithComma
<1> QED
  BY <1>1, Joined

\* s is one of S, a comma and one of T.
Lists(S, T, s) == \E i \in S, r \in T : s = i \o <<",">> \o r

LEMMA ListedIs ==
  ASSUME NEW L, NEW n \in Int, NEW k \in Int, NEW S, NEW w, NEW s
  PROVE  s \in Listed(L, n, k, S, w) <=> Lists(S, At(L, n - 1 - k, w), s)
<1> DEFINE R == At(L, n - 1 - k, w)
           F(r) == {i \o <<",">> \o r : i \in S}
<1>1. Listed(L, n, k, S, w) = UNION {F(r) : r \in R}
  BY DEF Listed
<1>2. \A r : s \in F(r) <=> \E i \in S : s = i \o <<",">> \o r
  OBVIOUS
<1> HIDE DEF F, R
<1>3. s \in UNION {F(r) : r \in R} <=> \E r \in R : s \in F(r)
  OBVIOUS
<1>4. s \in Listed(L, n, k, S, w) <=> \E r \in R : \E i \in S : s = i \o <<",">> \o r
  BY <1>1, <1>2, <1>3
<1> QED
  BY <1>4 DEF R, Lists

LEMMA ListedGraded ==
  ASSUME NEW L, Graded(L), NEW n \in Int, NEW k \in Int, NEW w \in Parts,
         NEW S, \A i \in S : i \in Words /\ Len(i) = k,
         NEW s \in Listed(L, n, k, S, w)
  PROVE  s \in Words /\ Len(s) = n
<1>1. PICK r \in At(L, n - 1 - k, w) : s \in {i \o <<",">> \o r : i \in S}
  BY DEF Listed
<1>2. PICK i \in S : s = i \o <<",">> \o r
  BY <1>1
<1>3. r \in Words /\ Len(r) = n - 1 - k
  BY AtGraded
<1>4. s \in Words /\ Len(s) = Len(i) + 1 + Len(r)
  BY <1>2, <1>3, FollowedIs
<1>5. Len(s) = k + 1 + (n - 1 - k)
  BY <1>3, <1>4
<1>6. k + 1 + (n - 1 - k) = n
  OBVIOUS
<1> QED
  BY <1>4, <1>5, <1>6

Elements(L, n) ==
  Values(L, n) \cup
    UNION {Listed(L, n, k, At(L, k, "value"), "elements") : k \in 1 .. n - 2}

Members(L, n) ==
  Member(L, n) \cup
    UNION {Listed(L, n, k, Member(L, k), "members") : k \in 3 .. n - 2}

LEMMA SetsGraded ==
  ASSUME NEW L, Graded(L), NEW n \in Nat,
         NEW s \in Values(L, n) \cup Elements(L, n) \cup Members(L, n)
  PROVE  s \in Words /\ Len(s) = n
<1>1. CASE s \in Values(L, n) \/ s \in Member(L, n)
  BY <1>1, ValuesGraded, MemberGraded
<1>2. CASE \E k \in 1 .. n - 2 : s \in Listed(L, n, k, At(L, k, "value"), "elements")
  <2>1. PICK k \in 1 .. n - 2 : s \in Listed(L, n, k, At(L, k, "value"), "elements")
    BY <1>2
  <2>2. \A i \in At(L, k, "value") : i \in Words /\ Len(i) = k
    BY AtGraded DEF Parts
  <2>3. "elements" \in Parts
    BY DEF Parts
  <2> QED
    BY <2>1, <2>2, <2>3, ListedGraded
<1>3. CASE \E k \in 3 .. n - 2 : s \in Listed(L, n, k, Member(L, k), "members")
  <2>1. PICK k \in 3 .. n - 2 : s \in Listed(L, n, k, Member(L, k), "members")
    BY <1>3
  <2>2. \A i \in Member(L, k) : i \in Words /\ Len(i) = k
    BY MemberGraded
  <2>3. "members" \in Parts
    BY DEF Parts
  <2> QED
    BY <2>1, <2>2, <2>3, ListedGraded
<1> QED
  BY <1>1, <1>2, <1>3 DEF Elements, Members

\* The next length.
LEMMA LongerGraded ==
  ASSUME NEW n \in Nat, NEW L, Graded(L), Len(L) = n
  PROVE  /\ Graded(Longer(L, n + 1)) /\ Len(Longer(L, n + 1)) = n + 1
         /\ \A i \in 1 .. n : Longer(L, n + 1)[i] = L[i]
         /\ Longer(L, n + 1)[n + 1]["value"] = Values(L, n + 1)
         /\ Longer(L, n + 1)[n + 1]["elements"] = Elements(L, n + 1)
         /\ Longer(L, n + 1)[n + 1]["members"] = Members(L, n + 1)
<1> DEFINE m == n + 1
           r == [value |-> Values(L, m), elements |-> Elements(L, m), members |-> Members(L, m)]
           G == Longer(L, m)
<1>1. G = Append(L, r)
  BY DEF Longer, Elements, Members
<1>2. r \in [Parts -> SUBSET Words]
  <2>0. m \in Nat
    OBVIOUS
  <2>1. /\ Values(L, m) \in SUBSET Words /\ Elements(L, m) \in SUBSET Words
        /\ Members(L, m) \in SUBSET Words
    BY <2>0, SetsGraded
  <2> QED
    BY <2>1 DEF Parts
<1>3. \A w \in Parts : \A s \in r[w] : Len(s) = m
  <2>0. m \in Nat
    OBVIOUS
  <2>1. \A s \in Values(L, m) \cup Elements(L, m) \cup Members(L, m) : Len(s) = m
    BY <2>0, SetsGraded
  <2> HIDE DEF m
  <2> QED
    BY <2>1 DEF Parts
<1>4. /\ r["value"] = Values(L, m) /\ r["elements"] = Elements(L, m)
      /\ r["members"] = Members(L, m)
  OBVIOUS
<1>5. L \in Seq([Parts -> SUBSET Words])
  BY DEF Graded
<1> HIDE DEF r
<1>6. /\ G \in Seq([Parts -> SUBSET Words]) /\ Len(G) = n + 1
      /\ \A i \in 1 .. n : G[i] = L[i]
      /\ G[n + 1] = r
  <2> DEFINE T == [Parts -> SUBSET Words]
             A == Append(L, r)
  <2>1. L \in Seq(T) /\ r \in T
    BY <1>2, <1>5
  <2> HIDE DEF T
  <2>2. /\ A \in Seq(T) /\ Len(A) = Len(L) + 1
        /\ \A i \in 1 .. Len(L) : A[i] = L[i]
        /\ A[Len(L) + 1] = r
    BY <2>1, AppendProperties
  <2> HIDE DEF A
  <2>3. A = G
    BY <1>1 DEF A
  <2> HIDE DEF G
  <2>4. G \in Seq(T) /\ Len(G) = n + 1 /\ (\A i \in 1 .. n : G[i] = L[i]) /\ G[n + 1] = r
    BY <2>2, <2>3
  <2> QED
    BY <2>4 DEF T
<1>7. Graded(G)
  <2> HIDE DEF G
  <2>1. ASSUME NEW i \in 1 .. n + 1, NEW w \in Parts, NEW s \in G[i][w] PROVE Len(s) = i
    <3>1. CASE i = n + 1
      BY <1>3, <1>6, <2>1, <3>1
    <3>2. CASE i # n + 1
      <4>1. i \in 1 .. n
        BY <3>2
      <4>2. G[i] = L[i] /\ i \in 1 .. Len(L)
        BY <1>6, <4>1
      <4> QED
        BY <2>1, <4>2 DEF Graded
    <3> QED
      BY <3>1, <3>2
  <2> QED
    BY <1>6, <2>1 DEF Graded
<1> QED
  BY <1>4, <1>6, <1>7

LEMMA GrammarGraded ==
  ASSUME NEW n \in Nat
  PROVE  Graded(Grammar[n]) /\ Len(Grammar[n]) = n
<1> DEFINE P == {k \in Nat : Graded(Grammar[k]) /\ Len(Grammar[k]) = k}
<1>1. 0 \in P
  <2>1. <<>> \in Seq([Parts -> SUBSET Words]) /\ Len(<<>>) = 0
    BY EmptySeq
  <2>2. Graded(<<>>)
    BY <2>1 DEF Graded
  <2> QED
    BY <2>1, <2>2, GrammarSteps
<1>2. ASSUME NEW k \in Nat, k \in P PROVE k + 1 \in P
  <2>1. Graded(Longer(Grammar[k], k + 1)) /\ Len(Longer(Grammar[k], k + 1)) = k + 1
    BY <1>2, LongerGraded
  <2>2. Grammar[k + 1] = Longer(Grammar[k], k + 1)
    BY GrammarSteps
  <2> QED
    BY <2>1, <2>2
<1>3. n \in P
  <2> HIDE DEF P
  <2> QED
    BY <1>1, <1>2, UpTo
<1> QED
  BY <1>3

\* What there is of one length stays.
LEMMA GrammarStays ==
  ASSUME NEW n \in Nat, NEW i \in 1 .. n
  PROVE  Grammar[n][i] = Grammar[i][i]
<1> DEFINE P == {k \in Nat : k < i \/ Grammar[k][i] = Grammar[i][i]}
<1>1. 0 \in P
  OBVIOUS
<1>2. ASSUME NEW k \in Nat, k \in P PROVE k + 1 \in P
  <2>1. CASE k + 1 < i
    BY <2>1
  <2>2. CASE k + 1 = i
    BY <2>2
  <2>3. CASE k >= i
    <3>1. i \in 1 .. k /\ Grammar[k][i] = Grammar[i][i]
      BY <1>2, <2>3
    <3>2. Longer(Grammar[k], k + 1)[i] = Grammar[k][i]
      BY <3>1, GrammarGraded, LongerGraded
    <3>3. Grammar[k + 1] = Longer(Grammar[k], k + 1)
      BY GrammarSteps
    <3> QED
      BY <3>1, <3>2, <3>3
  <2> QED
    BY <2>1, <2>2, <2>3
<1>3. n \in P
  <2> HIDE DEF P
  <2> QED
    BY <1>1, <1>2, UpTo
<1> QED
  BY <1>3

-----------------------------------------------------------------------------
(* The sentences of the grammar, however long they are. *)

\* Those of part w: the words that the table has under their own length.
Sentences(w) == {s \in Words : Len(s) >= 1 /\ s \in Grammar[Len(s)][Len(s)][w]}

LEMMA SentencesAt ==
  ASSUME NEW n \in Nat, NEW k \in Int, k <= n, NEW w \in Parts, NEW s
  PROVE  s \in At(Grammar[n], k, w) <=> s \in Sentences(w) /\ Len(s) = k
<1>1. Graded(Grammar[n]) /\ Len(Grammar[n]) = n
  BY GrammarGraded
<1>2. ASSUME s \in At(Grammar[n], k, w) PROVE s \in Sentences(w) /\ Len(s) = k
  <2>1. k \in 1 .. n /\ s \in Grammar[n][k][w] /\ s \in Words /\ Len(s) = k
    BY <1>1, <1>2, AtGraded
  <2>2. Grammar[n][k] = Grammar[k][k]
    BY <2>1, GrammarStays
  <2>3. s \in Grammar[Len(s)][Len(s)][w]
    BY <2>1, <2>2
  <2> QED
    BY <2>1, <2>3 DEF Sentences
<1>3. ASSUME s \in Sentences(w), Len(s) = k PROVE s \in At(Grammar[n], k, w)
  <2>1. k >= 1 /\ s \in Grammar[k][k][w]
    BY <1>3 DEF Sentences
  <2>2. k \in 1 .. n
    BY <2>1
  <2>3. Grammar[n][k] = Grammar[k][k]
    BY <2>2, GrammarStays
  <2>4. k \in DOMAIN Grammar[n]
    BY <1>1, <2>2 DEF Graded
  <2> QED
    BY <2>1, <2>3, <2>4 DEF At
<1> QED
  BY <1>2, <1>3

LEMMA SentencesLast ==
  ASSUME NEW n \in Nat, NEW s \in Words, Len(s) = n + 1
  PROVE  /\ s \in Sentences("value") <=> s \in Values(Grammar[n], n + 1)
         /\ s \in Sentences("elements") <=> s \in Elements(Grammar[n], n + 1)
         /\ s \in Sentences("members") <=> s \in Members(Grammar[n], n + 1)
<1> DEFINE m == n + 1
<1>1. Graded(Grammar[n]) /\ Len(Grammar[n]) = n
  BY GrammarGraded
<1>2. Grammar[m] = Longer(Grammar[n], m)
  BY GrammarSteps
<1>3. /\ Grammar[m][m]["value"] = Values(Grammar[n], m)
      /\ Grammar[m][m]["elements"] = Elements(Grammar[n], m)
      /\ Grammar[m][m]["members"] = Members(Grammar[n], m)
  BY <1>1, <1>2, LongerGraded
<1>4. m >= 1 /\ Len(s) = m
  OBVIOUS
<1> HIDE DEF m
<1>5. \A w : s \in Sentences(w) <=> s \in Grammar[m][m][w]
  BY <1>4 DEF Sentences
<1> QED
  BY <1>3, <1>5 DEF m

LEMMA WordTyped ==
  ASSUME NEW w, NEW s \in Sentences(w)
  PROVE  s \in Words /\ Len(s) \in Nat \ {0}
BY DEF Sentences, Words

LEMMA ContainersAre ==
  ASSUME NEW n \in Nat, NEW k \in Kinds, NEW s \in Words, Len(s) = n + 1
  PROVE  s \in Containers(Grammar[n], n + 1, Opening(k), Inside(k), Closing(k))
           <=> Contains(Sentences(Inside(k)), k, s)
<1> DEFINE o == Opening(k)
           c == Closing(k)
           w == Inside(k)
           L == Grammar[n]
           m == n + 1
<1>0. o \in Tokens /\ c \in Tokens /\ w \in Parts
  BY KindTokens
<1>1. /\ m \in Nat /\ Len(s) = m
      /\ \A e : e \in At(L, m - 2, w) <=> e \in Sentences(w) /\ Len(e) = m - 2
      /\ \A e : e \in At(L, m - 3, w) <=> e \in Sentences(w) /\ Len(e) = m - 3
  <2>1. m - 2 \in Int /\ m - 2 <= n /\ m - 3 \in Int /\ m - 3 <= n
    OBVIOUS
  <2> HIDE DEF w
  <2>2. ASSUME NEW i \in Int, i <= n, NEW e
        PROVE  e \in At(L, i, w) <=> e \in Sentences(w) /\ Len(e) = i
    BY <1>0, <2>2, SentencesAt
  <2> QED
    BY <2>1, <2>2
<1> HIDE DEF L, m
<1>2. s \in Containers(L, m, o, w, c) <=>
        \/ m = 2 /\ s = <<o, c>>
        \/ \E e \in At(L, m - 2, w) : s = <<o>> \o e \o <<c>>
        \/ \E e \in At(L, m - 3, w) : s = <<o>> \o (e \o <<",">>) \o <<c>>
  <2> HIDE DEF o, w, c
  <2> QED
    BY DEF Containers, Bracketed
<1> HIDE DEF o, w, c
<1>3. s = <<o, c>> => m = 2
  <2>1. Len(<<o, c>>) = 2
    OBVIOUS
  <2> QED
    BY <1>1, <2>1
<1>4. ASSUME NEW e \in Sentences(w), s = <<o>> \o e \o <<c>>
      PROVE  Len(e) = m - 2
  <2>1. e \in Words /\ Len(e) \in Nat
    BY WordTyped
  <2>2. Len(s) = Len(e) + 2
    BY <1>0, <1>4, <2>1, BracketedIs
  <2> QED
    BY <1>1, <2>1, <2>2
<1>5. ASSUME NEW e \in Sentences(w), s = <<o>> \o (e \o <<",">>) \o <<c>>
      PROVE  Len(e) = m - 3
  <2>1. e \in Words /\ Len(e) \in Nat
    BY WordTyped
  <2>2. PICK u : u = e \o <<",">>
    OBVIOUS
  <2>3. u \in Words /\ Len(u) = Len(e) + 1
    BY <2>1, <2>2, WithComma
  <2>4. Len(s) = Len(u) + 2
    BY <1>0, <1>5, <2>2, <2>3, BracketedIs
  <2> QED
    BY <1>1, <2>1, <2>3, <2>4
<1>6. Contains(Sentences(w), k, s) <=>
        \/ s = <<o, c>>
        \/ \E e \in Sentences(w) : s = <<o>> \o e \o <<c>>
        \/ \E e \in Sentences(w) : s = <<o>> \o (e \o <<",">>) \o <<c>>
  BY DEF Contains, o, c
<1>7. s \in Containers(L, m, o, w, c) <=> Contains(Sentences(w), k, s)
  BY <1>1, <1>2, <1>3, <1>4, <1>5, <1>6
<1> QED
  BY <1>7 DEF L, m, o, w, c

\* A value is a word, a string or a container.
LEMMA ValueIs ==
  ASSUME NEW s
  PROVE  s \in Sentences("value") <=>
           \/ s \in {<<"word">>, <<"text">>}
           \/ s \in Words /\ \E k \in Kinds : Contains(Sentences(Inside(k)), k, s)
<1>1. s \in Sentences("value") => s \in Words /\ Len(s) \in Nat \ {0}
  BY WordTyped
<1>2. s \in {<<"word">>, <<"text">>} => s \in Words /\ Len(s) = 1
  BY Punctuation
<1>3. ASSUME NEW k \in Kinds, Contains(Sentences(Inside(k)), k, s)
      PROVE  Len(s) # 0
  <2>0. Opening(k) \in Tokens /\ Closing(k) \in Tokens
    BY KindTokens
  <2> DEFINE o == Opening(k)
             c == Closing(k)
  <2> HIDE DEF o, c
  <2>1. Len(<<o, c>>) = 2
    OBVIOUS
  <2>2. ASSUME NEW e \in Words PROVE Len(<<o>> \o e \o <<c>>) # 0
    <3>1. Len(e) \in Nat
      BY DEF Words
    <3>2. o \in Tokens /\ c \in Tokens
      BY <2>0 DEF o, c
    <3>3. Len(<<o>> \o e \o <<c>>) = Len(e) + 2
      BY <3>2, BracketedIs
    <3> QED
      BY <3>1, <3>3
  <2>3. \A e \in Sentences(Inside(k)) : e \in Words /\ e \o <<",">> \in Words
    BY WordTyped, WithComma
  <2>4. \/ s = <<o, c>>
        \/ \E e \in Sentences(Inside(k)) : s = <<o>> \o e \o <<c>>
        \/ \E e \in Sentences(Inside(k)) : s = <<o>> \o (e \o <<",">>) \o <<c>>
    BY <1>3 DEF Contains, o, c
  <2>5. CASE \E e \in Sentences(Inside(k)) : s = <<o>> \o e \o <<c>>
    BY <2>2, <2>3, <2>5
  <2>6. CASE \E e \in Sentences(Inside(k)) : s = <<o>> \o (e \o <<",">>) \o <<c>>
    <3>1. PICK e \in Sentences(Inside(k)) : s = <<o>> \o (e \o <<",">>) \o <<c>>
      BY <2>6
    <3>2. PICK u : u = e \o <<",">>
      OBVIOUS
    <3>3. u \in Words /\ s = <<o>> \o u \o <<c>>
      BY <2>3, <3>1, <3>2
    <3> QED
      BY <2>2, <3>3
  <2>7. CASE s = <<o, c>>
    <3>1. Len(s) = 2
      BY <2>1, <2>7, Zenon
    <3> QED
      BY <3>1
  <2> QED
    BY <2>4, <2>5, <2>6, <2>7
<1>4. ASSUME s \in Words, Len(s) \in Nat \ {0}
      PROVE  s \in Sentences("value") <=>
               \/ s \in {<<"word">>, <<"text">>}
               \/ \E k \in Kinds : Contains(Sentences(Inside(k)), k, s)
  <2>1. PICK n \in Nat : Len(s) = n + 1
    <3>1. Len(s) - 1 \in Nat /\ Len(s) = (Len(s) - 1) + 1
      BY <1>4
    <3> QED
      BY <3>1
  <2>2. s \in Sentences("value") <=> s \in Values(Grammar[n], n + 1)
    BY <1>4, <2>1, SentencesLast
  <2>3. s \in Values(Grammar[n], n + 1) <=>
          \/ n + 1 = 1 /\ s \in {<<"word">>, <<"text">>}
          \/ \E k \in Kinds :
               s \in Containers(Grammar[n], n + 1, Opening(k), Inside(k), Closing(k))
    <3>1. /\ Opening("array") = "[" /\ Inside("array") = "elements" /\ Closing("array") = "]"
          /\ Opening("object") = "{" /\ Inside("object") = "members" /\ Closing("object") = "}"
          /\ {"array", "object"} = Kinds
      BY DEF Opening, Inside, Closing, Kinds
    <3> QED
      BY <3>1 DEF Values
  <2>4. \A k \in Kinds :
          s \in Containers(Grammar[n], n + 1, Opening(k), Inside(k), Closing(k))
            <=> Contains(Sentences(Inside(k)), k, s)
    BY <1>4, <2>1, ContainersAre
  <2>5. s \in {<<"word">>, <<"text">>} => n + 1 = 1
    BY <1>2, <2>1
  <2> QED
    BY <2>2, <2>3, <2>4, <2>5
<1>5. s \in Words => Len(s) \in Nat
  BY DEF Words
<1> QED
  BY <1>1, <1>2, <1>3, <1>4, <1>5

\* The one of S has length k.
ListsAt(S, T, k, s) == \E i \in S, r \in T : s = i \o <<",">> \o r /\ Len(i) = k

\* The lists of length n + 1 that the table has, the first item (one of K) being k long.
LEMMA ListedSentences ==
  ASSUME NEW n \in Nat, NEW s \in Words, Len(s) = n + 1, NEW w \in Parts,
         NEW S, \A i \in S : i \in Words /\ Len(i) \in Nat \ {0},
         NEW k \in 1 .. n - 1, NEW K, \A i : i \in K <=> i \in S /\ Len(i) = k
  PROVE  s \in Listed(Grammar[n], n + 1, k, K, w)
           <=> ListsAt(S, Sentences(w), k, s)
<1> DEFINE j == n + 1 - 1 - k
           T == At(Grammar[n], j, w)
<1>1. j \in Int /\ j <= n /\ n + 1 \in Int /\ k \in Int /\ n + 1 = k + 1 + j
  OBVIOUS
<1>2. s \in Listed(Grammar[n], n + 1, k, K, w) <=> Lists(K, T, s)
  BY <1>1, ListedIs
<1> HIDE DEF j
<1>3. \A r : r \in T <=> r \in Sentences(w) /\ Len(r) = j
  BY <1>1, SentencesAt
<1>4. ASSUME NEW i \in S, NEW r \in Sentences(w), s = i \o <<",">> \o r, Len(i) = k
      PROVE  Len(r) = j
  <2>1. r \in Words /\ Len(r) \in Nat /\ i \in Words
    BY WordTyped
  <2>2. Len(s) = Len(i) + 1 + Len(r)
    BY <1>4, <2>1, FollowedIs
  <2> DEFINE a == Len(r)
  <2>3. a \in Nat /\ n + 1 = k + 1 + a
    BY <1>4, <2>1, <2>2
  <2> HIDE DEF a
  <2>4. a = j
    BY <1>1, <2>3
  <2> QED
    BY <2>4 DEF a
<1> HIDE DEF T
<1> QED
  BY <1>2, <1>3, <1>4 DEF Lists, ListsAt

LEMMA FirstOfSum ==
  ASSUME NEW n \in Nat, NEW a \in Nat \ {0}, NEW b \in Nat \ {0}, n + 1 = a + 1 + b
  PROVE  a \in 1 .. n - 1
OBVIOUS

\* The first of several is shorter than all of them.
LEMMA FirstShorter ==
  ASSUME NEW n \in Nat, NEW s \in Words, Len(s) = n + 1,
         NEW i \in Words, Len(i) \in Nat \ {0}, NEW w, NEW r \in Sentences(w),
         s = i \o <<",">> \o r
  PROVE  Len(i) \in 1 .. n - 1
<1>1. r \in Words /\ Len(r) \in Nat \ {0}
  BY WordTyped
<1>2. Len(s) = Len(i) + 1 + Len(r)
  BY <1>1, FollowedIs
<1>3. n + 1 = Len(i) + 1 + Len(r)
  BY <1>2, Zenon
<1> QED
  BY <1>1, <1>3, FirstOfSum

LEMMA ListTyped ==
  ASSUME NEW S, \A i \in S : i \in Words, NEW w, NEW s, Lists(S, Sentences(w), s)
  PROVE  s \in Words /\ Len(s) \in Nat \ {0}
<1>1. PICK i \in S, r \in Sentences(w) : s = i \o <<",">> \o r
  BY DEF Lists
<1>2. i \in Words /\ r \in Words /\ Len(i) \in Nat /\ Len(r) \in Nat
  <2>1. r \in Words /\ Len(r) \in Nat
    BY WordTyped
  <2> QED
    BY <2>1 DEF Words
<1>3. s \in Words /\ Len(s) = Len(i) + 1 + Len(r)
  BY <1>1, <1>2, FollowedIs
<1> DEFINE a == Len(i)
           b == Len(r)
<1>4. a \in Nat /\ b \in Nat /\ Len(s) = a + 1 + b
  BY <1>2, <1>3
<1> HIDE DEF a, b
<1>5. Len(s) \in Nat \ {0}
  BY <1>4
<1> QED
  BY <1>3, <1>5

LEMMA ElementsAre ==
  ASSUME NEW s
  PROVE  s \in Sentences("elements") <=>
           \/ s \in Sentences("value")
           \/ Lists(Sentences("value"), Sentences("elements"), s)
<1> DEFINE S == Sentences("value")
           T == Sentences("elements")
<1>0. (\A i \in S : i \in Words /\ Len(i) \in Nat \ {0}) /\ {"value", "elements"} \subseteq Parts
  BY WordTyped DEF Parts
<1>1. ASSUME NEW n \in Nat, s \in Words, Len(s) = n + 1
      PROVE  s \in T <=> s \in S \/ Lists(S, T, s)
  <2> DEFINE L == Grammar[n]
             m == n + 1
  <2>1. s \in T <=>
          \/ s \in S
          \/ \E k \in 1 .. m - 2 : s \in Listed(L, m, k, At(L, k, "value"), "elements")
    BY <1>1, SentencesLast DEF Elements
  <2>2. ASSUME NEW k \in 1 .. n - 1
        PROVE  s \in Listed(L, m, k, At(L, k, "value"), "elements") <=>
                 ListsAt(S, T, k, s)
    <3>1. k \in Int /\ k <= n
      OBVIOUS
    <3>2. PICK K : K = At(L, k, "value")
      OBVIOUS
    <3>3. \A i : i \in K <=> i \in S /\ Len(i) = k
      BY <1>0, <3>1, <3>2, SentencesAt
    <3> HIDE DEF S
    <3>4. s \in Listed(L, m, k, K, "elements") <=>
            ListsAt(S, T, k, s)
      BY <1>0, <1>1, <3>3, ListedSentences
    <3> QED
      BY <3>2, <3>4
  <2>3. ASSUME NEW i \in S, NEW r \in T, s = i \o <<",">> \o r
        PROVE  Len(i) \in 1 .. n - 1
    BY <1>0, <1>1, <2>3, FirstShorter
  <2>4. m - 2 = n - 1
    OBVIOUS
  <2> HIDE DEF S, T, L, m
  <2> QED
    BY <2>1, <2>2, <2>3, <2>4 DEF Lists, ListsAt
<1>2. s \in T \/ s \in S => s \in Words /\ Len(s) \in Nat \ {0}
  BY WordTyped
<1>3. Lists(S, T, s) => s \in Words /\ Len(s) \in Nat \ {0}
  BY <1>0, ListTyped
<1>4. Len(s) \in Nat \ {0} => \E n \in Nat : Len(s) = n + 1
  <2>1. Len(s) \in Nat \ {0} => Len(s) - 1 \in Nat /\ Len(s) = (Len(s) - 1) + 1
    OBVIOUS
  <2> QED
    BY <2>1
<1> HIDE DEF S, T
<1>5. s \in T <=> s \in S \/ Lists(S, T, s)
  BY <1>1, <1>2, <1>3, <1>4
<1> QED
  BY <1>5 DEF S, T

\* A member is a string, a colon and a value.
MemberWords == {<<"text", ":">> \o v : v \in Sentences("value")}

LEMMA MemberTyped ==
  ASSUME NEW s \in MemberWords
  PROVE  s \in Words /\ Len(s) \in Nat \ {0, 1, 2}
<1>1. PICK v \in Sentences("value") : s = <<"text", ":">> \o v
  BY DEF MemberWords
<1>2. v \in Words /\ Len(v) \in Nat \ {0}
  BY WordTyped
<1>3. <<"text", ":">> \in Words /\ Len(<<"text", ":">>) = 2
  BY KeyAndColon
<1>4. s \in Words /\ Len(s) = 2 + Len(v)
  BY <1>1, <1>2, <1>3, Joined
<1> DEFINE a == Len(v)
<1>5. a \in Nat \ {0} /\ Len(s) = 2 + a
  BY <1>2, <1>4
<1> HIDE DEF a
<1> QED
  BY <1>4, <1>5

LEMMA MemberAt ==
  ASSUME NEW n \in Nat, NEW k \in Int, k <= n + 1, NEW s
  PROVE  s \in Member(Grammar[n], k) <=> s \in MemberWords /\ Len(s) = k
<1>1. k - 2 \in Int /\ k - 2 <= n /\ "value" \in Parts
  BY DEF Parts
<1> DEFINE j == k - 2
           V == At(Grammar[n], j, "value")
<1>2. \A v : v \in V <=> v \in Sentences("value") /\ Len(v) = j
  BY <1>1, SentencesAt
<1>3. s \in Member(Grammar[n], k) <=> \E v \in V : s = <<"text", ":">> \o v
  BY DEF Member
<1>4. ASSUME NEW v \in Sentences("value"), s = <<"text", ":">> \o v
      PROVE  Len(s) = k <=> Len(v) = j
  <2>1. v \in Words /\ Len(v) \in Nat
    BY WordTyped
  <2>2. <<"text", ":">> \in Words /\ Len(<<"text", ":">>) = 2
    BY KeyAndColon
  <2>3. Len(s) = 2 + Len(v)
    BY <1>4, <2>1, <2>2, Joined
  <2> DEFINE a == Len(v)
  <2>4. a \in Nat /\ Len(s) = 2 + a
    BY <2>1, <2>3
  <2> HIDE DEF a
  <2>5. Len(s) = k <=> a = j
    BY <2>4
  <2> QED
    BY <2>5 DEF a
<1> HIDE DEF V, j
<1> QED
  BY <1>2, <1>3, <1>4 DEF MemberWords

LEMMA AtLeastThree ==
  ASSUME NEW n \in Nat, NEW a \in Nat \ {0, 1, 2}, a \in 1 .. n - 1
  PROVE  a \in 3 .. n - 1
OBVIOUS

LEMMA MembersAre ==
  ASSUME NEW s
  PROVE  s \in Sentences("members") <=>
           s \in MemberWords \/ Lists(MemberWords, Sentences("members"), s)
<1> DEFINE S == MemberWords
           T == Sentences("members")
<1>0. (\A i \in S : i \in Words /\ Len(i) \in Nat \ {0, 1, 2}) /\ "members" \in Parts
  BY MemberTyped DEF Parts
<1>1. ASSUME NEW n \in Nat, s \in Words, Len(s) = n + 1
      PROVE  s \in T <=> s \in S \/ Lists(S, T, s)
  <2> DEFINE L == Grammar[n]
             m == n + 1
  <2>0. \A k \in Int : k <= m => \A i : i \in Member(L, k) <=> i \in S /\ Len(i) = k
    BY MemberAt
  <2>1. s \in T <=>
          \/ s \in Member(L, m)
          \/ \E k \in 3 .. m - 2 : s \in Listed(L, m, k, Member(L, k), "members")
    BY <1>1, SentencesLast DEF Members
  <2>2. ASSUME NEW k \in 3 .. n - 1
        PROVE  s \in Listed(L, m, k, Member(L, k), "members") <=>
                 ListsAt(S, T, k, s)
    <3>1. k \in Int /\ k <= m /\ k \in 1 .. n - 1
      OBVIOUS
    <3>2. PICK K : K = Member(L, k)
      OBVIOUS
    <3>3. \A i : i \in K <=> i \in S /\ Len(i) = k
      BY <2>0, <3>1, <3>2
    <3>5. \A i \in S : i \in Words /\ Len(i) \in Nat \ {0}
      BY <1>0
    <3> HIDE DEF S
    <3>4. s \in Listed(L, m, k, K, "members") <=>
            ListsAt(S, T, k, s)
      BY <1>0, <1>1, <3>1, <3>3, <3>5, ListedSentences
    <3> QED
      BY <3>2, <3>4
  <2>3. ASSUME NEW i \in S, NEW r \in T, s = i \o <<",">> \o r
        PROVE  Len(i) \in 3 .. n - 1
    <3>1. i \in Words /\ Len(i) \in Nat \ {0, 1, 2}
      BY <1>0
    <3>2. Len(i) \in 1 .. n - 1
      BY <1>1, <2>3, <3>1, FirstShorter
    <3> QED
      BY <3>1, <3>2, AtLeastThree
  <2>4. m - 2 = n - 1 /\ m \in Int
    OBVIOUS
  <2>5. s \in Member(L, m) <=> s \in S
    BY <1>1, <2>0, <2>4
  <2> HIDE DEF S, T, L, m
  <2> QED
    BY <2>1, <2>2, <2>3, <2>4, <2>5 DEF Lists, ListsAt
<1>2. s \in T \/ s \in S => s \in Words /\ Len(s) \in Nat \ {0}
  BY <1>0, WordTyped
<1>3. Lists(S, T, s) => s \in Words /\ Len(s) \in Nat \ {0}
  BY <1>0, ListTyped
<1>4. Len(s) \in Nat \ {0} => \E n \in Nat : Len(s) = n + 1
  <2>1. Len(s) \in Nat \ {0} => Len(s) - 1 \in Nat /\ Len(s) = (Len(s) - 1) + 1
    OBVIOUS
  <2> QED
    BY <2>1
<1> HIDE DEF S, T
<1>5. s \in T <=> s \in S \/ Lists(S, T, s)
  BY <1>1, <1>2, <1>3, <1>4
<1> QED
  BY <1>5 DEF S, T

-----------------------------------------------------------------------------
(* Sets of words. *)

\* A word of S and one of T.
Joins(S, T) == {r \in Words : \E s \in S : \E t \in T : r = s \o t}

\* The token t and a word of S.
Begins(t, S) == {r \in Words : \E s \in S : r = <<t>> \o s}

LEMMA JoinsTyped ==
  ASSUME NEW S, NEW T
  PROVE  Joins(S, T) \in SUBSET Words
BY DEF Joins

LEMMA BeginsTyped ==
  ASSUME NEW t, NEW S
  PROVE  Begins(t, S) \in SUBSET Words
BY DEF Begins

LEMMA JoinsHas ==
  ASSUME NEW S \in SUBSET Words, NEW T \in SUBSET Words, NEW s \in S, NEW t \in T
  PROVE  s \o t \in Joins(S, T)
<1>1. s \o t \in Words
  BY Joined
<1> QED
  BY <1>1 DEF Joins

LEMMA BeginsHas ==
  ASSUME NEW t \in Tokens, NEW S \in SUBSET Words, NEW s \in S
  PROVE  <<t>> \o s \in Begins(t, S)
<1>1. <<t>> \o s \in Words
  BY OneToken, Joined
<1> QED
  BY <1>1 DEF Begins

LEMMA JoinsRegrouped ==
  ASSUME NEW S \in SUBSET Words, NEW T \in SUBSET Words, NEW U \in SUBSET Words
  PROVE  Joins(Joins(S, T), U) = Joins(S, Joins(T, U))
<1>0. ASSUME NEW s \in S, NEW t \in T, NEW u \in U PROVE (s \o t) \o u = s \o (t \o u)
  BY Regrouped
<1>1. ASSUME NEW r \in Joins(Joins(S, T), U) PROVE r \in Joins(S, Joins(T, U))
  <2>1. PICK p \in Joins(S, T) : \E u \in U : r = p \o u
    BY DEF Joins
  <2>2. PICK u \in U : r = p \o u
    BY <2>1
  <2>3. PICK s \in S : \E t \in T : p = s \o t
    BY DEF Joins
  <2>4. PICK t \in T : p = s \o t
    BY <2>3
  <2>5. PICK q : q = t \o u
    OBVIOUS
  <2>6. q \in Joins(T, U) /\ Joins(T, U) \in SUBSET Words
    BY <2>5, JoinsHas, JoinsTyped
  <2>7. s \o q \in Joins(S, Joins(T, U))
    BY <2>6, JoinsHas
  <2>8. r = s \o q
    BY <1>0, <2>2, <2>4, <2>5
  <2> QED
    BY <2>7, <2>8
<1>2. ASSUME NEW r \in Joins(S, Joins(T, U)) PROVE r \in Joins(Joins(S, T), U)
  <2>1. PICK s \in S : \E q \in Joins(T, U) : r = s \o q
    BY DEF Joins
  <2>2. PICK q \in Joins(T, U) : r = s \o q
    BY <2>1
  <2>3. PICK t \in T : \E u \in U : q = t \o u
    BY DEF Joins
  <2>4. PICK u \in U : q = t \o u
    BY <2>3
  <2>5. PICK p : p = s \o t
    OBVIOUS
  <2>6. p \in Joins(S, T) /\ Joins(S, T) \in SUBSET Words
    BY <2>5, JoinsHas, JoinsTyped
  <2>7. p \o u \in Joins(Joins(S, T), U)
    BY <2>6, JoinsHas
  <2>8. r = p \o u
    BY <1>0, <2>2, <2>4, <2>5
  <2> QED
    BY <2>7, <2>8
<1> QED
  BY <1>1, <1>2

LEMMA OneJoined ==
  ASSUME NEW t, NEW U
  PROVE  Joins({<<t>>}, U) = Begins(t, U)
BY DEF Joins, Begins

LEMMA BeginsJoined ==
  ASSUME NEW t \in Tokens, NEW S \in SUBSET Words, NEW U \in SUBSET Words
  PROVE  Joins(Begins(t, S), U) = Begins(t, Joins(S, U))
<1>1. {<<t>>} \in SUBSET Words
  BY OneToken
<1>2. Joins(Joins({<<t>>}, S), U) = Joins({<<t>>}, Joins(S, U))
  BY <1>1, JoinsRegrouped
<1> QED
  BY <1>2, OneJoined

LEMMA EmptyJoined ==
  ASSUME NEW S \in SUBSET Words
  PROVE  Joins({<<>>}, S) = S /\ Joins(S, {<<>>}) = S
<1>1. ASSUME NEW s \in S PROVE <<>> \o s = s /\ s \o <<>> = s
  BY ConcatEmptySeq DEF Words
<1> QED
  BY <1>1 DEF Joins

LEMMA EitherJoined ==
  ASSUME NEW S, NEW T, NEW U
  PROVE  Joins(S \cup T, U) = Joins(S, U) \cup Joins(T, U)
BY DEF Joins

\* What begins with t and goes on with r.
LEMMA BeginsWith ==
  ASSUME NEW a \in Tokens, NEW t \in Tokens, NEW S \in SUBSET Words, NEW r \in Words
  PROVE  <<t>> \o r \in Begins(a, S) <=> t = a /\ r \in S
<1>1. ASSUME NEW s \in S, <<t>> \o r = <<a>> \o s PROVE t = a /\ r = s
  BY <1>1, OneBeginning
<1>2. r \in S => <<a>> \o r \in Begins(a, S)
  BY BeginsHas
<1> QED
  BY <1>1, <1>2 DEF Begins

LEMMA BeginsNotEmpty ==
  ASSUME NEW a \in Tokens, NEW S \in SUBSET Words
  PROVE  <<>> \notin Begins(a, S)
<1>1. ASSUME NEW s \in S PROVE <<a>> \o s # <<>>
  <2>1. <<a>> \in Seq(Tokens) /\ s \in Seq(Tokens)
    BY DEF Words
  <2>2. <<a>> \o s = <<>> => <<a>> = <<>>
    BY <2>1, ConcatEqualIffEmpty
  <2>3. <<a>> # <<>>
    OBVIOUS
  <2> QED
    BY <2>2, <2>3
<1> QED
  BY <1>1 DEF Begins

-----------------------------------------------------------------------------
(* Containers, from the left. *)

Value == Sentences("value")

\* What a container goes on with behind its opening bracket, and behind each of its items.
Items(k)  == IF k = "object" THEN MemberWords ELSE Value
Bodies(k) ==
  {<<Closing(k)>>}
  \cup Joins(Sentences(Inside(k)), {<<Closing(k)>>})
  \cup Joins(Joins(Sentences(Inside(k)), {<<",">>}), {<<Closing(k)>>})
Endings(k) == {<<Closing(k)>>} \cup Begins(",", Bodies(k))

LEMMA SetsTyped ==
  ASSUME NEW k \in Kinds
  PROVE  /\ Value \in SUBSET Words /\ Items(k) \in SUBSET Words
         /\ Sentences(Inside(k)) \in SUBSET Words
         /\ {<<Closing(k)>>} \in SUBSET Words /\ {<<",">>} \in SUBSET Words
         /\ Bodies(k) \in SUBSET Words /\ Endings(k) \in SUBSET Words
<1>1. \A w : Sentences(w) \in SUBSET Words
  BY WordTyped
<1>2. MemberWords \in SUBSET Words
  BY MemberTyped
<1>3. {<<Closing(k)>>} \in SUBSET Words /\ {<<",">>} \in SUBSET Words
  <2>1. Closing(k) \in Tokens /\ "," \in Tokens
    BY KindTokens DEF Tokens
  <2> QED
    BY <2>1, OneToken
<1>4. /\ Joins(Sentences(Inside(k)), {<<Closing(k)>>}) \in SUBSET Words
      /\ Joins(Joins(Sentences(Inside(k)), {<<",">>}), {<<Closing(k)>>}) \in SUBSET Words
  BY <1>1, <1>3, JoinsTyped
<1>5. Bodies(k) \in SUBSET Words
  BY <1>3, <1>4 DEF Bodies
<1>6. Begins(",", Bodies(k)) \in SUBSET Words
  BY <1>5, BeginsTyped DEF Tokens
<1> QED
  BY <1>1, <1>2, <1>3, <1>5, <1>6 DEF Value, Items, Endings

\* The items of a container are what it lists.
LEMMA InsideIs ==
  ASSUME NEW k \in Kinds
  PROVE  Sentences(Inside(k))
           = Items(k) \cup Joins(Joins(Items(k), {<<",">>}), Sentences(Inside(k)))
<1>1. ASSUME NEW S \in SUBSET Words, NEW T \in SUBSET Words, NEW s
      PROVE  s \in Joins(Joins(S, {<<",">>}), T) <=> Lists(S, T, s)
  <2>0. {<<",">>} \in SUBSET Words /\ Joins(S, {<<",">>}) \in SUBSET Words
    BY SetsTyped, JoinsTyped
  <2>1. ASSUME s \in Joins(Joins(S, {<<",">>}), T) PROVE Lists(S, T, s)
    <3>1. PICK p \in Joins(S, {<<",">>}) : \E r \in T : s = p \o r
      BY <2>1 DEF Joins
    <3>2. PICK i \in S : p = i \o <<",">>
      BY DEF Joins
    <3> QED
      BY <3>1, <3>2 DEF Lists
  <2>2. ASSUME Lists(S, T, s) PROVE s \in Joins(Joins(S, {<<",">>}), T)
    <3>1. PICK i \in S, r \in T : s = i \o <<",">> \o r
      BY <2>2 DEF Lists
    <3>2. PICK p : p = i \o <<",">>
      OBVIOUS
    <3>3. p \in Joins(S, {<<",">>})
      BY <2>0, <3>2, JoinsHas
    <3>4. p \o r \in Joins(Joins(S, {<<",">>}), T)
      BY <2>0, <3>3, JoinsHas
    <3> QED
      BY <3>1, <3>2, <3>4
  <2> QED
    BY <2>1, <2>2
<1>2. CASE k = "object"
  <2>1. Items(k) = MemberWords /\ Inside(k) = "members"
    BY <1>2 DEF Items, Inside
  <2>2. \A s : s \in Sentences("members") <=>
                 s \in MemberWords \/ Lists(MemberWords, Sentences("members"), s)
    BY MembersAre
  <2>3. MemberWords \in SUBSET Words /\ Sentences("members") \in SUBSET Words
    BY <2>1, SetsTyped
  <2> QED
    BY <1>1, <2>1, <2>2, <2>3
<1>3. CASE k = "array"
  <2>1. Items(k) = Value /\ Inside(k) = "elements"
    BY <1>3 DEF Items, Inside
  <2>2. \A s : s \in Sentences("elements") <=>
                 s \in Value \/ Lists(Value, Sentences("elements"), s)
    BY ElementsAre DEF Value
  <2>3. Value \in SUBSET Words /\ Sentences("elements") \in SUBSET Words
    BY <2>1, SetsTyped
  <2> QED
    BY <1>1, <2>1, <2>2, <2>3
<1> QED
  BY <1>2, <1>3 DEF Kinds

LEMMA JoinedEither ==
  ASSUME NEW S, NEW T, NEW U
  PROVE  Joins(S, T \cup U) = Joins(S, T) \cup Joins(S, U)
BY DEF Joins

LEMMA JoinedThree ==
  ASSUME NEW S, NEW T, NEW U, NEW V
  PROVE  Joins(S, T \cup U \cup V) = Joins(S, T) \cup Joins(S, U) \cup Joins(S, V)
<1>1. Joins(S, T \cup U) = Joins(S, T) \cup Joins(S, U)
  BY JoinedEither
<1> DEFINE W == T \cup U
<1>2. Joins(S, W \cup V) = Joins(S, W) \cup Joins(S, V)
  BY JoinedEither
<1> QED
  BY <1>1, <1>2

\* A container goes on with its closing bracket, or with an item.
LEMMA BodiesAre ==
  ASSUME NEW k \in Kinds
  PROVE  Bodies(k) = {<<Closing(k)>>} \cup Joins(Items(k), Endings(k))
<1> DEFINE C == {<<Closing(k)>>}
           K == {<<",">>}
           E == Sentences(Inside(k))
           I == Items(k)
<1>0. C \in SUBSET Words /\ K \in SUBSET Words /\ E \in SUBSET Words /\ I \in SUBSET Words
  BY SetsTyped
<1>1. E = I \cup Joins(Joins(I, K), E)
  BY InsideIs
<1>2. Bodies(k) = C \cup Joins(E, C) \cup Joins(Joins(E, K), C)
  BY DEF Bodies
<1>3. Endings(k) = C \cup Joins(K, Bodies(k))
  BY OneJoined DEF Endings
<1> HIDE DEF C, K, E, I
<1>4. ASSUME NEW S \in SUBSET Words
      PROVE  Joins(E, S) = Joins(I, S) \cup Joins(I, Joins(K, Joins(E, S)))
  <2>1. Joins(E, S) = Joins(I, S) \cup Joins(Joins(Joins(I, K), E), S)
    BY <1>1, EitherJoined
  <2>2. Joins(I, K) \in SUBSET Words /\ Joins(E, S) \in SUBSET Words
    BY JoinsTyped
  <2>3. Joins(Joins(Joins(I, K), E), S) = Joins(Joins(I, K), Joins(E, S))
    BY <1>0, <1>4, <2>2, JoinsRegrouped
  <2>4. Joins(Joins(I, K), Joins(E, S)) = Joins(I, Joins(K, Joins(E, S)))
    BY <1>0, <2>2, JoinsRegrouped
  <2> QED
    BY <2>1, <2>3, <2>4
<1> DEFINE D == Joins(K, C)
<1>5. D \in SUBSET Words
  BY JoinsTyped
<1>6. Joins(Joins(E, K), C) = Joins(E, D)
  BY <1>0, JoinsRegrouped
<1> HIDE DEF D
<1>7. Endings(k) = C \cup D \cup Joins(K, Joins(E, C)) \cup Joins(K, Joins(E, D))
  <2>1. Joins(K, Bodies(k)) = Joins(K, C) \cup Joins(K, Joins(E, C)) \cup Joins(K, Joins(E, D))
    BY <1>2, <1>6, JoinedThree
  <2> QED
    BY <1>3, <2>1 DEF D
<1>8. Joins(I, Endings(k)) = Joins(I, C) \cup Joins(I, D) \cup Joins(I, Joins(K, Joins(E, C)))
                            \cup Joins(I, Joins(K, Joins(E, D)))
  <2> DEFINE F == Joins(K, Joins(E, C))
             G == Joins(K, Joins(E, D))
             H == C \cup D \cup F
  <2>1. Joins(I, H) = Joins(I, C) \cup Joins(I, D) \cup Joins(I, F)
    BY JoinedThree
  <2>2. Joins(I, H \cup G) = Joins(I, H) \cup Joins(I, G)
    BY JoinedEither
  <2> QED
    BY <1>7, <2>1, <2>2
<1>9. Joins(E, C) = Joins(I, C) \cup Joins(I, Joins(K, Joins(E, C)))
  BY <1>0, <1>4
<1>10. Joins(E, D) = Joins(I, D) \cup Joins(I, Joins(K, Joins(E, D)))
  BY <1>4, <1>5
<1>11. Bodies(k) = C \cup Joins(I, Endings(k))
  BY <1>2, <1>6, <1>8, <1>9, <1>10
<1> QED
  BY <1>11 DEF C, I

\* A container is its opening bracket and what that goes on with.
LEMMA ContainsIs ==
  ASSUME NEW k \in Kinds, NEW s \in Words
  PROVE  Contains(Sentences(Inside(k)), k, s) <=> s \in Begins(Opening(k), Bodies(k))
<1> DEFINE o == Opening(k)
           c == Closing(k)
           E == Sentences(Inside(k))
           K == {<<",">>}
           C == {<<c>>}
<1>0. /\ o \in Tokens /\ c \in Tokens /\ <<o>> \in Words /\ <<c>> \in Words /\ <<",">> \in Words
      /\ C \in SUBSET Words /\ K \in SUBSET Words /\ E \in SUBSET Words
      /\ Joins(E, K) \in SUBSET Words
  BY KindTokens, OneToken, SetsTyped, Punctuation, JoinsTyped
<1>1. Bodies(k) = C \cup Joins(E, C) \cup Joins(Joins(E, K), C)
  BY DEF Bodies
<1>2. Contains(E, k, s) <=>
        \/ s = <<o, c>>
        \/ \E e \in E : s = <<o>> \o e \o <<c>>
        \/ \E e \in E : s = <<o>> \o (e \o <<",">>) \o <<c>>
  BY DEF Contains
<1>3. <<o, c>> = <<o>> \o <<c>>
  OBVIOUS
<1> HIDE DEF o, c, E
<1>4. ASSUME NEW e \in E
      PROVE  /\ <<o>> \o e \o <<c>> = <<o>> \o (e \o <<c>>)
             /\ <<o>> \o (e \o <<",">>) \o <<c>> = <<o>> \o ((e \o <<",">>) \o <<c>>)
  <2>1. e \in Words /\ e \o <<",">> \in Words
    BY <1>0, WithComma
  <2>2. PICK u : u = e \o <<",">>
    OBVIOUS
  <2>3. <<o>> \o e \o <<c>> = <<o>> \o (e \o <<c>>)
    BY <1>0, <2>1, Regrouped
  <2>4. <<o>> \o u \o <<c>> = <<o>> \o (u \o <<c>>)
    BY <1>0, <2>1, <2>2, Regrouped
  <2> QED
    BY <2>2, <2>3, <2>4
<1>5. ASSUME Contains(E, k, s) PROVE s \in Begins(o, Bodies(k))
  <2>1. CASE s = <<o, c>>
    BY <1>1, <1>3, <2>1 DEF Begins
  <2>2. CASE \E e \in E : s = <<o>> \o e \o <<c>>
    <3>1. PICK e \in E : s = <<o>> \o e \o <<c>>
      BY <2>2
    <3>2. PICK b : b = e \o <<c>>
      OBVIOUS
    <3>3. b \in Joins(E, C)
      BY <1>0, <3>2, JoinsHas
    <3>4. s = <<o>> \o b
      BY <1>4, <3>1, <3>2
    <3> QED
      BY <1>1, <3>3, <3>4 DEF Begins
  <2>3. CASE \E e \in E : s = <<o>> \o (e \o <<",">>) \o <<c>>
    <3>1. PICK e \in E : s = <<o>> \o (e \o <<",">>) \o <<c>>
      BY <2>3
    <3>2. PICK u : u = e \o <<",">>
      OBVIOUS
    <3>3. u \in Joins(E, K)
      BY <1>0, <3>2, JoinsHas
    <3>4. PICK b : b = u \o <<c>>
      OBVIOUS
    <3>5. b \in Joins(Joins(E, K), C)
      BY <1>0, <3>3, <3>4, JoinsHas
    <3>6. s = <<o>> \o b
      BY <1>4, <3>1, <3>2, <3>4
    <3> QED
      BY <1>1, <3>5, <3>6 DEF Begins
  <2> QED
    BY <1>2, <1>5, <2>1, <2>2, <2>3
<1>6. ASSUME s \in Begins(o, Bodies(k)) PROVE Contains(E, k, s)
  <2>1. PICK b \in Bodies(k) : s = <<o>> \o b
    BY <1>6 DEF Begins
  <2>2. CASE b \in C
    BY <1>2, <1>3, <2>1, <2>2
  <2>3. CASE b \in Joins(E, C)
    <3>1. PICK e \in E : b = e \o <<c>>
      BY <2>3 DEF Joins
    <3>2. s = <<o>> \o e \o <<c>>
      BY <1>4, <2>1, <3>1
    <3> QED
      BY <1>2, <3>2
  <2>4. CASE b \in Joins(Joins(E, K), C)
    <3>1. PICK u \in Joins(E, K) : b = u \o <<c>>
      BY <2>4 DEF Joins
    <3>2. PICK e \in E : u = e \o <<",">>
      BY DEF Joins
    <3>3. s = <<o>> \o (e \o <<",">>) \o <<c>>
      BY <1>4, <2>1, <3>1, <3>2
    <3> QED
      BY <1>2, <3>3
  <2> QED
    BY <1>1, <2>1, <2>2, <2>3, <2>4
<1> QED
  BY <1>5, <1>6 DEF o, E

LEMMA ValueHeads ==
  Value = {<<"word">>} \cup {<<"text">>}
          \cup Begins("[", Bodies("array")) \cup Begins("{", Bodies("object"))
<1>1. Kinds = {"array", "object"} /\ Opening("array") = "[" /\ Opening("object") = "{"
  BY DEF Kinds, Opening
<1>2. \A k \in Kinds : Begins(Opening(k), Bodies(k)) \in SUBSET Words
  BY BeginsTyped
<1>3. \A k \in Kinds : \A s \in Words :
        Contains(Sentences(Inside(k)), k, s) <=> s \in Begins(Opening(k), Bodies(k))
  BY ContainsIs
<1>4. \A s : s \in Value <=>
               \/ s \in {<<"word">>, <<"text">>}
               \/ s \in Words /\ \E k \in Kinds : Contains(Sentences(Inside(k)), k, s)
  BY ValueIs DEF Value
<1>5. \A s : s \in Value <=>
               \/ s \in {<<"word">>, <<"text">>}
               \/ \E k \in Kinds : s \in Begins(Opening(k), Bodies(k))
  BY <1>2, <1>3, <1>4
<1> QED
  BY <1>1, <1>5

-----------------------------------------------------------------------------
(* What completes a document that has been read in part. *)

\* p has what completes the first frames of s, one frame after the other.
Stages(s, p) ==
  /\ p \in [0 .. Len(s) -> Words] /\ p[0] = <<>>
  /\ \A i \in 1 .. Len(s) : \E m \in Endings(s[i].kind) : p[i] = m \o p[i - 1]

\* What closes all containers of s, the last element of each being complete.
Completions(s) == {r \in Words : \E p : Stages(s, p) /\ r = p[Len(s)]}

LEMMA CompletionsTyped ==
  ASSUME NEW s
  PROVE  Completions(s) \in SUBSET Words
BY DEF Completions

LEMMA CompletionsNone == Completions(<<>>) = {<<>>}
<1>1. <<>> \in Words /\ Len(<<>>) = 0
  BY DEF Words
<1>2. ASSUME NEW r \in Completions(<<>>) PROVE r = <<>>
  <2>1. PICK p : Stages(<<>>, p) /\ r = p[Len(<<>>)]
    BY DEF Completions
  <2> QED
    BY <1>1, <2>1 DEF Stages
<1>3. <<>> \in Completions(<<>>)
  <2>1. PICK p : p = [i \in 0 .. 0 |-> <<>>]
    OBVIOUS
  <2>2. p \in [0 .. 0 -> Words] /\ p[0] = <<>>
    BY <1>1, <2>1
  <2>3. Stages(<<>>, p)
    BY <1>1, <2>2 DEF Stages
  <2> QED
    BY <1>1, <2>2, <2>3 DEF Completions
<1> QED
  BY <1>2, <1>3

\* One frame more.
LEMMA CompletionsMore ==
  ASSUME NEW s, NEW t, NEW n \in Nat, Len(s) = n, Len(t) = n + 1,
         \A i \in 1 .. n : t[i].kind = s[i].kind,
         t[n + 1].kind \in Kinds
  PROVE  Completions(t) = Joins(Endings(t[n + 1].kind), Completions(s))
<1> DEFINE k == t[n + 1].kind
           S == Completions(s)
<1>0. Endings(k) \in SUBSET Words /\ S \in SUBSET Words
  BY SetsTyped, CompletionsTyped
<1>1. ASSUME NEW r \in Completions(t) PROVE r \in Joins(Endings(k), S)
  <2>1. PICK p : Stages(t, p) /\ r = p[n + 1]
    BY DEF Completions
  <2>2. /\ p \in [0 .. n + 1 -> Words] /\ p[0] = <<>>
        /\ \A i \in 1 .. n + 1 : \E m \in Endings(t[i].kind) : p[i] = m \o p[i - 1]
    BY <2>1 DEF Stages
  <2>3. PICK m \in Endings(k) : p[n + 1] = m \o p[n]
    <3>1. PICK j : j = n + 1
      OBVIOUS
    <3>2. j \in 1 .. n + 1 /\ j - 1 = n
      BY <3>1
    <3>3. \E m \in Endings(t[j].kind) : p[j] = m \o p[j - 1]
      BY <2>2, <3>2
    <3>4. \E m \in Endings(t[j].kind) : p[j] = m \o p[n]
      BY <3>2, <3>3
    <3> QED
      BY <3>1, <3>4
  <2>4. PICK q : q = [i \in 0 .. n |-> p[i]]
    OBVIOUS
  <2>5. q \in [0 .. n -> Words] /\ q[0] = <<>> /\ q[n] = p[n]
    BY <2>2, <2>4
  <2>6. ASSUME NEW i \in 1 .. n PROVE \E e \in Endings(s[i].kind) : q[i] = e \o q[i - 1]
    <3>1. i \in 1 .. n + 1 /\ i \in 0 .. n /\ i - 1 \in 0 .. n
      OBVIOUS
    <3>2. q[i] = p[i] /\ q[i - 1] = p[i - 1]
      BY <2>4, <3>1
    <3> QED
      BY <2>2, <3>1, <3>2
  <2>7. Stages(s, q)
    BY <2>5, <2>6 DEF Stages
  <2>8. q[n] \in S
    <3>1. q[n] \in Words
      BY <2>5
    <3> QED
      BY <2>7, <3>1 DEF Completions
  <2>9. r = m \o q[n]
    BY <2>1, <2>3, <2>5
  <2> HIDE DEF S, k
  <2>10. m \o q[n] \in Joins(Endings(k), S)
    BY <1>0, <2>8, JoinsHas
  <2> QED
    BY <2>9, <2>10
<1>2. ASSUME NEW r \in Joins(Endings(k), S) PROVE r \in Completions(t)
  <2>1. PICK m \in Endings(k) : \E z \in S : r = m \o z
    BY DEF Joins
  <2>2. PICK z \in S : r = m \o z
    BY <2>1
  <2>3. PICK q : Stages(s, q) /\ z = q[n]
    BY DEF Completions
  <2>4. /\ q \in [0 .. n -> Words] /\ q[0] = <<>>
        /\ \A i \in 1 .. n : \E e \in Endings(s[i].kind) : q[i] = e \o q[i - 1]
    BY <2>3 DEF Stages
  <2>5. r \in Words
    BY DEF Joins
  <2>6. PICK p : p = [i \in 0 .. n + 1 |-> IF i = n + 1 THEN r ELSE q[i]]
    OBVIOUS
  <2>7. /\ p \in [0 .. n + 1 -> Words] /\ p[0] = <<>> /\ p[n + 1] = r
        /\ \A i \in 0 .. n : p[i] = q[i]
    <3>1. ASSUME NEW i \in 0 .. n + 1 PROVE p[i] \in Words
      <4>1. CASE i = n + 1
        BY <2>5, <2>6, <4>1
      <4>2. CASE i # n + 1
        <5>1. i \in 0 .. n
          BY <4>2
        <5> QED
          BY <2>4, <2>6, <5>1
      <4> QED
        BY <4>1, <4>2
    <3>2. DOMAIN p = 0 .. n + 1 /\ p = [i \in 0 .. n + 1 |-> p[i]]
      BY <2>6
    <3>3. p \in [0 .. n + 1 -> Words]
      BY <3>1, <3>2
    <3>4. p[0] = <<>> /\ p[n + 1] = r /\ \A i \in 0 .. n : p[i] = q[i]
      BY <2>4, <2>6
    <3> QED
      BY <3>3, <3>4
  <2>8. ASSUME NEW i \in 1 .. n + 1 PROVE \E e \in Endings(t[i].kind) : p[i] = e \o p[i - 1]
    <3>1. CASE i = n + 1
      <4>1. p[i] = m \o p[i - 1]
        BY <2>2, <2>3, <2>7, <3>1
      <4> QED
        BY <3>1, <4>1
    <3>2. CASE i # n + 1
      <4>1. i \in 1 .. n /\ i \in 0 .. n /\ i - 1 \in 0 .. n
        BY <3>2
      <4>2. p[i] = q[i] /\ p[i - 1] = q[i - 1]
        BY <2>7, <4>1
      <4> QED
        BY <2>4, <4>1, <4>2
    <3> QED
      BY <3>1, <3>2
  <2>9. Stages(t, p)
    BY <2>7, <2>8 DEF Stages
  <2> QED
    BY <2>5, <2>7, <2>9 DEF Completions
<1> QED
  BY <1>1, <1>2

\* Only the kinds of the frames matter.
LEMMA CompletionsSame ==
  ASSUME NEW s, NEW t, Len(t) = Len(s), \A i \in 1 .. Len(s) : t[i].kind = s[i].kind
  PROVE  Completions(t) = Completions(s)
<1>1. ASSUME NEW p PROVE Stages(t, p) <=> Stages(s, p)
  BY DEF Stages
<1> QED
  BY <1>1 DEF Completions

\* What completes the document when e is expected next and the frames of s are open.
Rest(e, s) ==
  CASE e = "value" -> Joins(Value, Completions(s))
    [] e = "colon" -> Begins(":", Joins(Value, Completions(s)))
    [] e \in {"first", "next"} ->
         Joins(Bodies(s[Len(s)].kind), Completions(SubSeq(s, 1, Len(s) - 1)))
    [] OTHER -> Completions(s)

LEMMA RestIs ==
  ASSUME NEW s
  PROVE  /\ Rest("value", s) = Joins(Value, Completions(s))
         /\ Rest("colon", s) = Begins(":", Joins(Value, Completions(s)))
         /\ Rest("sep", s) = Completions(s) /\ Rest("root", s) = Completions(s)
         /\ \A e \in {"first", "next"} :
              Rest(e, s) = Joins(Bodies(s[Len(s)].kind), Completions(SubSeq(s, 1, Len(s) - 1)))
BY DEF Rest

-----------------------------------------------------------------------------
(* What may come next, by what is expected. *)

\* The frames around the innermost one of s.
Around(s) == SubSeq(s, 1, Len(s) - 1)
Within(s) == s[Len(s)].kind

LEMMA AroundTyped ==
  ASSUME NEW s \in Seq(Frames), s # <<>>
  PROVE  /\ Within(s) \in Kinds /\ Around(s) \in Seq(Frames)
         /\ Len(s) \in Nat \ {0} /\ Len(Around(s)) = Len(s) - 1
         /\ \A i \in 1 .. Len(s) - 1 : Around(s)[i] = s[i]
<1>1. Len(s) \in Nat \ {0}
  OBVIOUS
<1>2. s[Len(s)] \in Frames
  BY <1>1
<1>3. Within(s) \in Kinds
  BY <1>2 DEF Within, Frames
<1> DEFINE n == Len(s) - 1
<1>4. n \in Nat /\ n <= Len(s)
  BY <1>1
<1> HIDE DEF n
<1>5. /\ SubSeq(s, 1, n) \in Seq(Frames) /\ Len(SubSeq(s, 1, n)) = n
      /\ \A i \in 1 .. n : SubSeq(s, 1, n)[i] = s[i]
  BY <1>1, <1>4
<1> QED
  BY <1>1, <1>3, <1>5 DEF Around, n

LEMMA ClosesNext ==
  ASSUME NEW s \in Seq(Frames), s # <<>>
  PROVE  Completions(s) = Joins(Endings(Within(s)), Completions(Around(s)))
<1> DEFINE n == Len(s) - 1
           o == Around(s)
<1>1. /\ n \in Nat /\ Len(o) = n /\ Len(s) = n + 1 /\ Within(s) \in Kinds
      /\ \A i \in 1 .. n : o[i] = s[i]
  BY AroundTyped
<1>2. Within(s) = s[n + 1].kind
  BY <1>1 DEF Within
<1> HIDE DEF n, o
<1>3. /\ \A i \in 1 .. n : s[i].kind = o[i].kind
      /\ s[n + 1].kind \in Kinds
  BY <1>1, <1>2
<1>4. Completions(s) = Joins(Endings(s[n + 1].kind), Completions(o))
  BY <1>1, <1>3, CompletionsMore
<1> QED
  BY <1>2, <1>4 DEF o

\* Behind an element comes the closing bracket, or a comma.
LEMMA AfterElement ==
  ASSUME NEW s \in Seq(Frames), s # <<>>
  PROVE  Completions(s) = Begins(Closing(Within(s)), Completions(Around(s)))
                          \cup Begins(",", Joins(Bodies(Within(s)), Completions(Around(s))))
<1> DEFINE k == Within(s)
           C == Completions(Around(s))
<1>1. k \in Kinds /\ Closing(k) \in Tokens /\ "," \in Tokens
  BY AroundTyped, KindTokens DEF Tokens
<1>2. Bodies(k) \in SUBSET Words /\ C \in SUBSET Words
  BY <1>1, SetsTyped, CompletionsTyped
<1>3. Completions(s) = Joins(Endings(k), C)
  BY ClosesNext
<1> HIDE DEF k, C
<1>4. Joins(Endings(k), C) = Joins({<<Closing(k)>>}, C) \cup Joins(Begins(",", Bodies(k)), C)
  <2> DEFINE S == {<<Closing(k)>>}
             T == Begins(",", Bodies(k))
  <2>1. Endings(k) = S \cup T
    BY DEF Endings
  <2> HIDE DEF S, T
  <2>2. Joins(S \cup T, C) = Joins(S, C) \cup Joins(T, C)
    BY EitherJoined
  <2> QED
    BY <2>1, <2>2 DEF S, T
<1>5. Joins(Begins(",", Bodies(k)), C) = Begins(",", Joins(Bodies(k), C))
  BY <1>1, <1>2, BeginsJoined
<1>6. Joins({<<Closing(k)>>}, C) = Begins(Closing(k), C)
  BY OneJoined
<1> QED
  BY <1>3, <1>4, <1>5, <1>6 DEF k, C

\* Where an element may come, there may also be the closing bracket.
LEMMA BeforeElement ==
  ASSUME NEW s \in Seq(Frames), s # <<>>
  PROVE  Joins(Bodies(Within(s)), Completions(Around(s)))
           = Begins(Closing(Within(s)), Completions(Around(s)))
             \cup Joins(Items(Within(s)), Completions(s))
<1> DEFINE k == Within(s)
           C == Completions(Around(s))
<1>1. k \in Kinds /\ Closing(k) \in Tokens
  BY AroundTyped, KindTokens
<1>2. Items(k) \in SUBSET Words /\ Endings(k) \in SUBSET Words /\ C \in SUBSET Words
  BY <1>1, SetsTyped, CompletionsTyped
<1>3. Completions(s) = Joins(Endings(k), C)
  BY ClosesNext
<1> HIDE DEF k, C
<1>4. Bodies(k) = {<<Closing(k)>>} \cup Joins(Items(k), Endings(k))
  BY <1>1, BodiesAre
<1>5. Joins(Bodies(k), C) = Joins({<<Closing(k)>>}, C) \cup Joins(Joins(Items(k), Endings(k)), C)
  BY <1>4, EitherJoined
<1>6. Joins(Joins(Items(k), Endings(k)), C) = Joins(Items(k), Joins(Endings(k), C))
  BY <1>2, JoinsRegrouped
<1>7. Joins({<<Closing(k)>>}, C) = Begins(Closing(k), C)
  BY OneJoined
<1> QED
  BY <1>3, <1>5, <1>6, <1>7 DEF k, C

\* The items of an object begin with their key.
LEMMA MembersBegin == MemberWords = Begins("text", Begins(":", Value))
<1>0. Value \in SUBSET Words /\ "text" \in Tokens /\ ":" \in Tokens
      /\ <<"text">> \in Words /\ <<":">> \in Words
  BY SetsTyped, Punctuation DEF Kinds
<1>1. Begins(":", Value) \in SUBSET Words
  BY BeginsTyped
<1>2. ASSUME NEW v \in Value PROVE <<"text", ":">> \o v = <<"text">> \o (<<":">> \o v)
  <2>1. <<"text", ":">> = <<"text">> \o <<":">>
    OBVIOUS
  <2>2. (<<"text">> \o <<":">>) \o v = <<"text">> \o (<<":">> \o v)
    BY <1>0, Regrouped
  <2> QED
    BY <2>1, <2>2
<1>3. ASSUME NEW s \in MemberWords PROVE s \in Begins("text", Begins(":", Value))
  <2>1. PICK v \in Value : s = <<"text", ":">> \o v
    BY DEF MemberWords, Value
  <2>2. PICK u : u = <<":">> \o v
    OBVIOUS
  <2>3. u \in Begins(":", Value)
    BY <1>0, <2>2, BeginsHas
  <2>4. <<"text">> \o u \in Begins("text", Begins(":", Value))
    BY <1>0, <1>1, <2>3, BeginsHas
  <2> QED
    BY <1>2, <2>1, <2>2, <2>4
<1>4. ASSUME NEW s \in Begins("text", Begins(":", Value)) PROVE s \in MemberWords
  <2>1. PICK u \in Begins(":", Value) : s = <<"text">> \o u
    BY DEF Begins
  <2>2. PICK v \in Value : u = <<":">> \o v
    BY DEF Begins
  <2>3. s = <<"text", ":">> \o v
    BY <1>2, <2>1, <2>2
  <2> QED
    BY <2>3 DEF MemberWords, Value
<1> QED
  BY <1>3, <1>4

LEMMA ItemsJoined ==
  ASSUME NEW C \in SUBSET Words
  PROVE  /\ Joins(Items("array"), C) = Joins(Value, C)
         /\ Joins(Items("object"), C) = Begins("text", Begins(":", Joins(Value, C)))
<1>0. Value \in SUBSET Words /\ "text" \in Tokens /\ ":" \in Tokens
  BY SetsTyped, Punctuation DEF Kinds
<1>1. Begins(":", Value) \in SUBSET Words
  BY BeginsTyped
<1>2. Joins(Begins("text", Begins(":", Value)), C) = Begins("text", Joins(Begins(":", Value), C))
  BY <1>0, <1>1, BeginsJoined
<1>3. Joins(Begins(":", Value), C) = Begins(":", Joins(Value, C))
  BY <1>0, BeginsJoined
<1> QED
  BY <1>2, <1>3, MembersBegin DEF Items

LEMMA ValueJoined ==
  ASSUME NEW C \in SUBSET Words
  PROVE  Joins(Value, C) = Begins("word", C) \cup Begins("text", C)
           \cup Begins("[", Joins(Bodies("array"), C)) \cup Begins("{", Joins(Bodies("object"), C))
<1> DEFINE A == Begins("[", Bodies("array"))
           B == Begins("{", Bodies("object"))
           W == {<<"word">>}
           T == {<<"text">>}
<1>1. Bodies("array") \in SUBSET Words /\ Bodies("object") \in SUBSET Words
      /\ "[" \in Tokens /\ "{" \in Tokens
  BY SetsTyped, Punctuation DEF Kinds
<1>2. Joins(A, C) = Begins("[", Joins(Bodies("array"), C))
  BY <1>1, BeginsJoined
<1>3. Joins(B, C) = Begins("{", Joins(Bodies("object"), C))
  BY <1>1, BeginsJoined
<1>4. Joins(W, C) = Begins("word", C) /\ Joins(T, C) = Begins("text", C)
  BY OneJoined
<1>5. Value = ((W \cup T) \cup A) \cup B
  BY ValueHeads
<1> HIDE DEF A, B, W, T
<1>6. Joins(((W \cup T) \cup A) \cup B, C) = Joins((W \cup T) \cup A, C) \cup Joins(B, C)
  BY EitherJoined
<1>7. Joins((W \cup T) \cup A, C) = Joins(W \cup T, C) \cup Joins(A, C)
  BY EitherJoined
<1>8. Joins(W \cup T, C) = Joins(W, C) \cup Joins(T, C)
  BY EitherJoined
<1> QED
  BY <1>2, <1>3, <1>4, <1>5, <1>6, <1>7, <1>8
-----------------------------------------------------------------------------
\* Two lists of frames with the same containers.
SameKinds(s, t) ==
  Len(t) = Len(s) /\ \A i \in 1 .. Len(s) : t[i].kind = s[i].kind

LEMMA RestSame ==
  ASSUME NEW s \in Seq(Frames), NEW t \in Seq(Frames), SameKinds(s, t), NEW e,
         e \in {"first", "next"} => s # <<>>
  PROVE  Rest(e, t) = Rest(e, s)
<1>1. Completions(t) = Completions(s)
  BY CompletionsSame DEF SameKinds
<1>2. CASE e \notin {"first", "next"}
  BY <1>1, <1>2 DEF Rest
<1>3. CASE e \in {"first", "next"}
  <2>1. s # <<>> /\ t # <<>>
    BY <1>3 DEF SameKinds
  <2>2. /\ Len(Around(s)) = Len(s) - 1 /\ Len(Around(t)) = Len(t) - 1 /\ Len(s) \in Nat \ {0}
        /\ \A i \in 1 .. Len(s) - 1 : Around(s)[i] = s[i]
        /\ \A i \in 1 .. Len(t) - 1 : Around(t)[i] = t[i]
    BY <2>1, AroundTyped
  <2>3. Completions(Around(t)) = Completions(Around(s))
    <3>1. Len(Around(t)) = Len(Around(s))
      BY <2>2 DEF SameKinds
    <3>2. \A i \in 1 .. Len(Around(s)) : Around(t)[i].kind = Around(s)[i].kind
      BY <2>2 DEF SameKinds
    <3> QED
      BY <3>1, <3>2, CompletionsSame
  <2>4. s[Len(s)].kind = t[Len(t)].kind
    BY <2>2 DEF SameKinds
  <2> QED
    BY <1>3, <2>3, <2>4, RestIs DEF Around
<1> QED
  BY <1>2, <1>3

\* What goes on with token t in R goes on without it in Q.
Follows(R, t, Q) == \A r \in Words : <<t>> \o r \in R <=> r \in Q

\* Nothing goes on with token t.
Misplaced(R, t) == \A r \in Words : <<t>> \o r \notin R

LEMMA ValueBegins ==
  ASSUME NEW C \in SUBSET Words, NEW t \in Tokens, NEW r \in Words
  PROVE  <<t>> \o r \in Joins(Value, C) <=>
           \/ t \in {"word", "text"} /\ r \in C
           \/ t = "[" /\ r \in Joins(Bodies("array"), C)
           \/ t = "{" /\ r \in Joins(Bodies("object"), C)
<1>0. /\ "word" \in Tokens /\ "text" \in Tokens /\ "[" \in Tokens /\ "{" \in Tokens
      /\ Joins(Bodies("array"), C) \in SUBSET Words /\ Joins(Bodies("object"), C) \in SUBSET Words
  BY Punctuation, JoinsTyped
<1>1. /\ <<t>> \o r \in Begins("word", C) <=> t = "word" /\ r \in C
      /\ <<t>> \o r \in Begins("text", C) <=> t = "text" /\ r \in C
      /\ <<t>> \o r \in Begins("[", Joins(Bodies("array"), C))
           <=> t = "[" /\ r \in Joins(Bodies("array"), C)
      /\ <<t>> \o r \in Begins("{", Joins(Bodies("object"), C))
           <=> t = "{" /\ r \in Joins(Bodies("object"), C)
  BY <1>0, BeginsWith
<1> QED
  BY <1>1, ValueJoined

-----------------------------------------------------------------------------
\* Where a value may begin.
AtWord(e, s) == e = "value" \/ (e \in {"first", "next"} /\ s # <<>> /\ Within(s) = "array")

\* What Rest is made of.
LEMMA RestSets ==
  ASSUME NEW s \in Seq(Frames)
  PROVE  /\ Completions(s) \in SUBSET Words
         /\ \A k \in Kinds : Joins(Bodies(k), Completions(s)) \in SUBSET Words
         /\ Joins(Value, Completions(s)) \in SUBSET Words
         /\ Begins(":", Joins(Value, Completions(s))) \in SUBSET Words
BY CompletionsTyped, JoinsTyped, BeginsTyped

LEMMA RestInside ==
  ASSUME NEW s, NEW e \in {"first", "next"}
  PROVE  Rest(e, s) = Joins(Bodies(Within(s)), Completions(Around(s)))
BY RestIs DEF Within, Around

\* In an array or an object, behind its opening bracket or a comma.
LEMMA InsideBegins ==
  ASSUME NEW s \in Seq(Frames), s # <<>>, NEW e \in {"first", "next"},
         NEW t \in Tokens, NEW r \in Words
  PROVE  /\ Within(s) = "array" =>
              (<<t>> \o r \in Rest(e, s) <=>
                 \/ t = "]" /\ r \in Completions(Around(s))
                 \/ <<t>> \o r \in Joins(Value, Completions(s)))
         /\ Within(s) = "object" =>
              (<<t>> \o r \in Rest(e, s) <=>
                 \/ t = "}" /\ r \in Completions(Around(s))
                 \/ t = "text" /\ r \in Begins(":", Joins(Value, Completions(s))))
<1> DEFINE C == Completions(s)
           O == Completions(Around(s))
           K == Begins(":", Joins(Value, C))
<1>1. /\ Within(s) \in Kinds /\ Around(s) \in Seq(Frames)
  BY AroundTyped
<1>2. C \in SUBSET Words /\ O \in SUBSET Words /\ K \in SUBSET Words
  BY <1>1, RestSets
<1>3. Rest(e, s) = Begins(Closing(Within(s)), O) \cup Joins(Items(Within(s)), C)
  BY RestInside, BeforeElement
<1> HIDE DEF O
<1>4. ASSUME NEW a \in Tokens PROVE <<t>> \o r \in Begins(a, O) <=> t = a /\ r \in O
  BY <1>2, BeginsWith
<1>5. Joins(Items("array"), C) = Joins(Value, C) /\ Joins(Items("object"), C) = Begins("text", K)
  BY <1>2, ItemsJoined
<1> HIDE DEF K
<1>6. <<t>> \o r \in Begins("text", K) <=> t = "text" /\ r \in K
  BY <1>2, BeginsWith, Punctuation
<1>7. Closing("array") = "]" /\ Closing("object") = "}" /\ "]" \in Tokens /\ "}" \in Tokens
  BY Punctuation DEF Closing
<1> HIDE DEF C
<1>8. CASE Within(s) = "array"
  BY <1>3, <1>4, <1>5, <1>7, <1>8 DEF C, O
<1>9. CASE Within(s) = "object"
  BY <1>3, <1>4, <1>5, <1>6, <1>7, <1>9 DEF C, O, K
<1> QED
  BY <1>8, <1>9

LEMMA SepBegins ==
  ASSUME NEW s \in Seq(Frames), s # <<>>, NEW t \in Tokens, NEW r \in Words
  PROVE  <<t>> \o r \in Completions(s) <=>
           \/ t = Closing(Within(s)) /\ r \in Completions(Around(s))
           \/ t = "," /\ r \in Rest("next", s)
<1> DEFINE O == Completions(Around(s))
           N == Joins(Bodies(Within(s)), O)
           c == Closing(Within(s))
<1>1. Within(s) \in Kinds /\ Around(s) \in Seq(Frames) /\ "," \in Tokens
  BY AroundTyped, Punctuation
<1>2. O \in SUBSET Words /\ N \in SUBSET Words /\ c \in Tokens
  BY <1>1, RestSets, KindTokens
<1>3. Completions(s) = Begins(c, O) \cup Begins(",", N)
  BY AfterElement
<1>4. Rest("next", s) = N
  BY RestInside
<1> HIDE DEF O, N, c
<1>5. <<t>> \o r \in Begins(c, O) <=> t = c /\ r \in O
  BY <1>2, BeginsWith
<1>6. <<t>> \o r \in Begins(",", N) <=> t = "," /\ r \in N
  BY <1>1, <1>2, BeginsWith
<1> QED
  BY <1>3, <1>4, <1>5, <1>6 DEF O, c

LEMMA ColonBegins ==
  ASSUME NEW s \in Seq(Frames), NEW t \in Tokens, NEW r \in Words
  PROVE  <<t>> \o r \in Rest("colon", s) <=> t = ":" /\ r \in Rest("value", s)
<1> DEFINE V == Joins(Value, Completions(s))
<1>1. V \in SUBSET Words /\ ":" \in Tokens
  BY RestSets, Punctuation
<1>2. Rest("colon", s) = Begins(":", V) /\ Rest("value", s) = V
  BY RestIs
<1> HIDE DEF V
<1> QED
  BY <1>1, <1>2, BeginsWith

\* A value may begin wherever one is expected, and nothing else but a bracket.
LEMMA WordBegins ==
  ASSUME NEW s \in Seq(Frames), NEW e, AtWord(e, s), NEW t \in Tokens, t # "]", NEW r \in Words
  PROVE  <<t>> \o r \in Rest(e, s) <=> <<t>> \o r \in Joins(Value, Completions(s))
<1>1. CASE e = "value"
  BY <1>1, RestIs
<1>2. CASE e \in {"first", "next"} /\ s # <<>> /\ Within(s) = "array"
  BY <1>2, InsideBegins
<1> QED
  BY <1>1, <1>2 DEF AtWord
-----------------------------------------------------------------------------
\* What the grammar and the reader go on to, token by token.
LEMMA WordFollows ==
  ASSUME NEW s \in Seq(Frames), NEW e, AtWord(e, s), NEW t \in {"word", "text"},
         NEW f \in {"sep", "root"}
  PROVE  Follows(Rest(e, s), t, Rest(f, s))
<1>1. t \in Tokens /\ t \notin {"]", "[", "{"}
  BY Punctuation
<1>2. Rest(f, s) = Completions(s) /\ Completions(s) \in SUBSET Words
  BY RestIs, RestSets
<1>3. ASSUME NEW r \in Words PROVE <<t>> \o r \in Rest(e, s) <=> r \in Rest(f, s)
  <2>1. <<t>> \o r \in Rest(e, s) <=> <<t>> \o r \in Joins(Value, Completions(s))
    BY <1>1, WordBegins
  <2>2. <<t>> \o r \in Joins(Value, Completions(s)) <=> r \in Completions(s)
    BY <1>1, <1>2, ValueBegins
  <2> QED
    BY <1>2, <2>1, <2>2
<1> QED
  BY <1>3 DEF Follows

LEMMA AppendedAround ==
  ASSUME NEW s \in Seq(Frames), NEW f \in Frames
  PROVE  /\ Append(s, f) \in Seq(Frames) /\ Append(s, f) # <<>>
         /\ Around(Append(s, f)) = s /\ Within(Append(s, f)) = f.kind
<1> DEFINE a == Append(s, f)
<1>1. /\ a \in Seq(Frames) /\ a # <<>> /\ Len(a) = Len(s) + 1 /\ a[Len(s) + 1] = f
      /\ \A i \in 1 .. Len(s) : a[i] = s[i]
  OBVIOUS
<1> HIDE DEF a
<1>2. Around(a) \in Seq(Frames) /\ Len(Around(a)) = Len(s)
      /\ \A i \in 1 .. Len(s) : Around(a)[i] = s[i]
  <2> DEFINE n == Len(s)
  <2>1. n \in Nat /\ Len(a) = n + 1
    BY <1>1
  <2>2. /\ Around(a) \in Seq(Frames) /\ Len(Around(a)) = Len(a) - 1
        /\ \A i \in 1 .. Len(a) - 1 : Around(a)[i] = a[i]
    BY <1>1, AroundTyped DEF a
  <2> HIDE DEF n
  <2>3. Len(a) - 1 = n
    BY <2>1
  <2>4. Len(Around(a)) = n /\ \A i \in 1 .. n : Around(a)[i] = a[i]
    BY <2>2, <2>3
  <2> QED
    BY <1>1, <2>2, <2>4 DEF n
<1>3. Around(a) = s
  BY <1>2
<1> QED
  BY <1>1, <1>3 DEF Within, a

LEMMA OpenFollows ==
  ASSUME NEW s \in Seq(Frames), NEW e, AtWord(e, s), NEW g \in Frames
  PROVE  Follows(Rest(e, s), Opening(g.kind), Rest("first", Append(s, g)))
<1> DEFINE t == Opening(g.kind)
           a == Append(s, g)
           k == g.kind
           B == Joins(Bodies(k), Completions(s))
<1>1. k \in {"array", "object"} /\ k \in Kinds
  BY DEF Frames, Kinds
<1>2. (k = "array" => t = "[") /\ (k = "object" => t = "{") /\ t \in Tokens /\ t # "]"
      /\ t \notin {"word", "text"}
  BY <1>1, KindTokens DEF Opening
<1>3. Rest("first", a) = B
  <2>1. Around(a) = s /\ Within(a) = k
    BY AppendedAround
  <2> QED
    BY <2>1, RestInside
<1>4. Completions(s) \in SUBSET Words
  BY RestSets
<1> HIDE DEF t, a
<1>5. ASSUME NEW r \in Words PROVE <<t>> \o r \in Rest(e, s) <=> r \in Rest("first", a)
  <2>1. <<t>> \o r \in Rest(e, s) <=> <<t>> \o r \in Joins(Value, Completions(s))
    BY <1>2, WordBegins
  <2>2. <<t>> \o r \in Joins(Value, Completions(s)) <=>
           \/ t \in {"word", "text"} /\ r \in Completions(s)
           \/ t = "[" /\ r \in Joins(Bodies("array"), Completions(s))
           \/ t = "{" /\ r \in Joins(Bodies("object"), Completions(s))
    BY <1>2, <1>4, ValueBegins
  <2>3. CASE k = "array"
    BY <1>2, <1>3, <2>1, <2>2, <2>3
  <2>4. CASE k = "object"
    BY <1>2, <1>3, <2>1, <2>2, <2>4
  <2> QED
    BY <1>1, <2>3, <2>4
<1> QED
  BY <1>5 DEF Follows, t, a

LEMMA CloseFollows ==
  ASSUME NEW s \in Seq(Frames), s # <<>>, NEW e \in {"first", "next", "sep"},
         NEW f \in {"sep", "root"}
  PROVE  Follows(Rest(e, s), Closing(Within(s)), Rest(f, Around(s)))
<1> DEFINE t == Closing(Within(s))
<1>1. Within(s) \in {"array", "object"} /\ Within(s) \in Kinds /\ Around(s) \in Seq(Frames)
  BY AroundTyped DEF Kinds
<1>2. /\ t \in Tokens /\ t # "," /\ t \notin {"word", "text", "[", "{"}
      /\ Within(s) = "array" => t = "]"
      /\ Within(s) = "object" => t = "}"
  BY <1>1, KindTokens DEF Closing
<1>3. Rest(f, Around(s)) = Completions(Around(s)) /\ Rest("sep", s) = Completions(s)
      /\ Completions(s) \in SUBSET Words
  BY RestIs, RestSets
<1> HIDE DEF t
<1>4. ASSUME NEW r \in Words PROVE <<t>> \o r \in Rest(e, s) <=> r \in Completions(Around(s))
  <2>1. CASE e = "sep"
    <3>1. <<t>> \o r \in Completions(s) <=>
             \/ t = Closing(Within(s)) /\ r \in Completions(Around(s))
             \/ t = "," /\ r \in Rest("next", s)
      BY <1>2, SepBegins
    <3> QED
      BY <1>2, <1>3, <2>1, <3>1 DEF t
  <2>2. CASE e \in {"first", "next"} /\ Within(s) = "array"
    <3>1. ~ (<<t>> \o r \in Joins(Value, Completions(s)))
      BY <1>2, <1>3, ValueBegins
    <3> QED
      BY <1>2, <2>2, <3>1, InsideBegins
  <2>3. CASE e \in {"first", "next"} /\ Within(s) = "object"
    BY <1>2, <2>3, InsideBegins
  <2> QED
    BY <1>1, <2>1, <2>2, <2>3
<1> QED
  BY <1>3, <1>4 DEF Follows, t

LEMMA KeyFollows ==
  ASSUME NEW s \in Seq(Frames), s # <<>>, NEW e \in {"first", "next"}, Within(s) = "object"
  PROVE  Follows(Rest(e, s), "text", Rest("colon", s))
<1>1. "text" \in Tokens /\ Rest("colon", s) = Begins(":", Joins(Value, Completions(s)))
  BY Punctuation, RestIs
<1>2. ASSUME NEW r \in Words PROVE <<"text">> \o r \in Rest(e, s) <=> r \in Rest("colon", s)
  BY <1>1, InsideBegins
<1> QED
  BY <1>2 DEF Follows

LEMMA PunctuationFollows ==
  ASSUME NEW s \in Seq(Frames)
  PROVE  /\ Follows(Rest("colon", s), ":", Rest("value", s))
         /\ s # <<>> => Follows(Rest("sep", s), ",", Rest("next", s))
<1>1. ":" \in Tokens /\ "," \in Tokens /\ Rest("sep", s) = Completions(s)
  BY Punctuation, RestIs
<1>2. ASSUME NEW r \in Words PROVE <<":">> \o r \in Rest("colon", s) <=> r \in Rest("value", s)
  BY <1>1, ColonBegins
<1>3. ASSUME s # <<>>, NEW r \in Words
      PROVE  <<",">> \o r \in Rest("sep", s) <=> r \in Rest("next", s)
  <2>1. Within(s) \in Kinds
    BY <1>3, AroundTyped
  <2>2. Closing(Within(s)) # ","
    BY <2>1 DEF Closing
  <2>3. <<",">> \o r \in Completions(s) <=>
           \/ "," = Closing(Within(s)) /\ r \in Completions(Around(s))
           \/ "," = "," /\ r \in Rest("next", s)
    BY <1>1, <1>3, SepBegins
  <2> QED
    BY <1>1, <2>2, <2>3
<1> QED
  BY <1>2, <1>3 DEF Follows

-----------------------------------------------------------------------------
\* What the grammar lets come where the reader is.
Placed(e, s) ==
  IF e = "value" THEN {"word", "text", "[", "{"}
  ELSE IF AtWord(e, s) THEN {"word", "text", "[", "{", "]"}
  ELSE IF e = "colon" THEN {":"}
  ELSE IF e = "sep" THEN {",", Closing(Within(s))}
  ELSE {"text", "}"}

LEMMA PlacedOnly ==
  ASSUME NEW s \in Seq(Frames), NEW e \in {"value", "first", "next", "colon", "sep"},
         e \in {"first", "next", "sep"} => s # <<>>,
         NEW t \in Tokens, t \notin Placed(e, s)
  PROVE  Misplaced(Rest(e, s), t)
<1>1. ASSUME NEW r \in Words, <<t>> \o r \in Rest(e, s) PROVE FALSE
  <2>1. CASE AtWord(e, s)
    <3>1. t \notin {"word", "text", "[", "{"} /\ (e = "value" \/ t # "]")
      BY <2>1 DEF Placed
    <3>2. <<t>> \o r \notin Joins(Value, Completions(s))
      BY <3>1, RestSets, ValueBegins
    <3>3. CASE t # "]"
      BY <1>1, <2>1, <3>2, <3>3, WordBegins
    <3>4. CASE t = "]"
      <4>1. e = "value"
        BY <3>1, <3>4
      <4> QED
        BY <1>1, <3>2, <4>1, RestIs
    <3> QED
      BY <3>3, <3>4
  <2>2. CASE e \in {"first", "next"} /\ ~ AtWord(e, s)
    <3>1. Within(s) = "object"
      BY <2>2, AroundTyped DEF AtWord, Kinds
    <3>2. t \notin {"text", "}"}
      BY <2>2 DEF Placed, AtWord
    <3> QED
      BY <1>1, <2>2, <3>1, <3>2, InsideBegins
  <2>3. CASE e = "colon"
    <3>1. t # ":"
      BY <2>3 DEF Placed, AtWord
    <3> QED
      BY <1>1, <2>3, <3>1, ColonBegins
  <2>4. CASE e = "sep"
    <3>1. t # "," /\ t # Closing(Within(s))
      BY <2>4 DEF Placed, AtWord
    <3>2. <<t>> \o r \in Completions(s) <=>
             \/ t = Closing(Within(s)) /\ r \in Completions(Around(s))
             \/ t = "," /\ r \in Rest("next", s)
      BY <2>4, SepBegins
    <3> QED
      BY <1>1, <2>4, <3>1, <3>2, RestIs
  <2> QED
    <3>1. e = "value" => AtWord(e, s)
      BY DEF AtWord
    <3> QED
      BY <2>1, <2>2, <2>3, <2>4, <3>1
<1> QED
  BY <1>1 DEF Misplaced

\* A document does not end inside.
LEMMA RestNotEmpty ==
  ASSUME NEW s \in Seq(Frames), NEW e \in {"value", "first", "next", "colon", "sep"},
         e \in {"first", "next", "sep"} => s # <<>>
  PROVE  <<>> \notin Rest(e, s)
<1> DEFINE C == Completions(s)
           O == Completions(Around(s))
           V == Joins(Value, C)
           A == Joins(Bodies("array"), C)
           B == Joins(Bodies("object"), C)
<1>1. C \in SUBSET Words /\ V \in SUBSET Words /\ A \in SUBSET Words /\ B \in SUBSET Words
  BY RestSets DEF Kinds
<1>2. V = Begins("word", C) \cup Begins("text", C) \cup Begins("[", A) \cup Begins("{", B)
  BY <1>1, ValueJoined
<1> HIDE DEF C, V, A, B
<1>3. <<>> \notin V
  <2>1. <<>> \notin Begins("word", C) /\ <<>> \notin Begins("text", C)
        /\ <<>> \notin Begins("[", A) /\ <<>> \notin Begins("{", B)
    BY <1>1, Punctuation, BeginsNotEmpty
  <2> QED
    BY <1>2, <2>1
<1>4. <<>> \notin Begins(":", V)
  BY <1>1, Punctuation, BeginsNotEmpty
<1>5. CASE e \in {"value", "colon"}
  BY <1>3, <1>4, <1>5, RestIs DEF V, C
<1>6. CASE e \in {"first", "next", "sep"}
  <2>1. /\ Within(s) \in Kinds /\ Around(s) \in Seq(Frames)
    BY <1>6, AroundTyped
  <2>2. O \in SUBSET Words /\ Closing(Within(s)) \in Tokens /\ "," \in Tokens
    BY <2>1, RestSets, KindTokens, Punctuation
  <2> HIDE DEF O
  <2>3. <<>> \notin Begins(Closing(Within(s)), O)
    BY <2>2, BeginsNotEmpty
  <2>4. CASE e = "sep"
    <3>1. Joins(Bodies(Within(s)), O) \in SUBSET Words
      BY JoinsTyped
    <3>2. <<>> \notin Begins(",", Joins(Bodies(Within(s)), O))
      BY <2>2, <3>1, BeginsNotEmpty
    <3>3. Completions(s) = Begins(Closing(Within(s)), O)
                           \cup Begins(",", Joins(Bodies(Within(s)), O))
      BY <1>6, AfterElement DEF O
    <3> QED
      BY <2>3, <2>4, <3>2, <3>3, RestIs
  <2>5. CASE e \in {"first", "next"}
    <3>1. Rest(e, s) = Begins(Closing(Within(s)), O) \cup Joins(Items(Within(s)), C)
      BY <1>6, <2>5, RestInside, BeforeElement DEF O, C
    <3>2. Joins(Items("array"), C) = V /\ Joins(Items("object"), C) = Begins("text", Begins(":", V))
      BY <1>1, ItemsJoined DEF V
    <3>3. <<>> \notin Begins("text", Begins(":", V))
      <4>1. Begins(":", V) \in SUBSET Words
        BY BeginsTyped
      <4> QED
        BY <4>1, Punctuation, BeginsNotEmpty
    <3> QED
      BY <1>3, <2>1, <2>3, <3>1, <3>2, <3>3 DEF Kinds
  <2> QED
    BY <1>6, <2>4, <2>5
<1> QED
  BY <1>5, <1>6
-----------------------------------------------------------------------------
(* What the reader has read, as the grammar sees it. *)

\* What the grammar takes token t for.
Token(t) ==
  IF t \in Strings THEN "text" ELSE IF t \in {"last", "cut"} THEN "word" ELSE t

\* What has been consumed of d, up to its token p.
Read(d, p) == Canonical(SubSeq(d, 1, p))

LEMMA CanonicalIs ==
  ASSUME NEW d \in Seq(Tokens)
  PROVE  /\ Canonical(d) \in Words /\ Len(Canonical(d)) = Len(d)
         /\ \A i \in 1 .. Len(d) : Canonical(d)[i] = Token(d[i])
<1> DEFINE c == Canonical(d)
<1>1. DOMAIN d = 1 .. Len(d) /\ Len(d) \in Nat
  OBVIOUS
<1>2. c = [i \in 1 .. Len(d) |-> Token(d[i])]
  BY <1>1 DEF Canonical, Token
<1>3. \A t \in Tokens : Token(t) \in Tokens
  BY Punctuation DEF Token
<1>4. \A i \in 1 .. Len(d) : Token(d[i]) \in Tokens
  BY <1>3
<1> HIDE DEF c
<1>5. c \in Seq(Tokens) /\ Len(c) = Len(d)
  BY <1>1, <1>2, <1>4
<1> QED
  BY <1>2, <1>5 DEF c, Words

LEMMA ReadIs ==
  ASSUME NEW d \in Seq(Tokens), NEW p \in 0 .. Len(d)
  PROVE  /\ Read(d, p) \in Words /\ Len(Read(d, p)) = p
         /\ \A i \in 1 .. p : Read(d, p)[i] = Token(d[i])
<1> DEFINE s == SubSeq(d, 1, p)
<1>1. /\ s \in Seq(Tokens) /\ Len(s) = p /\ \A i \in 1 .. p : s[i] = d[i]
  OBVIOUS
<1> HIDE DEF s
<1> QED
  BY <1>1, CanonicalIs DEF Read, s

\* What has been read does not change when tokens are added to d.
LEMMA ReadStays ==
  ASSUME NEW d \in Seq(Tokens), NEW p \in 0 .. Len(d),
         NEW e \in Seq(Tokens), p <= Len(e), \A i \in 1 .. p : e[i] = d[i]
  PROVE  Read(e, p) = Read(d, p)
<1>1. p \in 0 .. Len(e)
  OBVIOUS
<1>2. Read(e, p) \in Seq(Tokens) /\ Read(d, p) \in Seq(Tokens)
      /\ Len(Read(e, p)) = p /\ Len(Read(d, p)) = p
      /\ \A i \in 1 .. p : Read(e, p)[i] = Token(e[i]) /\ Read(d, p)[i] = Token(d[i])
  BY <1>1, ReadIs DEF Words
<1> DEFINE x == Read(e, p)
           y == Read(d, p)
<1>3. x \in Seq(Tokens) /\ y \in Seq(Tokens) /\ Len(x) = Len(y) /\ \A i \in 1 .. Len(x) : x[i] = y[i]
  BY <1>2
<1> HIDE DEF x, y
<1>4. x = y
  BY <1>3
<1> QED
  BY <1>4 DEF x, y

LEMMA ReadMore ==
  ASSUME NEW d \in Seq(Tokens), NEW p \in 0 .. Len(d) - 1
  PROVE  Read(d, p + 1) = Read(d, p) \o <<Token(d[p + 1])>>
<1> DEFINE x == Read(d, p + 1)
           y == Read(d, p)
           t == Token(d[p + 1])
<1>1. p \in 0 .. Len(d) /\ p + 1 \in 0 .. Len(d) /\ p \in Nat
  OBVIOUS
<1>2. /\ x \in Seq(Tokens) /\ Len(x) = p + 1 /\ \A i \in 1 .. p + 1 : x[i] = Token(d[i])
      /\ y \in Seq(Tokens) /\ Len(y) = p /\ \A i \in 1 .. p : y[i] = Token(d[i])
  BY <1>1, ReadIs DEF Words
<1>3. x[p + 1] = t /\ t \in Tokens
  <2>1. p + 1 \in 1 .. p + 1
    BY <1>1
  <2>2. x[p + 1] \in Tokens
    BY <1>2, <2>1
  <2> QED
    BY <1>2, <2>1, <2>2
<1> HIDE DEF x, y, t
<1>4. x = y \o <<t>>
  BY <1>1, <1>2, <1>3
<1> QED
  BY <1>4 DEF x, y, t

-----------------------------------------------------------------------------
\* A document that has been read up to c may go on as R says.
Agrees(c, R) == \A r \in Words : c \o r \in Value <=> r \in R

LEMMA AgreesOn ==
  ASSUME NEW c \in Words, NEW R, Agrees(c, R), NEW t \in Tokens, NEW Q, Follows(R, t, Q)
  PROVE  Agrees(c \o <<t>>, Q)
<1>1. <<t>> \in Words
  BY OneToken
<1>2. ASSUME NEW r \in Words PROVE (c \o <<t>>) \o r \in Value <=> r \in Q
  <2>1. PICK q : q = <<t>> \o r
    OBVIOUS
  <2>2. q \in Words /\ (c \o <<t>>) \o r = c \o q
    BY <1>1, <2>1, Joined, Regrouped
  <2>3. c \o q \in Value <=> q \in R
    BY <2>2 DEF Agrees
  <2>4. q \in R <=> r \in Q
    BY <2>1 DEF Follows
  <2> QED
    BY <2>2, <2>3, <2>4
<1> QED
  BY <1>2 DEF Agrees

\* Only a document that has been read in full is one.
LEMMA AgreesInside ==
  ASSUME NEW c \in Words, NEW s \in Seq(Frames),
         NEW e \in {"value", "first", "next", "colon", "sep"},
         e \in {"first", "next", "sep"} => s # <<>>, Agrees(c, Rest(e, s))
  PROVE  c \notin Value
<1>1. <<>> \in Words /\ c \o <<>> = c
  BY ConcatEmptySeq DEF Words
<1>2. <<>> \notin Rest(e, s)
  BY RestNotEmpty
<1> QED
  BY <1>1, <1>2 DEF Agrees

LEMMA AgreesNoMore ==
  ASSUME NEW c \in Words, NEW R, Agrees(c, R), NEW t \in Tokens, Misplaced(R, t),
         NEW r \in Words
  PROVE  (c \o <<t>>) \o r \notin Value
<1>1. <<t>> \in Words
  BY OneToken
<1>2. PICK q : q = <<t>> \o r
  OBVIOUS
<1>3. q \in Words /\ (c \o <<t>>) \o r = c \o q
  BY <1>1, <1>2, Joined, Regrouped
<1>4. q \notin R
  BY <1>2 DEF Misplaced
<1> QED
  BY <1>3, <1>4 DEF Agrees

-----------------------------------------------------------------------------
(* What has been read in part is the beginning of a document the grammar has. *)

\* A word of R has at most n tokens.
Short(R, n) == \E r \in R : r \in Words /\ Len(r) <= n

LEMMA OneMore ==
  ASSUME NEW u \in Seq(Tokens), NEW y \in Seq(Tokens), Len(u) = 1
  PROVE  /\ u \o y \in Seq(Tokens) /\ Len(u \o y) = 1 + Len(y)
         /\ \A j \in 1 .. 1 + Len(y) : (u \o y)[j] = IF j = 1 THEN u[1] ELSE y[j - 1]
<1>1. PICK n \in Nat : n = Len(y)
  OBVIOUS
<1>2. PICK p \in Nat : p = 1
  OBVIOUS
<1> DEFINE w == u \o y
<1>3. Len(u) = p /\ Len(y) = n
  BY <1>1, <1>2
<1>4. /\ w \in Seq(Tokens) /\ Len(w) = p + n
      /\ \A j \in 1 .. p + n : w[j] = IF j <= p THEN u[j] ELSE y[j - p]
  BY <1>3
<1> HIDE DEF w
<1>5. ASSUME NEW j \in 1 .. p + n PROVE w[j] = IF j = 1 THEN u[1] ELSE y[j - 1]
  BY <1>2, <1>4
<1> QED
  BY <1>1, <1>2, <1>4, <1>5 DEF w

LEMMA CompletionsShort ==
  ASSUME NEW s \in Seq(Frames)
  PROVE  Short(Completions(s), Len(s))
<1> DEFINE n == Len(s)
           b(i, j) == Closing(s[i + 1 - j].kind)
           q(i) == [j \in 1 .. i |-> b(i, j)]
           p == [i \in 0 .. n |-> q(i)]
<1>1. n \in Nat /\ \A i \in 1 .. n : s[i].kind \in Kinds
  <2>1. n \in Nat /\ \A i \in 1 .. n : s[i] \in Frames
    OBVIOUS
  <2> QED
    BY <2>1 DEF Frames
<1>2. ASSUME NEW i \in 1 .. n
      PROVE  Closing(s[i].kind) \in Tokens /\ <<Closing(s[i].kind)>> \in Endings(s[i].kind)
  BY <1>1, KindTokens DEF Endings
<1>3. ASSUME NEW i \in 0 .. n
      PROVE  q(i) \in Seq(Tokens) /\ Len(q(i)) = i
  <2>1. ASSUME NEW j \in 1 .. i PROVE b(i, j) \in Tokens
    <3>1. i + 1 - j \in 1 .. n
      BY <1>1
    <3> QED
      BY <1>2, <3>1
  <2> HIDE DEF b
  <2> QED
    BY <2>1
<1>4. ASSUME NEW i \in 1 .. n
      PROVE  q(i) = <<Closing(s[i].kind)>> \o q(i - 1)
  <2> DEFINE u == <<Closing(s[i].kind)>>
             x == q(i)
             y == q(i - 1)
             w == u \o y
  <2>1. i - 1 \in 0 .. n /\ i \in 0 .. n /\ i \in Nat
    BY <1>1
  <2>2. /\ x \in Seq(Tokens) /\ Len(x) = i /\ y \in Seq(Tokens) /\ Len(y) = i - 1
        /\ u \in Seq(Tokens) /\ Len(u) = 1 /\ u[1] = Closing(s[i].kind)
    <3>1. x \in Seq(Tokens) /\ Len(x) = i
      BY ONLY <1>3, <2>1
    <3>2. y \in Seq(Tokens) /\ Len(y) = i - 1
      BY ONLY <1>3, <2>1
    <3>3. u \in Words /\ Len(u) = 1 /\ u[1] = Closing(s[i].kind)
      BY <1>2, OneToken
    <3> QED
      BY <3>1, <3>2, <3>3 DEF Words
  <2>3. ASSUME NEW j \in 1 .. i
        PROVE  x[j] = IF j = 1 THEN u[1] ELSE y[j - 1]
    <3>1. CASE j = 1
      <4>1. x[j] = b(i, j) /\ i + 1 - j = i
        BY <2>1, <3>1
      <4> QED
        BY <3>1, <4>1
    <3>2. CASE j # 1
      <4>1. j - 1 \in 1 .. i - 1 /\ (i - 1) + 1 - (j - 1) = i + 1 - j
        BY <2>1, <3>2
      <4>2. y[j - 1] = b(i - 1, j - 1) /\ x[j] = b(i, j)
        BY <2>1, <4>1
      <4>3. b(i - 1, j - 1) = b(i, j)
        BY <4>1
      <4> QED
        BY <3>2, <4>2, <4>3
    <3> QED
      BY <3>1, <3>2
  <2> HIDE DEF u, x, y
  <2>4. w \in Seq(Tokens) /\ Len(w) = i
        /\ \A j \in 1 .. i : w[j] = IF j = 1 THEN u[1] ELSE y[j - 1]
    <3>1. Len(w) = 1 + Len(y) /\ w \in Seq(Tokens)
          /\ \A j \in 1 .. 1 + Len(y) : w[j] = IF j = 1 THEN u[1] ELSE y[j - 1]
      BY <2>2, OneMore
    <3>2. 1 + Len(y) = i
      BY <2>1, <2>2
    <3> HIDE DEF w
    <3> QED
      BY <3>1, <3>2
  <2> HIDE DEF w
  <2>5. x = w
    <3>1. x \in Seq(Tokens) /\ w \in Seq(Tokens) /\ Len(x) = Len(w)
      BY <2>2, <2>4
    <3>2. \A j \in 1 .. Len(x) : x[j] = w[j]
      BY <2>2, <2>3, <2>4
    <3> QED
      BY <3>1, <3>2
  <2> QED
    BY <2>5 DEF u, x, y, w
<1> HIDE DEF q
<1>5. Stages(s, p)
  <2>1. p \in [0 .. n -> Words]
    BY <1>3 DEF Words
  <2>2. p[0] = <<>>
    <3>1. 0 \in 0 .. n
      BY <1>1
    <3>2. p[0] = q(0) /\ q(0) \in Seq(Tokens) /\ Len(q(0)) = 0
      BY <1>3, <3>1
    <3> QED
      BY <3>2
  <2>3. ASSUME NEW i \in 1 .. n PROVE \E m \in Endings(s[i].kind) : p[i] = m \o p[i - 1]
    <3>1. i \in 0 .. n /\ i - 1 \in 0 .. n
      BY <1>1
    <3>2. p[i] = q(i) /\ p[i - 1] = q(i - 1)
      BY <3>1
    <3> QED
      BY <1>2, <1>4, <3>2
  <2> QED
    BY <2>1, <2>2, <2>3 DEF Stages
<1>6. p[n] \in Words /\ Len(p[n]) = n
  <2>1. n \in 0 .. n
    BY <1>1
  <2> QED
    BY <1>3, <2>1 DEF Words
<1>7. p[n] \in Completions(s)
  BY <1>5, <1>6 DEF Completions
<1> HIDE DEF p
<1> QED
  BY <1>1, <1>6, <1>7 DEF Short

LEMMA ShortMore ==
  ASSUME NEW R, NEW Q, NEW n \in Nat, Short(R, n), NEW t \in Tokens,
         \A r \in Words : r \in R => <<t>> \o r \in Q
  PROVE  Short(Q, n + 1)
<1>1. PICK r \in R : r \in Words /\ Len(r) <= n
  BY DEF Short
<1>2. PICK u : u = <<t>>
  OBVIOUS
<1>3. u \in Words /\ Len(u) = 1
  BY <1>2, OneToken
<1>4. PICK w : w = u \o r
  OBVIOUS
<1>5. w \in Words /\ Len(w) = Len(u) + Len(r)
  BY <1>1, <1>3, <1>4, Joined
<1>6. Len(r) \in Nat
  BY <1>1 DEF Words
<1>7. Len(w) <= n + 1
  BY <1>1, <1>3, <1>5, <1>6
<1>8. w \in Q
  BY <1>1, <1>2, <1>4
<1> QED
  BY <1>5, <1>7, <1>8 DEF Short

\* What completes a document need not be longer than a colon, a value, and the brackets.
LEMMA RestShort ==
  ASSUME NEW s \in Seq(Frames), NEW e \in {"value", "first", "next", "colon", "sep"},
         e \in {"first", "next", "sep"} => s # <<>>
  PROVE  Short(Rest(e, s), Len(s) + 2)
<1> DEFINE n == Len(s)
<1>1. n \in Nat /\ Short(Completions(s), n)
  BY CompletionsShort
<1>2. Completions(s) \in SUBSET Words /\ Rest("sep", s) = Completions(s)
      /\ Rest("value", s) = Joins(Value, Completions(s))
  BY RestSets, RestIs
<1>3. Short(Rest("value", s), n + 1)
  <2>1. "word" \in Tokens
    BY Punctuation
  <2>2. ASSUME NEW r \in Words, r \in Completions(s) PROVE <<"word">> \o r \in Rest("value", s)
    <3> DEFINE C == Completions(s)
    <3>1. C \in SUBSET Words /\ r \in C
      BY <1>2, <2>2
    <3> HIDE DEF C
    <3>2. PICK t \in Tokens : t = "word"
      BY <2>1
    <3>3. <<t>> \o r \in Joins(Value, C)
      BY <3>1, <3>2, ValueBegins
    <3> QED
      BY <1>2, <3>2, <3>3 DEF C
  <2> QED
    BY <1>1, <2>1, <2>2, ShortMore
<1>4. Short(Rest("colon", s), (n + 1) + 1)
  <2>1. ":" \in Tokens
    BY Punctuation
  <2>2. ASSUME NEW r \in Words, r \in Rest("value", s) PROVE <<":">> \o r \in Rest("colon", s)
    BY <2>1, <2>2, ColonBegins
  <2> QED
    <3>1. n + 1 \in Nat
      BY <1>1
    <3> HIDE DEF n
    <3> QED
      BY <1>3, <2>1, <2>2, <3>1, ShortMore
<1>5. CASE e \in {"first", "next"}
  <2>1. /\ Within(s) \in Kinds /\ Around(s) \in Seq(Frames)
        /\ n \in Nat \ {0} /\ Len(Around(s)) = n - 1
    BY <1>5, AroundTyped
  <2>2. Short(Completions(Around(s)), n - 1)
    BY <2>1, CompletionsShort
  <2>3. Closing(Within(s)) \in Tokens
    BY <2>1, KindTokens
  <2>4. Follows(Rest(e, s), Closing(Within(s)), Rest("sep", Around(s)))
    BY <1>5, CloseFollows
  <2>5. Rest("sep", Around(s)) = Completions(Around(s))
    BY RestIs
  <2>6. \A r \in Words : r \in Completions(Around(s)) => <<Closing(Within(s))>> \o r \in Rest(e, s)
    BY <2>4, <2>5 DEF Follows
  <2>7. Short(Rest(e, s), (n - 1) + 1)
    <3>1. n - 1 \in Nat
      BY <2>1
    <3> QED
      BY <2>2, <2>3, <2>6, <3>1, ShortMore
  <2>8. PICK r \in Rest(e, s) : r \in Words /\ Len(r) <= (n - 1) + 1
    BY <2>7 DEF Short
  <2>9. Len(r) \in Nat
    BY <2>8 DEF Words
  <2> HIDE DEF n
  <2>10. Len(r) <= n + 2
    BY <1>1, <2>8, <2>9
  <2> QED
    BY <2>8, <2>10 DEF Short, n
<1>6. CASE e = "sep"
  <2>1. PICK r \in Completions(s) : r \in Words /\ Len(r) <= n
    BY <1>1 DEF Short
  <2>2. Len(r) \in Nat
    BY <2>1 DEF Words
  <2> HIDE DEF n
  <2>3. Len(r) <= n + 2
    BY <1>1, <2>1, <2>2
  <2> QED
    BY <1>2, <1>6, <2>1, <2>3 DEF Short, n
<1>7. CASE e = "value"
  <2>1. PICK r \in Rest(e, s) : r \in Words /\ Len(r) <= n + 1
    BY <1>3, <1>7 DEF Short
  <2>2. Len(r) \in Nat
    BY <2>1 DEF Words
  <2> HIDE DEF n
  <2>3. Len(r) <= n + 2
    BY <1>1, <2>1, <2>2
  <2> QED
    BY <2>1, <2>3 DEF Short, n
<1>8. CASE e = "colon"
  <2>1. (n + 1) + 1 = n + 2
    BY <1>1
  <2> QED
    BY <1>4, <1>8, <2>1
<1> QED
  BY <1>5, <1>6, <1>7, <1>8

-----------------------------------------------------------------------------
(* The documents of the grammar, and what they begin with. *)

LEMMA DocumentsAre ==
  ASSUME NEW d
  PROVE  /\ d \in Documents => d \in Value /\ d \in Words
         /\ d \in Value /\ d \in Words /\ Len(d) <= Longest => d \in Documents
<1>1. Longest \in Nat
  BY BoundsAssumption DEF Longest
<1> DEFINE L == Grammar[Longest]
           N == Longest
<1>2. d \in Documents <=> \E n \in 1 .. N : d \in L[n].value
  BY DEF Documents
<1>3. Graded(L) /\ Len(L) = N
  BY <1>1, GrammarGraded
<1>4. ASSUME NEW n \in 1 .. N
      PROVE  d \in L[n].value <=> d \in Value /\ Len(d) = n
  <2>1. d \in At(L, n, "value") <=> d \in Sentences("value") /\ Len(d) = n
    BY <1>1, <1>4, SentencesAt DEF Parts
  <2>2. At(L, n, "value") = L[n].value
    BY <1>1, <1>3, <1>4 DEF At, Graded
  <2> QED
    BY <2>1, <2>2 DEF Value
<1>5. d \in Value => Len(d) \in Nat \ {0} /\ d \in Words
  BY WordTyped DEF Value
<1> HIDE DEF L, N
<1>6. N \in Nat /\ N = Longest
  BY <1>1 DEF N
<1>7. d \in Documents => d \in Value
  BY <1>2, <1>4
<1>8. d \in Value /\ Len(d) <= Longest => d \in Documents
  BY <1>2, <1>4, <1>5, <1>6
<1> QED
  BY <1>5, <1>7, <1>8

\* x is y and what comes behind it.
Continues(x, y, z) == x = y \o z

LEMMA TwoParts ==
  ASSUME NEW x \in Seq(Tokens), NEW y \in Seq(Tokens), NEW z \in Seq(Tokens),
         NEW p \in Nat, NEW m \in Nat, Len(x) = p + m, Len(y) = p, Len(z) = m,
         \A i \in 1 .. p : x[i] = y[i], \A i \in 1 .. m : z[i] = x[p + i]
  PROVE  Continues(x, y, z)
<1> DEFINE w == y \o z
<1>1. /\ w \in Seq(Tokens) /\ Len(w) = p + m
      /\ \A i \in 1 .. p + m : w[i] = IF i <= p THEN y[i] ELSE z[i - p]
  OBVIOUS
<1> HIDE DEF w
<1>2. ASSUME NEW i \in 1 .. p + m PROVE x[i] = w[i]
  <2>1. CASE i <= p
    BY <1>1, <2>1
  <2>2. CASE ~ (i <= p)
    <3>1. i - p \in 1 .. m /\ p + (i - p) = i
      BY <2>2
    <3> QED
      BY <1>1, <2>2, <3>1
  <2> QED
    BY <2>1, <2>2
<1>3. x = w
  BY <1>1, <1>2
<1> QED
  BY <1>3 DEF w, Continues

\* Of what has been read, a part is its beginning.
LEMMA ReadParts ==
  ASSUME NEW d \in Seq(Tokens), NEW p \in Nat, NEW m \in Nat, p + m <= Len(d)
  PROVE  \E r \in Words : Read(d, p + m) = Read(d, p) \o r
<1>1. p \in 0 .. Len(d) /\ p + m \in 0 .. Len(d)
  OBVIOUS
<1>2. PICK x : x = Read(d, p + m)
  OBVIOUS
<1>3. PICK y : y = Read(d, p)
  OBVIOUS
<1>4. /\ x \in Seq(Tokens) /\ Len(x) = p + m /\ \A i \in 1 .. p + m : x[i] = Token(d[i])
      /\ y \in Seq(Tokens) /\ Len(y) = p /\ \A i \in 1 .. p : y[i] = Token(d[i])
  BY <1>1, <1>2, <1>3, ReadIs DEF Words
<1>5. PICK z : z = [i \in 1 .. m |-> x[p + i]]
  OBVIOUS
<1>6. /\ z \in Seq(Tokens) /\ Len(z) = m /\ \A i \in 1 .. m : z[i] = x[p + i]
  <2>1. \A i \in 1 .. m : x[p + i] \in Tokens
    BY <1>4
  <2> QED
    BY <1>5, <2>1
<1>7. \A i \in 1 .. p : x[i] = y[i]
  BY <1>4
<1>8. Continues(x, y, z)
  <2>1. x \in Seq(Tokens) /\ y \in Seq(Tokens) /\ Len(x) = p + m /\ Len(y) = p
    BY <1>4
  <2> QED
    BY <1>6, <1>7, <2>1, TwoParts
<1> QED
  BY <1>2, <1>3, <1>6, <1>8 DEF Words, Continues

\* Beginnings are what words go on from.
LEMMA BeginningsAre ==
  ASSUME NEW c \in Words, c \in Beginnings
  PROVE  \E r \in Words : c \o r \in Value
<1>1. PICK d \in Documents : \E n \in 0 .. Len(d) : c = SubSeq(d, 1, n)
  BY DEF Beginnings
<1>2. PICK n \in 0 .. Len(d) : c = SubSeq(d, 1, n)
  BY <1>1
<1>3. d \in Value /\ d \in Seq(Tokens)
  BY DocumentsAre DEF Words
<1> DEFINE z == [i \in 1 .. Len(d) - n |-> d[n + i]]
           l == Len(d)
<1>4. l \in Nat /\ n \in Nat /\ n <= l
  BY <1>3
<1>5. /\ c \in Seq(Tokens) /\ Len(c) = n /\ \A i \in 1 .. n : c[i] = d[i]
  BY <1>2, <1>3, <1>4
<1>6. z \in Seq(Tokens) /\ Len(z) = l - n /\ \A i \in 1 .. l - n : z[i] = d[n + i]
  <2>1. \A i \in 1 .. l - n : d[n + i] \in Tokens
    BY <1>3, <1>4
  <2> QED
    BY <1>4, <2>1
<1>7. Continues(d, c, z)
  <2>1. PICK m \in Nat : m = l - n
    BY <1>4
  <2>2. \A i \in 1 .. n : d[i] = c[i]
    BY <1>5
  <2> HIDE DEF z
  <2>3. Len(d) = n + m /\ Len(z) = m /\ \A i \in 1 .. m : z[i] = d[n + i]
    BY <1>4, <1>6, <2>1
  <2> QED
    BY <1>3, <1>4, <1>5, <1>6, <2>2, <2>3, TwoParts
<1> HIDE DEF z
<1> QED
  BY <1>3, <1>6, <1>7 DEF Words, Continues

LEMMA BeginningsHave ==
  ASSUME NEW c \in Words, NEW r \in Words, c \o r \in Documents
  PROVE  c \in Beginnings
<1> DEFINE d == c \o r
           n == Len(c)
<1>1. /\ c \in Seq(Tokens) /\ d \in Seq(Tokens) /\ n \in 0 .. Len(d)
      /\ Len(c) = n /\ \A i \in 1 .. n : d[i] = c[i]
  BY DEF Words
<1>2. d \in Documents
  OBVIOUS
<1> HIDE DEF d, n
<1>3. SubSeq(d, 1, n) \in Seq(Tokens) /\ Len(SubSeq(d, 1, n)) = n
      /\ \A i \in 1 .. n : SubSeq(d, 1, n)[i] = d[i]
  BY <1>1
<1> DEFINE x == SubSeq(d, 1, n)
<1>4. x = c
  <2>1. x \in Seq(Tokens) /\ Len(x) = n /\ \A i \in 1 .. n : x[i] = d[i]
    BY <1>3
  <2> HIDE DEF x
  <2> QED
    BY <1>1, <2>1
<1> QED
  BY <1>1, <1>2, <1>4 DEF Beginnings

\* A document is its own beginning.
LEMMA DocumentsBegin ==
  ASSUME NEW c \in Words, c \in Documents
  PROVE  c \in Beginnings
<1>1. <<>> \in Words /\ c \o <<>> = c
  BY ConcatEmptySeq DEF Words
<1> QED
  BY <1>1, BeginningsHave

\* c begins a document, and is none.
Unfinished(c) == c \in Beginnings /\ c \notin Value

LEMMA InsideUnfinished ==
  ASSUME NEW c \in Words, Len(c) <= MaxTokens, NEW s \in Seq(Frames), Len(s) <= MaxDepth,
         NEW e \in {"value", "first", "next", "colon", "sep"},
         e \in {"first", "next", "sep"} => s # <<>>, Agrees(c, Rest(e, s))
  PROVE  Unfinished(c)
<1>1. c \notin Value
  BY AgreesInside
<1>2. PICK r \in Rest(e, s) : r \in Words /\ Len(r) <= Len(s) + 2
  BY RestShort DEF Short
<1>3. c \o r \in Value
  BY <1>2 DEF Agrees
<1>4. c \o r \in Words /\ Len(c \o r) = Len(c) + Len(r)
  BY <1>2, Joined
<1> DEFINE l == Len(c)
           m == Len(r)
           n == Len(s)
           k == Len(c \o r)
<1>5. l \in Nat /\ m \in Nat /\ n \in Nat /\ MaxTokens \in Nat /\ MaxDepth \in Nat
  BY <1>2, BoundsAssumption DEF Words
<1>6. l <= MaxTokens /\ n <= MaxDepth /\ m <= n + 2 /\ k = l + m
  BY <1>2, <1>4
<1> HIDE DEF l, m, n, k
<1>7. k <= MaxTokens + MaxDepth + 2
  BY <1>5, <1>6
<1>8. c \o r \in Documents
  BY <1>3, <1>4, <1>7, DocumentsAre DEF Longest, k
<1> QED
  BY <1>1, <1>2, <1>8, BeginningsHave DEF Unfinished

-----------------------------------------------------------------------------
(* The reader and the grammar, step by step. *)

\* Only the last token of the document is cut short; and a reader that goes on has met
\* no number that the document ends in.
ShapedAs(d) == \A i \in 1 .. Len(d) : (d[i] \in CutShort => i = limit) /\ d[i] # "last"
Shaped == ShapedAs(doc)

\* In the document: what has been read and what is expected make up the documents there are.
Going == pos <= limit /\ Agrees(Read(doc, pos), Rest(expect, stack))

\* Behind it: the document has been read to its end, and was not complete there.
Past == limit <= pos /\ limit < Len(doc) /\ Unfinished(Read(doc, limit))

\* Outside of all containers a value is expected at the beginning only.
Rootless == expect = "value" /\ stack = <<>> => pos = 0

Standing == Depth <= MaxDepth /\ Shaped /\ Rootless /\ (Going \/ Past)

\* A token is consumed, and the grammar goes on with it as well.
Consumes ==
  \E t \in Tokens :
    Takes(t) /\ Follows(Rest(expect, stack), Token(t), Rest(expect', stack'))

\* A token is looked at, consumed or not.
Looks == \E t \in Tokens : Sees(t) /\ t # "last" /\ (pos' = pos \/ pos' = pos + 1)

\* What a step of the parser comes to.
Advances ==
  /\ Looks
  /\ Depth' <= MaxDepth
  /\ expect' = "value" => stack' # <<>>
  /\ pos < limit => Consumes

LEMMA ReadPrimed ==
  ASSUME TRUE
  PROVE  Read(doc, pos)' = Read(doc', pos')
BY DEF Read, Canonical, Strings

LEMMA ReadLimitPrimed ==
  ASSUME limit' = limit
  PROVE  Read(doc, limit)' = Read(doc', limit)
BY DEF Read, Canonical, Strings

LEMMA Numbers ==
  ASSUME TypeOK
  PROVE  /\ pos \in Nat /\ limit \in Nat /\ limit <= MaxTokens /\ MaxTokens \in Nat
         /\ Len(doc) \in Nat /\ pos <= Len(doc) /\ doc \in Seq(Tokens) /\ pos \in 0 .. Len(doc)
         /\ stack \in Seq(Frames)
BY BoundsAssumption DEF TypeOK

\* What is new in the document is what is seen.
LEMMA ShapedOn ==
  ASSUME TypeOK, Shaped, NEW t \in Tokens, Sees(t), t # "last"
  PROVE  ShapedAs(doc')
<1>1. doc \in Seq(Tokens) /\ Len(doc) \in Nat /\ limit \in Nat
  BY Numbers
<1>2. CASE doc' = doc
  BY <1>2 DEF Shaped, ShapedAs
<1>3. CASE MayFollow(t) /\ doc' = Append(doc, t)
  <2> DEFINE n == Len(doc)
             d == Append(doc, t)
  <2>1. n \in Nat /\ Len(d) = n + 1 /\ d[n + 1] = t /\ \A i \in 1 .. n : d[i] = doc[i]
    BY <1>1
  <2>2. t \in CutShort => n + 1 = limit
    <3>1. CASE n < limit
      BY <1>3, <3>1 DEF MayFollow
    <3>2. CASE ~ (n < limit)
      BY <1>3, <3>2 DEF MayFollow, Beyond, CutShort
    <3> QED
      BY <3>1, <3>2
  <2>3. \A i \in 1 .. n : (doc[i] \in CutShort => i = limit) /\ doc[i] # "last"
    BY DEF Shaped, ShapedAs
  <2> HIDE DEF n, d
  <2>4. ASSUME NEW i \in 1 .. n + 1 PROVE (d[i] \in CutShort => i = limit) /\ d[i] # "last"
    <3>1. i \in 1 .. n \/ i = n + 1
      BY <2>1
    <3> QED
      BY <2>1, <2>2, <2>3, <3>1
  <2> QED
    BY <1>3, <2>1, <2>4 DEF ShapedAs, d
<1> QED
  BY <1>2, <1>3 DEF Sees

\* A number that the document ends in is in the document.
LEMMA LastInside ==
  ASSUME TypeOK, Shaped, Sees("last")
  PROVE  pos = Len(doc) /\ doc' = Append(doc, "last") /\ pos + 1 = limit
<1>1. pos \in Nat /\ limit \in Nat /\ doc \in Seq(Tokens) /\ Len(doc) \in Nat
  BY Numbers
<1>2. ~ (pos < Len(doc) /\ "last" = doc[pos + 1])
  <2> SUFFICES ASSUME pos < Len(doc), "last" = doc[pos + 1] PROVE FALSE
    OBVIOUS
  <2>1. pos + 1 \in 1 .. Len(doc)
    BY <1>1
  <2> QED
    BY <2>1 DEF Shaped, ShapedAs
<1>3. pos = Len(doc) /\ MayFollow("last") /\ doc' = Append(doc, "last")
  BY <1>2 DEF Sees
<1>4. "last" \in CutShort /\ "last" \notin Beyond
  BY DEF CutShort, Beyond
<1>5. Len(doc) + 1 = limit
  BY <1>3, <1>4 DEF MayFollow
<1> QED
  BY <1>3, <1>5

LEMMA TokenTyped ==
  ASSUME NEW t \in Tokens
  PROVE  Token(t) \in Tokens
BY Punctuation DEF Token

\* What is read of the document once token t has been seen.
LEMMA SeenRead ==
  ASSUME TypeOK, NEW t \in Tokens, Sees(t)
  PROVE  /\ Read(doc, pos) \in Words /\ Len(Read(doc, pos)) = pos
         /\ Read(doc', pos) = Read(doc, pos)
         /\ Read(doc', pos + 1) = Read(doc, pos) \o <<Token(t)>>
<1>1. /\ pos \in Nat /\ pos < Len(doc') /\ doc'[pos + 1] = t /\ Len(doc) \in Nat
      /\ doc' \in Seq(Tokens) /\ Len(doc) <= Len(doc')
      /\ \A i \in 1 .. Len(doc) : doc'[i] = doc[i]
  BY SeenToken
<1>2. doc \in Seq(Tokens) /\ pos \in 0 .. Len(doc)
  BY DEF TypeOK
<1>3. Read(doc', pos) = Read(doc, pos)
  <2>1. pos <= Len(doc') /\ \A i \in 1 .. pos : doc'[i] = doc[i]
    BY <1>1, <1>2
  <2> QED
    BY <1>1, <1>2, <2>1, ReadStays
<1>4. Read(doc', pos + 1) = Read(doc', pos) \o <<Token(doc'[pos + 1])>>
  <2>1. pos \in 0 .. Len(doc') - 1
    BY <1>1
  <2> QED
    BY <1>1, <2>1, ReadMore
<1> QED
  BY <1>1, <1>2, <1>3, <1>4, ReadIs

\* Consuming a token of the document.
LEMMA ConsumesOn ==
  ASSUME TypeOK, limit' = limit, Going, pos < limit, Consumes
  PROVE  Going'
<1>1. PICK t \in Tokens :
        Takes(t) /\ Follows(Rest(expect, stack), Token(t), Rest(expect', stack'))
  BY DEF Consumes
<1>2. Sees(t) /\ pos' = pos + 1
  BY <1>1 DEF Takes
<1> DEFINE c == Read(doc, pos)
<1>3. c \in Words /\ Read(doc', pos + 1) = c \o <<Token(t)>>
  BY <1>2, SeenRead
<1>4. Agrees(c, Rest(expect, stack))
  BY DEF Going
<1> HIDE DEF c
<1>5. Agrees(c \o <<Token(t)>>, Rest(expect', stack'))
  BY <1>1, <1>3, <1>4, TokenTyped, AgreesOn
<1>6. Read(doc, pos)' = c \o <<Token(t)>>
  BY <1>2, <1>3, ReadPrimed
<1>7. pos' <= limit'
  <2>1. pos \in Nat /\ limit \in Nat
    BY Numbers
  <2> QED
    BY <1>2, <2>1
<1> QED
  BY <1>5, <1>6, <1>7 DEF Going

\* Inside a container, what has been read is unfinished.
LEMMA GoingUnfinished ==
  ASSUME TypeOK, Going, Depth <= MaxDepth, expect \in {"value", "first", "next", "colon", "sep"},
         expect \in {"first", "next", "sep"} => stack # <<>>
  PROVE  Unfinished(Read(doc, pos))
<1>1. doc \in Seq(Tokens) /\ pos \in 0 .. Len(doc) /\ stack \in Seq(Frames)
      /\ pos \in Nat /\ limit \in Nat /\ MaxTokens \in Nat /\ limit <= MaxTokens
  BY Numbers
<1>2. Read(doc, pos) \in Words /\ Len(Read(doc, pos)) = pos
  BY <1>1, ReadIs
<1>3. pos <= MaxTokens
  BY <1>1 DEF Going
<1> QED
  BY <1>1, <1>2, <1>3, InsideUnfinished DEF Going, Depth

\* Looking behind the document, from its end or from further behind.
LEMMA LooksOn ==
  ASSUME TypeOK, limit' = limit, Standing, Looks, limit <= pos,
         expect \in {"value", "first", "next", "colon", "sep"},
         expect \in {"first", "next", "sep"} => stack # <<>>
  PROVE  Past'
<1>1. PICK t \in Tokens : Sees(t) /\ (pos' = pos \/ pos' = pos + 1)
  BY DEF Looks
<1>2. /\ pos \in Nat /\ pos < Len(doc') /\ Len(doc) \in Nat
      /\ doc' \in Seq(Tokens) /\ Len(doc) <= Len(doc')
      /\ \A i \in 1 .. Len(doc) : doc'[i] = doc[i]
  BY <1>1, SeenToken
<1>3. limit \in Nat /\ doc \in Seq(Tokens) /\ Len(doc') \in Nat
  BY <1>2, Numbers
<1>4. limit <= pos' /\ limit < Len(doc')
  BY <1>1, <1>2, <1>3
<1>5. CASE Going
  <2>1. pos = limit
    BY <1>2, <1>3, <1>5 DEF Going
  <2>2. Read(doc', limit) = Read(doc, pos)
    BY <1>1, <2>1, SeenRead
  <2>3. Unfinished(Read(doc, pos))
    BY <1>5, GoingUnfinished DEF Standing
  <2>4. Read(doc, limit)' = Read(doc, pos)
    BY <2>2, ReadLimitPrimed
  <2> QED
    BY <1>4, <2>3, <2>4 DEF Past, Unfinished
<1>6. CASE Past
  <2>1. limit \in 0 .. Len(doc) /\ limit <= Len(doc') /\ \A i \in 1 .. limit : doc'[i] = doc[i]
    BY <1>2, <1>3, <1>6 DEF Past
  <2>2. Read(doc', limit) = Read(doc, limit)
    BY <1>2, <1>3, <2>1, ReadStays
  <2>3. Read(doc, limit)' = Read(doc, limit)
    BY <2>2, ReadLimitPrimed
  <2> QED
    BY <1>4, <1>6, <2>3 DEF Past, Unfinished
<1> QED
  BY <1>5, <1>6 DEF Standing

LEMMA AdvancesOn ==
  ASSUME TypeOK, limit' = limit, Standing, Advances,
         expect \in {"value", "first", "next", "colon", "sep"},
         expect \in {"first", "next", "sep"} => stack # <<>>
  PROVE  Standing'
<1>1. pos \in Nat /\ limit \in Nat
  BY Numbers
<1>2. Shaped'
  <2>1. ShapedAs(doc')
    BY ShapedOn DEF Advances, Looks, Standing
  <2> QED
    BY <2>1 DEF Shaped, ShapedAs, CutShort
<1>5. Rootless'
  BY DEF Rootless, Advances
<1>3. CASE pos < limit
  <2>1. Going
    BY <1>1, <1>3 DEF Standing, Past
  <2>2. Going'
    BY <1>3, <2>1, ConsumesOn DEF Advances
  <2> QED
    BY <1>2, <1>5, <2>2 DEF Standing, Advances
<1>4. CASE limit <= pos
  <2>1. Past'
    BY <1>4, LooksOn DEF Advances
  <2> QED
    BY <1>2, <1>5, <2>1 DEF Standing, Advances
<1> QED
  BY <1>1, <1>3, <1>4

-----------------------------------------------------------------------------
(* What has been built, and what has been refused. *)

\* A tree that has been built is what it was built from.
Understood == Own(pos) \in IF MeetsEnd THEN Beginnings ELSE Documents

\* The document d, of l tokens, is refused for a reason.
Cut(d, l, S) == l > 0 /\ l <= Len(d) /\ d[l] \in S
EndMet(d, l) == Len(d) > l \/ Cut(d, l, {"cut", "open quote", "open past"})
UpToEnd(d, l) == IF Len(d) <= l THEN Len(d) ELSE l
NoneIn(d, l) ==
  \/ Read(d, UpToEnd(d, l)) \notin IF EndMet(d, l) \/ Cut(d, l, {"last"})
                                   THEN Documents ELSE Beginnings
  \/ d = <<"last">>

NoDocument == NoneIn(doc, limit)

LEMMA ReadsJsonIs ==
  ReadsJson <=> /\ entity.root = "tree" => Understood
                /\ failed = "invalid" => NoDocument
BY DEF ReadsJson, Understood, NoDocument, NoneIn, Read, Own, MeetsEnd, EndsIn, EndMet, Cut, UpToEnd

\* At the end of the real run.
LEMMA BuiltUnderstood ==
  ASSUME TypeOK, Standing, expect = "root", stack = <<>>
  PROVE  Understood
<1>1. /\ pos \in Nat /\ limit \in Nat /\ limit <= MaxTokens /\ MaxTokens \in Nat
      /\ doc \in Seq(Tokens) /\ pos \in 0 .. Len(doc) /\ MaxDepth \in Nat
  BY Numbers, BoundsAssumption
<1>2. Own(pos) = Read(doc, IF pos <= limit THEN pos ELSE limit)
  BY DEF Own, Read
<1>3. CASE Going
  <2> DEFINE c == Read(doc, pos)
  <2>1. c \in Words /\ Len(c) = pos
    BY <1>1, ReadIs
  <2>2. Rest(expect, stack) = {<<>>}
    <3>1. Rest("root", <<>>) = Completions(<<>>)
      BY RestIs
    <3> QED
      BY <3>1, CompletionsNone
  <2>3. <<>> \in Words /\ c \o <<>> = c
    BY <2>1, ConcatEmptySeq DEF Words
  <2>4. c \in Value
    BY <1>3, <2>2, <2>3 DEF Going, Agrees
  <2>5. pos <= Longest
    <3>1. pos <= limit
      BY <1>3 DEF Going
    <3> QED
      BY <1>1, <3>1 DEF Longest
  <2>6. c \in Documents
    BY <2>1, <2>4, <2>5, DocumentsAre
  <2>7. c \in Beginnings
    BY <2>1, <2>6, DocumentsBegin
  <2>8. Own(pos) = c
    BY <1>2, <1>3 DEF Going
  <2> QED
    BY <2>6, <2>7, <2>8 DEF Understood
<1>4. CASE Past
  <2>1. limit < Len(doc) /\ limit <= pos /\ Read(doc, limit) \in Beginnings
    BY <1>4 DEF Past, Unfinished
  <2>2. MeetsEnd
    BY <1>1, <2>1 DEF MeetsEnd
  <2>3. Own(pos) = Read(doc, limit)
    <3>1. pos <= limit => pos = limit
      BY <1>1, <2>1
    <3> QED
      BY <1>2, <3>1
  <2> QED
    BY <2>1, <2>2, <2>3 DEF Understood
<1> QED
  BY <1>3, <1>4 DEF Standing

\* The reader has met the end of what is no document.
LEMMA NoneBehind ==
  ASSUME NEW d, NEW l \in Nat, Len(d) \in Nat, l < Len(d), Read(d, l) \notin Value
  PROVE  NoneIn(d, l)
<1>0. Len(d) > l /\ ~ (Len(d) <= l)
  OBVIOUS
<1>1. UpToEnd(d, l) = l /\ EndMet(d, l)
  BY <1>0 DEF UpToEnd, EndMet
<1>2. Read(d, l) \notin Documents
  BY DocumentsAre
<1> QED
  BY <1>1, <1>2 DEF NoneIn

\* The document ends in a number, and is none.
LEMMA NoneInLast ==
  ASSUME NEW d, NEW l \in Nat, Len(d) = l, l > 0, d[l] = "last", Read(d, l) \notin Value
  PROVE  NoneIn(d, l)
<1>1. UpToEnd(d, l) = l
  BY DEF UpToEnd
<1>2. Cut(d, l, {"last"})
  BY DEF Cut
<1>3. Read(d, l) \notin Documents
  BY DocumentsAre
<1> QED
  BY <1>1, <1>2, <1>3 DEF NoneIn

\* Nothing that begins with a mistake is a document, or begins one.
LEMMA NoneBehindMistake ==
  ASSUME NEW d \in Seq(Tokens), NEW l \in Nat, NEW p \in Nat, p <= Len(d), p <= l,
         \A r \in Words : Read(d, p) \o r \notin Value
  PROVE  NoneIn(d, l)
<1> DEFINE n == UpToEnd(d, l)
           c == Read(d, p)
           x == Read(d, n)
<1>1. Len(d) \in Nat /\ n \in Nat /\ p <= n /\ n <= Len(d) /\ n - p \in Nat
  BY DEF UpToEnd
<1>2. c \in Words /\ x \in Words
  <2>1. p \in 0 .. Len(d) /\ n \in 0 .. Len(d)
    BY <1>1
  <2> HIDE DEF n
  <2> QED
    BY <2>1, ReadIs
<1>3. PICK r \in Words : x = c \o r
  <2> HIDE DEF n
  <2>1. PICK m \in Nat : m = n - p
    BY <1>1
  <2>2. p + m = n /\ p + m <= Len(d)
    BY <1>1, <2>1
  <2>3. \E r \in Words : Read(d, p + m) = Read(d, p) \o r
    BY <2>2, ReadParts
  <2> QED
    BY <2>2, <2>3
<1> HIDE DEF x, c, n
<1>4. ASSUME NEW s \in Words PROVE x \o s \notin Value
  <2>1. PICK q : q = r \o s
    OBVIOUS
  <2>2. q \in Words
    BY <2>1, Joined
  <2>3. (c \o r) \o s = c \o q
    BY <1>2, <2>1, Regrouped
  <2>4. c \o q \notin Value
    BY <2>2 DEF c
  <2> QED
    BY <1>3, <2>3, <2>4
<1>5. x \notin Value
  <2>1. <<>> \in Words /\ x \o <<>> = x
    BY <1>2, ConcatEmptySeq DEF Words
  <2> QED
    BY <1>4, <2>1
<1>6. x \notin Documents
  BY <1>5, DocumentsAre
<1>7. x \notin Beginnings
  BY <1>2, <1>4, BeginningsAre
<1> QED
  BY <1>6, <1>7 DEF NoneIn, x, n

LEMMA NonePrimed ==
  ASSUME limit' = limit
  PROVE  NoDocument' <=> NoneIn(doc', limit)
BY DEF NoDocument, NoneIn, Read, Canonical, Strings, Cut, EndMet, UpToEnd

\* What the parser does not accept in the document has no place in the grammar.
LEMMA AcceptsPlaced ==
  ASSUME Inv, NEW t \in Tokens, t # "last", ~ Acceptable(t), pos < limit,
         expect \in {"value", "first", "next", "colon", "sep"}
  PROVE  Token(t) \notin Placed(expect, stack)
<1> DEFINE u == Token(t)
<1>1. /\ u = "text" <=> t \in Strings \cup {"text"}
      /\ u = "word" <=> t \in Literals
      /\ u \notin {"text", "word"} => u = t
  BY DEF Token, Strings, Literals
<1>2. expect \in {"first", "next", "sep"} => stack # <<>> /\ Top.kind \in Kinds
  BY TopTyped DEF Inv, Where, Frames
<1>3. Within(stack) = Top.kind
  BY DEF Within, Top, Depth
<1> HIDE DEF u
<1> DEFINE inside == pos < limit
<1>30. inside
  OBVIOUS
<1> HIDE DEF inside
<1>4. CASE expect = "value"
  <2>1. t \notin {"{", "["} /\ t \notin Strings /\ t \notin Literals
    BY <1>4 DEF Acceptable
  <2>2. u \notin {"word", "text", "[", "{"}
    BY <1>1, <2>1 DEF Strings
  <2> QED
    BY <1>4, <2>2 DEF Placed, u
<1>5. CASE expect \in {"first", "next"} /\ Top.kind = "array"
  <2>1. t \notin {"{", "[", "]"} /\ t \notin Strings /\ t \notin Literals
    BY <1>5 DEF Acceptable, Closing
  <2>2. u \notin {"word", "text", "[", "{", "]"}
    BY <1>1, <2>1 DEF Strings
  <2>3. AtWord(expect, stack)
    BY <1>2, <1>3, <1>5 DEF AtWord
  <2> QED
    BY <1>5, <2>2, <2>3 DEF Placed, u
<1>6. CASE expect \in {"first", "next"} /\ Top.kind = "object"
  <2>1. t # "}" /\ t \notin Strings
    BY <1>6 DEF Acceptable, Closing
  <2>2. u \notin {"text", "}"}
    BY <1>1, <2>1 DEF Strings
  <2>3. ~ AtWord(expect, stack)
    BY <1>3, <1>6 DEF AtWord
  <2> QED
    BY <1>6, <2>2, <2>3 DEF Placed, u
<1>7. CASE expect = "colon"
  <2>1. t # ":"
    BY <1>7 DEF Acceptable
  <2>2. u # ":"
    BY <1>1, <2>1
  <2>3. ~ AtWord(expect, stack)
    BY <1>7 DEF AtWord
  <2> QED
    BY <1>7, <2>2, <2>3 DEF Placed, u
<1>8. CASE expect = "sep"
  <2>1. t # "," /\ t # Closing(Top.kind)
    BY <1>8 DEF Acceptable
  <2>2. Closing(Top.kind) \notin {"text", "word"}
    BY DEF Closing
  <2>3. u # "," /\ u # Closing(Top.kind)
    BY <1>1, <2>1, <2>2
  <2>4. ~ AtWord(expect, stack)
    BY <1>8 DEF AtWord
  <2> QED
    BY <1>3, <1>8, <2>3, <2>4 DEF Placed, u
<1> QED
  BY <1>2, <1>4, <1>5, <1>6, <1>7, <1>8 DEF Kinds

\* A container is not complete behind one more element.
LEMMA WordUnfinished ==
  ASSUME NEW s \in Seq(Frames), s # <<>>, NEW e \in {"value", "first", "next", "colon", "sep"},
         NEW c \in Words, Agrees(c, Rest(e, s))
  PROVE  c \o <<"word">> \notin Value
<1>0. PICK t \in Tokens : t = "word"
  BY Punctuation
<1>1. <<>> \in Words /\ c \o <<t>> \in Words
  BY OneToken, Joined DEF Words
<1>2. (c \o <<t>>) \o <<>> = c \o <<t>>
  BY <1>1, ConcatEmptySeq DEF Words
<1>3. CASE AtWord(e, s)
  <2>1. Follows(Rest(e, s), t, Rest("sep", s))
    BY <1>0, <1>3, WordFollows
  <2>2. Agrees(c \o <<t>>, Rest("sep", s))
    BY <2>1, AgreesOn
  <2> QED
    BY <1>0, <1>1, <2>2, AgreesInside
<1>4. CASE ~ AtWord(e, s)
  <2>1. t \notin Placed(e, s)
    <3>1. Within(s) \in Kinds
      BY AroundTyped
    <3>2. Closing(Within(s)) # "word"
      BY DEF Closing
    <3>3. e # "value"
      BY <1>4 DEF AtWord
    <3> QED
      BY <1>0, <1>4, <3>2, <3>3 DEF Placed
  <2>2. Misplaced(Rest(e, s), t)
    BY <2>1, PlacedOnly
  <2>3. (c \o <<t>>) \o <<>> \notin Value
    BY <1>1, <2>2, AgreesNoMore
  <2> QED
    BY <1>0, <1>2, <2>3
<1> QED
  BY <1>3, <1>4

\* What is refused in either run is no document, and does not begin like one unless it
\* has ended, with the exception of a number on its own.
LEMMA RefusedIsNone ==
  ASSUME Inv, Standing, Reject, expect # "unwind"
  PROVE  NoDocument'
<1>1. PICK t \in Tokens : ~ Acceptable(t) /\ Sees(t)
  BY DEF Reject
<1>2. /\ limit' = limit
      /\ expect \in {"value", "first", "next", "colon", "sep"}
  BY DEF Reject, Inv, TypeOK
<1>3. /\ pos \in Nat /\ limit \in Nat /\ pos < Len(doc') /\ Len(doc) \in Nat /\ Len(doc') \in Nat
      /\ doc' \in Seq(Tokens) /\ Len(doc) <= Len(doc')
      /\ \A i \in 1 .. Len(doc) : doc'[i] = doc[i]
      /\ TypeOK /\ doc \in Seq(Tokens) /\ stack \in Seq(Frames)
  BY <1>1, SeenToken, Numbers DEF Inv
<1>4. expect \in {"first", "next", "colon", "sep"} => stack # <<>>
  BY DEF Inv, Where
<1>5. /\ Read(doc, pos) \in Words /\ Read(doc', pos) = Read(doc, pos)
      /\ Read(doc', pos + 1) = Read(doc, pos) \o <<Token(t)>>
  BY <1>1, <1>3, SeenRead
<1>6. SUFFICES NoneIn(doc', limit)
  BY <1>2, NonePrimed
<1>7. CASE Past
  <2>1. limit < Len(doc) /\ Read(doc, limit) \notin Value
    BY <1>7 DEF Past, Unfinished
  <2>2. limit \in 0 .. Len(doc) /\ limit <= Len(doc') /\ \A i \in 1 .. limit : doc'[i] = doc[i]
    BY <1>3, <2>1
  <2>3. Read(doc', limit) = Read(doc, limit)
    BY <1>3, <2>2, ReadStays
  <2>4. limit < Len(doc')
    BY <1>3, <2>1
  <2> QED
    BY <1>3, <2>1, <2>3, <2>4, NoneBehind
<1>8. CASE Going /\ pos = limit
  <2>1. Read(doc, pos) \notin Value
    BY <1>2, <1>3, <1>4, <1>8, GoingUnfinished DEF Standing, Unfinished
  <2>2. Read(doc', limit) \notin Value /\ limit < Len(doc')
    BY <1>3, <1>5, <1>8, <2>1
  <2> QED
    BY <1>3, <2>2, NoneBehind
<1>9. CASE Going /\ pos < limit /\ t # "last"
  <2>1. Token(t) \notin Placed(expect, stack)
    BY <1>1, <1>2, <1>9, AcceptsPlaced
  <2>2. Misplaced(Rest(expect, stack), Token(t))
    BY <1>2, <1>3, <1>4, <2>1, TokenTyped, PlacedOnly
  <2>3. Agrees(Read(doc, pos), Rest(expect, stack))
    BY <1>9 DEF Going
  <2>4. ASSUME NEW r \in Words PROVE Read(doc', pos + 1) \o r \notin Value
    BY <1>5, <2>2, <2>3, TokenTyped, AgreesNoMore
  <2>5. PICK p \in Nat : p = pos + 1
    BY <1>3
  <2>6. p <= Len(doc') /\ p <= limit
    BY <1>3, <1>9, <2>5
  <2> QED
    BY <1>3, <2>4, <2>5, <2>6, NoneBehindMistake
<1>10. CASE Going /\ t = "last"
  <2>1. pos = Len(doc) /\ doc' = Append(doc, "last") /\ pos + 1 = limit
    BY <1>1, <1>3, <1>10, LastInside DEF Standing
  <2>2. Len(doc') = limit /\ limit > 0 /\ doc'[limit] = "last"
    <3> DEFINE d == Append(doc, t)
    <3>1. Len(d) = Len(doc) + 1 /\ d[Len(doc) + 1] = t
      BY <1>3
    <3> HIDE DEF d
    <3>2. doc' = d
      BY <1>10, <2>1 DEF d
    <3>3. Len(doc) + 1 = limit
      BY <2>1
    <3> QED
      BY <1>3, <1>10, <3>1, <3>2, <3>3
  <2>3. CASE stack # <<>>
    <3>1. Read(doc, pos) \o <<"word">> \notin Value
      BY <1>2, <1>3, <1>5, <1>10, <2>3, WordUnfinished DEF Going
    <3>2. Token(t) = "word"
      BY <1>10 DEF Token, Strings
    <3>3. Read(doc', limit) \notin Value
      BY <1>5, <2>1, <3>1, <3>2
    <3> QED
      BY <1>3, <2>2, <3>3, NoneInLast
  <2>4. CASE stack = <<>>
    <3>1. pos = 0
      BY <1>2, <1>4, <2>4 DEF Standing, Rootless
    <3>2. doc = <<>>
      <4>1. doc \in Seq(Tokens) /\ Len(doc) = 0
        BY <1>3, <2>1, <3>1
      <4> QED
        BY <4>1
    <3>3. doc' = <<"last">>
      BY <2>1, <3>2
    <3> QED
      BY <3>3 DEF NoneIn
  <2> QED
    BY <2>3, <2>4
<1> QED
  <2>1. Going => pos = limit \/ pos < limit \/ t = "last"
    BY <1>3 DEF Going
  <2> QED
    BY <1>7, <1>8, <1>9, <1>10, <2>1 DEF Standing

-----------------------------------------------------------------------------
(* The functions of the parser, one by one. *)

\* Making room for an element leaves the containers as they are.
LEMMA GrownKinds ==
  ASSUME TypeOK, stack # <<>>
  PROVE  GrownStack \in Seq(Frames) /\ SameKinds(stack, GrownStack)
<1>0. /\ stack \in Seq(Frames) /\ Depth \in Nat \ {0} /\ Depth = Len(stack)
      /\ Top \in Frames /\ Top = stack[Depth]
  BY TopTyped DEF Depth, Top
<1>1. Grown(Top) \in Frames /\ Grown(Top).kind = Top.kind
  BY <1>0, GrownTyped
<1>2. /\ GrownStack \in Seq(Frames) /\ Len(GrownStack) = Depth
      /\ \A i \in 1 .. Depth : GrownStack[i] = IF i = Depth THEN Grown(Top) ELSE stack[i]
  BY <1>0, <1>1 DEF GrownStack
<1>3. ASSUME NEW i \in 1 .. Depth PROVE GrownStack[i].kind = stack[i].kind
  BY <1>0, <1>1, <1>2
<1> QED
  BY <1>0, <1>2, <1>3 DEF SameKinds

LEMMA ForValueKinds ==
  ASSUME Inv, AtValue
  PROVE  /\ ForValue \in Seq(Frames) /\ SameKinds(stack, ForValue)
         /\ AtWord(expect, stack) /\ AtWord(expect, ForValue)
         /\ Rest(expect, stack) = Rest(expect, ForValue)
<1>1. TypeOK /\ stack \in Seq(Frames)
  BY DEF Inv, TypeOK
<1>2. AtWord(expect, stack)
  BY DEF AtWord, AtValue, Within, Top, Depth, Inv, Where
<1>3. ForValue \in Seq(Frames) /\ SameKinds(stack, ForValue)
  <2>1. CASE expect = "value"
    BY <1>1, <2>1 DEF ForValue, SameKinds
  <2>2. CASE expect # "value"
    <3>1. stack # <<>>
      BY <2>2 DEF AtValue, Inv, Where
    <3> QED
      BY <1>1, <2>2, <3>1, GrownKinds DEF ForValue
  <2> QED
    BY <2>1, <2>2
<1>4. expect \in {"first", "next"} => stack # <<>>
  BY DEF Inv, Where
<1>5. Rest(expect, ForValue) = Rest(expect, stack)
  BY <1>1, <1>3, <1>4, RestSame
<1>6. AtWord(expect, ForValue)
  <2>1. CASE expect = "value"
    BY <2>1 DEF AtWord
  <2>2. CASE expect # "value"
    <3>1. stack # <<>> /\ Within(stack) = "array" /\ expect \in {"first", "next"}
      BY <1>2, <2>2 DEF AtWord
    <3>2. Len(stack) \in 1 .. Len(stack)
      BY <1>1, <3>1
    <3>3. Within(ForValue) = Within(stack) /\ ForValue # <<>>
      BY <1>3, <3>1, <3>2 DEF SameKinds, Within
    <3> QED
      BY <3>1, <3>3 DEF AtWord
  <2> QED
    BY <2>1, <2>2
<1> QED
  BY <1>2, <1>3, <1>5, <1>6

\* Completing a value leaves the containers as they are.
LEMMA CompletesKinds ==
  ASSUME NEW s \in Seq(Frames), Completes(s)
  PROVE  /\ expect' \in {"sep", "root"} /\ SameKinds(s, stack') /\ Len(stack') = Len(s)
         /\ Rest(expect', stack') = Rest(expect', s)
<1>1. expect' \in {"sep", "root"} /\ SameKinds(s, stack') /\ Len(stack') = Len(s)
  <2>1. CASE s = <<>>
    BY <2>1 DEF Completes, SameKinds
  <2>2. CASE s # <<>>
    <3> DEFINE d == Len(s)
               f == [s[d] EXCEPT !.count = @ + 1]
    <3>1. d \in Nat \ {0} /\ s[d] \in Frames /\ d \in 1 .. d
      BY <2>2
    <3>2. f.kind = s[d].kind
      BY <3>1 DEF Frames
    <3>3. expect' = "sep" /\ stack' = [s EXCEPT ![d] = f]
      BY <2>2 DEF Completes
    <3> HIDE DEF f
    <3>4. Len(stack') = d /\ \A i \in 1 .. d : stack'[i] = IF i = d THEN f ELSE s[i]
      BY <3>1, <3>3
    <3>5. ASSUME NEW i \in 1 .. d PROVE stack'[i].kind = s[i].kind
      BY <3>2, <3>4
    <3> QED
      BY <3>3, <3>4, <3>5 DEF SameKinds
  <2> QED
    BY <2>1, <2>2
<1>2. Rest(expect', stack') = Rest(expect', s)
  <2>1. Completions(stack') = Completions(s)
    BY <1>1, CompletionsSame DEF SameKinds
  <2> QED
    BY <1>1, <2>1, RestIs
<1> QED
  BY <1>1, <1>2

\* What a step of the parser has to be.
Known == Inv /\ Inv' /\ Running /\ Standing

LEMMA TakesLooks ==
  ASSUME NEW t \in Tokens, t # "last", Takes(t)
  PROVE  Looks
BY DEF Takes, Looks

LEMMA WordGrows ==
  ASSUME Known, AtValue, NEW t \in Literals \cup Strings, Takes(t), Completes(ForValue)
  PROVE  Advances
<1>1. /\ ForValue \in Seq(Frames) /\ SameKinds(stack, ForValue)
      /\ AtWord(expect, ForValue) /\ Rest(expect, stack) = Rest(expect, ForValue)
  BY ForValueKinds DEF Known
<1>2. /\ expect' \in {"sep", "root"} /\ Len(stack') = Len(ForValue)
      /\ Rest(expect', stack') = Rest(expect', ForValue)
  BY <1>1, CompletesKinds
<1>3. t \in Tokens /\ Token(t) \in {"word", "text"} /\ t # "last"
  BY DEF Token, Tokens, Strings, Literals
<1>4. Follows(Rest(expect, ForValue), Token(t), Rest(expect', ForValue))
  BY <1>1, <1>2, <1>3, WordFollows
<1>5. Depth' <= MaxDepth
  BY <1>1, <1>2 DEF SameKinds, Depth, Known, Standing
<1>6. Looks
  BY <1>3, TakesLooks
<1>7. Consumes
  BY <1>1, <1>2, <1>3, <1>4 DEF Consumes
<1> QED
  BY <1>2, <1>5, <1>6, <1>7 DEF Advances

LEMMA WordGoes ==
  ASSUME Known, Word \/ Text
  PROVE  Advances
<1>1. CASE Word
  BY <1>1, WordGrows DEF Word
<1>2. CASE Text
  BY <1>2, WordGrows DEF Text
<1> QED
  BY <1>1, <1>2

LEMMA OpenGoes ==
  ASSUME Known, Open
  PROVE  Advances
<1>1. PICK k \in Kinds :
        /\ Takes(IF k = "object" THEN "{" ELSE "[")
        /\ stack' = Append(ForValue, [kind |-> k, count |-> 0, cap |-> 0, size |-> 0])
  BY DEF Open
<1>2. AtValue /\ Depth < MaxDepth /\ expect' = "first"
  BY DEF Open
<1>3. /\ ForValue \in Seq(Frames) /\ SameKinds(stack, ForValue)
      /\ AtWord(expect, ForValue) /\ Rest(expect, stack) = Rest(expect, ForValue)
  BY <1>2, ForValueKinds DEF Known
<1>4. PICK g : g = [kind |-> k, count |-> 0, cap |-> 0, size |-> 0]
  OBVIOUS
<1>5. g \in Frames /\ g.kind = k
  BY <1>4 DEF Frames
<1>6. stack' = Append(ForValue, g)
  BY <1>1, <1>4
<1>7. Follows(Rest(expect, ForValue), Opening(g.kind), Rest("first", Append(ForValue, g)))
  BY <1>3, <1>5, OpenFollows
<1>8. PICK t : t = Opening(k)
  OBVIOUS
<1>9. t \in Tokens /\ Takes(t) /\ t # "last" /\ Token(t) = t
  <2>1. t = IF k = "object" THEN "{" ELSE "["
    BY <1>8 DEF Opening
  <2>2. t \in {"{", "["} /\ Takes(t)
    BY <1>1, <2>1
  <2> QED
    BY <2>2 DEF Tokens, Token, Strings
<1>10. Follows(Rest(expect, stack), Token(t), Rest(expect', stack'))
  BY <1>2, <1>3, <1>5, <1>6, <1>7, <1>8, <1>9
<1>11. Depth' <= MaxDepth
  <2> DEFINE n == Len(ForValue)
  <2>1. Len(stack') = n + 1 /\ n \in Nat
    BY <1>3, <1>6
  <2>2. n = Depth
    BY <1>3 DEF SameKinds, Depth
  <2> HIDE DEF n
  <2>3. n + 1 <= MaxDepth
    BY <1>2, <2>1, <2>2, BoundsAssumption
  <2> QED
    BY <2>1, <2>3 DEF Depth
<1> QED
  <2>1. Looks
    BY <1>9, TakesLooks
  <2>2. Consumes
    BY <1>9, <1>10 DEF Consumes
  <2> QED
    BY <1>2, <1>11, <2>1, <2>2 DEF Advances

\* Closing the innermost container.
LEMMA OuterCompletes ==
  ASSUME Known, stack # <<>>, expect \in {"first", "next", "sep"},
         Completes(SubSeq(stack, 1, Depth - 1))
  PROVE  /\ Follows(Rest(expect, stack), Closing(Top.kind), Rest(expect', stack'))
         /\ expect' \in {"sep", "root"} /\ Depth' = Depth - 1 /\ Depth' <= MaxDepth
         /\ Closing(Top.kind) \in {"]", "}"}
<1>1. stack \in Seq(Frames)
  BY DEF Known, Inv, TypeOK
<1>2. /\ Within(stack) \in Kinds /\ Around(stack) \in Seq(Frames)
      /\ Len(stack) \in Nat \ {0} /\ Len(Around(stack)) = Len(stack) - 1
  BY <1>1, AroundTyped
<1>3. Around(stack) = SubSeq(stack, 1, Depth - 1) /\ Within(stack) = Top.kind
  BY DEF Around, Within, Top, Depth
<1>4. /\ expect' \in {"sep", "root"} /\ Len(stack') = Len(Around(stack))
      /\ Rest(expect', stack') = Rest(expect', Around(stack))
  BY <1>2, <1>3, CompletesKinds
<1>5. Follows(Rest(expect, stack), Closing(Within(stack)), Rest(expect', Around(stack)))
  BY <1>1, <1>4, CloseFollows
<1>6. Depth' = Depth - 1
  BY <1>2, <1>4 DEF Depth
<1>7. Depth' <= MaxDepth
  BY <1>2, <1>6, BoundsAssumption DEF Known, Standing, Depth
<1>8. Closing(Within(stack)) \in {"]", "}"}
  BY <1>2 DEF Closing
<1> QED
  BY <1>3, <1>4, <1>5, <1>6, <1>7, <1>8

LEMMA ClosingGoes ==
  ASSUME Known, stack # <<>>, expect \in {"first", "next", "sep"},
         Completes(SubSeq(stack, 1, Depth - 1)), SeesClosing(Closing(Top.kind))
  PROVE  Advances
<1> DEFINE t == Closing(Top.kind)
<1>1. /\ Follows(Rest(expect, stack), t, Rest(expect', stack'))
      /\ expect' \in {"sep", "root"} /\ Depth' <= MaxDepth /\ t \in {"]", "}"}
  BY OuterCompletes
<1>2. t \in Tokens /\ t # "last" /\ Token(t) = t
  BY <1>1 DEF Tokens, Token, Strings
<1>3. pos \in Nat /\ limit \in Nat
  BY Numbers DEF Known, Inv
<1> HIDE DEF t
<1>4. CASE ~ AtEnd
  <2>1. Takes(t)
    BY <1>4 DEF SeesClosing, t
  <2>2. Looks
    BY <1>2, <2>1, TakesLooks
  <2>3. Consumes
    BY <1>1, <1>2, <2>1 DEF Consumes
  <2> QED
    BY <1>1, <2>2, <2>3 DEF Advances
<1>5. CASE AtEnd
  <2>1. Sees(t) /\ pos' = pos
    BY <1>5 DEF SeesClosing, t
  <2>2. Looks
    BY <1>2, <2>1 DEF Looks
  <2>3. ~ (pos < limit)
    <3>1. pos = limit
      BY <1>5 DEF AtEnd
    <3> QED
      BY <1>3, <3>1
  <2> QED
    BY <1>1, <2>2, <2>3 DEF Advances
<1> QED
  BY <1>4, <1>5

LEMMA EmptyArrayGoes ==
  ASSUME Known, EmptyArray
  PROVE  Advances
<1>1. Closing(Top.kind) = "]" /\ expect = "first" /\ stack # <<>>
  BY DEF EmptyArray, Closing, Known, Inv, Where
<1> QED
  BY <1>1, ClosingGoes DEF EmptyArray

LEMMA EmptyObjectGoes ==
  ASSUME Known, EmptyObject, fault' # "frame"
  PROVE  Advances
<1>1. Closing(Top.kind) = "}" /\ expect = "first" /\ stack # <<>>
  BY DEF EmptyObject, Closing, Known, Inv, Where
<1>2. Completes(SubSeq(stack, 1, Depth - 1)) /\ SeesClosing("}")
  BY DEF EmptyObject
<1> QED
  BY <1>1, <1>2, ClosingGoes

LEMMA CloseGoes ==
  ASSUME Known, Close
  PROVE  Advances
<1>1. /\ expect \in {"next", "sep"} /\ stack # <<>>
      /\ Completes(SubSeq(stack, 1, Depth - 1)) /\ Ends
  BY DEF Close, Known, Inv, Where
<1>2. expect' \in {"sep", "root"} /\ Depth' <= MaxDepth
  BY <1>1, OuterCompletes
<1>3. pos \in Nat /\ limit \in Nat /\ TypeOK /\ Shaped
  BY Numbers DEF Known, Inv, Standing
<1>4. CASE SeesClosing(Closing(Top.kind))
  BY <1>1, <1>4, ClosingGoes
<1>5. CASE pos >= limit /\ Takes(",")
  <2>1. "," \in Tokens /\ "," # "last"
    BY Punctuation
  <2>2. Looks
    BY <1>5, <2>1, TakesLooks
  <2>3. ~ (pos < limit)
    <3>1. pos >= limit
      BY <1>5
    <3>2. pos \in Nat /\ limit \in Nat
      BY <1>3
    <3> QED
      BY ONLY <3>1, <3>2
  <2> QED
    BY <1>2, <2>2, <2>3 DEF Advances
<1>6. CASE pos = limit /\ (\E t \in Tokens : Sees(t)) /\ UNCHANGED pos
  <2>1. PICK t \in Tokens : Sees(t)
    BY <1>6
  <2>2. t # "last"
    <3>1. pos + 1 # limit
      BY <1>3, <1>6
    <3> QED
      BY <1>3, <2>1, <3>1, LastInside
  <2>3. Looks
    BY <1>6, <2>1, <2>2 DEF Looks
  <2>4. ~ (pos < limit)
    BY <1>3, <1>6
  <2> QED
    BY <1>2, <2>3, <2>4 DEF Advances
<1> QED
  BY <1>1, <1>4, <1>5, <1>6 DEF Ends

LEMMA KeyGoes ==
  ASSUME Known, Key
  PROVE  Advances
<1>1. PICK t \in Strings : Takes(t)
  BY DEF Key
<1>2. t \in Tokens /\ Token(t) = "text" /\ t # "last"
  BY StringSizeNat DEF Token, Strings
<1>3. expect \in {"first", "next"} /\ stack # <<>> /\ Within(stack) = "object"
      /\ expect' = "colon" /\ stack' = GrownStack
  BY DEF Key, AtMember, Known, Inv, Where, Within, Top, Depth
<1>4. stack \in Seq(Frames) /\ GrownStack \in Seq(Frames) /\ SameKinds(stack, GrownStack)
  BY <1>3, GrownKinds DEF Known, Inv, TypeOK
<1>5. Rest("colon", GrownStack) = Rest("colon", stack)
  BY <1>3, <1>4, RestSame
<1>6. Follows(Rest(expect, stack), "text", Rest("colon", stack))
  BY <1>3, <1>4, KeyFollows
<1>7. Depth' <= MaxDepth
  BY <1>3, <1>4 DEF SameKinds, Depth, Known, Standing
<1> QED
  <2>1. Looks
    BY <1>1, <1>2, TakesLooks
  <2>2. Consumes
    BY <1>1, <1>2, <1>3, <1>5, <1>6 DEF Consumes
  <2> QED
    BY <1>3, <1>7, <2>1, <2>2 DEF Advances

LEMMA PunctuationGoes ==
  ASSUME Known, Colon \/ Comma
  PROVE  Advances
<1>1. stack \in Seq(Frames) /\ stack' = stack /\ stack # <<>>
  BY DEF Colon, Comma, Known, Inv, TypeOK, Where
<1>2. Depth' <= MaxDepth
  BY <1>1 DEF Depth, Known, Standing
<1>3. ASSUME NEW t \in {":", ","}, Takes(t), Follows(Rest(expect, stack), t, Rest(expect', stack))
      PROVE  Advances
  <2>1. t \in Tokens /\ Token(t) = t /\ t # "last"
    BY DEF Tokens, Token, Strings
  <2>2. Looks
    BY <1>3, <2>1, TakesLooks
  <2>3. Consumes
    BY <1>1, <1>3, <2>1 DEF Consumes
  <2> QED
    BY <1>1, <1>2, <2>2, <2>3 DEF Advances
<1>4. CASE Colon
  <2>1. expect = "colon" /\ Takes(":") /\ expect' = "value"
    BY <1>4 DEF Colon
  <2>2. Follows(Rest("colon", stack), ":", Rest("value", stack))
    BY <1>1, PunctuationFollows
  <2> QED
    BY <1>3, <2>1, <2>2
<1>5. CASE Comma
  <2>1. expect = "sep" /\ Takes(",") /\ expect' = "next"
    BY <1>5 DEF Comma
  <2>2. Follows(Rest("sep", stack), ",", Rest("next", stack))
    BY <1>1, PunctuationFollows
  <2> QED
    BY <1>3, <2>1, <2>2
<1> QED
  BY <1>4, <1>5

LEMMA ParseGoes ==
  ASSUME Known, Parse, fault' # "frame"
  PROVE  Standing'
<1>1. Advances
  BY WordGoes, OpenGoes, EmptyArrayGoes, EmptyObjectGoes, KeyGoes, PunctuationGoes, CloseGoes
     DEF Parse
<1>2. /\ limit' = limit
      /\ expect \in {"value", "first", "next", "colon", "sep"}
  BY DEF Parse, Word, Text, Open, EmptyArray, EmptyObject, Key, Colon, Comma, Close, still,
         AtValue, AtMember
<1>3. TypeOK /\ (expect \in {"first", "next", "sep"} => stack # <<>>)
  BY DEF Known, Inv, Where
<1> QED
  BY <1>1, <1>2, <1>3, AdvancesOn DEF Known

-----------------------------------------------------------------------------
\* What is known of a run as long as it goes on, and of what it has returned.
Grammatical ==
  /\ failed = "no" /\ fault = "none" /\ phase \in {"dry", "real"} => Standing
  /\ ReadsJson

\* Nothing has been read yet: the grammar lets every document come.
LEMMA NothingRead ==
  ASSUME NEW d \in Seq(Tokens)
  PROVE  Read(d, 0) = <<>> /\ Agrees(<<>>, Rest("value", <<>>))
<1>1. Read(d, 0) = <<>>
  <2>1. Read(d, 0) \in Seq(Tokens) /\ Len(Read(d, 0)) = 0
    BY ReadIs DEF Words
  <2> QED
    BY <2>1
<1>2. Rest("value", <<>>) = Value
  <2>1. Value \in SUBSET Words
    BY SetsTyped DEF Kinds
  <2>2. Joins(Value, {<<>>}) = Value
    BY <2>1, EmptyJoined
  <2> QED
    BY <2>2, CompletionsNone, RestIs
<1>3. ASSUME NEW r \in Words PROVE <<>> \o r = r
  BY ConcatEmptySeq DEF Words
<1>4. Agrees(<<>>, Value)
  BY <1>3 DEF Agrees
<1> QED
  BY <1>1, <1>2, <1>4

\* At the beginning of the dry run, and of the real one.
LEMMA BeginsStanding ==
  ASSUME TypeOK, Shaped, pos = 0, expect = "value", stack = <<>>
  PROVE  Standing
<1>1. limit \in Nat /\ doc \in Seq(Tokens)
  BY Numbers
<1>2. Going
  BY <1>1, NothingRead DEF Going
<1>3. Depth <= MaxDepth
  BY BoundsAssumption DEF Depth
<1> QED
  BY <1>2, <1>3 DEF Standing, Rootless

LEMMA BeginsStandingPrimed ==
  ASSUME TypeOK', Shaped', pos' = 0, expect' = "value", stack' = <<>>
  PROVE  Standing'
<1>1. limit' \in Nat /\ doc' \in Seq(Tokens)
  BY BoundsAssumption DEF TypeOK
<1>2. Read(doc, pos)' = Read(doc', 0)
  BY ReadPrimed
<1>3. Going'
  BY <1>1, <1>2, NothingRead DEF Going
<1>4. (Depth <= MaxDepth)'
  BY BoundsAssumption DEF Depth
<1> QED
  BY <1>3, <1>4 DEF Standing, Rootless

LEMMA InitGrammatical == Init => Grammatical
<1> SUFFICES ASSUME Init PROVE Grammatical
  OBVIOUS
<1>1. doc = <<>> /\ pos = 0 /\ expect = "value" /\ stack = <<>> /\ TypeOK
  BY InitInv DEF Init, Inv
<1>2. Shaped
  <2>1. Len(doc) = 0
    BY <1>1
  <2> QED
    BY <2>1 DEF Shaped, ShapedAs
<1>3. Standing
  BY <1>1, <1>2, BeginsStanding
<1>4. ReadsJson
  BY ReadsJsonIs DEF Init, Zero
<1> QED
  BY <1>3, <1>4 DEF Grammatical

LEMMA NothingReturned ==
  ASSUME entity'.root # "tree", failed' # "invalid"
  PROVE  ReadsJson'
BY DEF ReadsJson

LEMMA ReturnedIs ==
  ReadsJson' <=> /\ entity'.root = "tree" => Understood'
                 /\ failed' = "invalid" => NoDocument'
BY DEF ReadsJson, Understood, NoDocument, NoneIn, Read, Own, MeetsEnd, EndsIn, EndMet, Cut, UpToEnd

LEMMA UnderstoodStays ==
  ASSUME UNCHANGED <<doc, pos, limit>>
  PROVE  Understood' <=> Understood
BY DEF Understood, Own, MeetsEnd, EndsIn, Canonical, Strings

\* What has been returned stays what it is.
LEMMA ReturnedStays ==
  ASSUME ReadsJson, UNCHANGED <<doc, pos, limit, failed>>,
         entity'.root = "tree" => entity.root = "tree"
  PROVE  ReadsJson'
<1>1. Understood' <=> Understood
  BY UnderstoodStays
<1>2. NoDocument' <=> NoDocument
  BY NonePrimed DEF NoDocument
<1> QED
  BY <1>1, <1>2, ReadsJsonIs, ReturnedIs

LEMMA ParseGrammatical ==
  ASSUME Inv, Inv', Grammatical, Parse
  PROVE  Grammatical'
<1>1. Running /\ UNCHANGED still
  BY DEF Parse, Word, Text, Open, EmptyArray, EmptyObject, Key, Colon, Comma, Close
<1>2. /\ failed' = "no" /\ entity' = Zero /\ phase' = phase
  BY <1>1 DEF Running, still, Inv, Phases
<1>3. ReadsJson'
  BY <1>2, NothingReturned DEF Zero
<1>4. Standing
  BY <1>1 DEF Running, Grammatical
<1>5. fault' = "none" => Standing'
  BY <1>1, <1>4, ParseGoes DEF Known
<1> QED
  BY <1>3, <1>5 DEF Grammatical

LEMMA FailGrammatical ==
  ASSUME Inv, Replay, Grammatical, Reject \/ Refuse
  PROVE  Grammatical'
<1>1. Running /\ failed' # "no" /\ entity' = entity
  BY DEF Reject, Refuse
<1>2. entity'.root # "tree"
  BY <1>1 DEF Running, Inv, Phases, Zero
<1>3. Standing /\ expect # "unwind"
  BY <1>1 DEF Running, Grammatical, Replay
<1>4. failed' = "invalid" => NoDocument'
  <2>1. CASE Reject
    BY <1>3, <2>1, RefusedIsNone
  <2>2. CASE Refuse
    BY <2>2 DEF Refuse
  <2> QED
    BY <2>1, <2>2
<1> QED
  BY <1>1, <1>2, <1>4, ReturnedIs DEF Grammatical

LEMMA RunsGrammatical ==
  ASSUME Inv, Inv', Replay, Grammatical,
         Unwind \/ GiveUp \/ Measured \/ MeasuredInVain \/ Built \/ fpx_json_destroy
  PROVE  Grammatical'
<1>0. UNCHANGED <<doc, limit, failed, fault>>
  BY DEF Unwind, GiveUp, Measured, MeasuredInVain, Built, fpx_json_destroy, run
<1>1. CASE Unwind \/ GiveUp
  <2>1. /\ failed' # "no" /\ entity' = entity /\ pos' = pos
    BY <1>0, <1>1 DEF Unwind, GiveUp, run, Replay
  <2> QED
    BY <1>0, <2>1, ReturnedStays DEF Grammatical
<1>2. CASE Measured
  <2>1. /\ Finished /\ phase = "dry" /\ pos' = 0 /\ expect' = "value" /\ stack' = stack
        /\ entity' = entity
    BY <1>2 DEF Measured
  <2>2. /\ failed = "no" /\ fault = "none" /\ stack = <<>> /\ entity = Zero
    BY <2>1 DEF Finished, Replay, Inv, Where, Phases
  <2>3. Shaped'
    BY <1>0, <2>1, <2>2 DEF Grammatical, Standing, Shaped, ShapedAs
  <2>4. Standing'
    BY <2>1, <2>2, <2>3, BeginsStandingPrimed DEF Inv
  <2>5. ReadsJson'
    BY <1>0, <2>1, <2>2, NothingReturned DEF Zero
  <2> QED
    BY <2>4, <2>5 DEF Grammatical
<1>3. CASE MeasuredInVain
  <2>1. phase' = "done" /\ entity'.root = "sizes" /\ Finished
    BY <1>3 DEF MeasuredInVain
  <2>2. failed' = "no"
    BY <1>0, <2>1 DEF Finished, Replay
  <2>3. ReadsJson'
    BY <2>1, <2>2, NothingReturned
  <2> QED
    BY <2>1, <2>3 DEF Grammatical
<1>4. CASE Built
  <2>1. phase' = "done" /\ Finished /\ phase = "real" /\ pos' = pos
    BY <1>4 DEF Built, run
  <2>2. /\ failed = "no" /\ fault = "none" /\ expect = "root" /\ stack = <<>> /\ TypeOK
    BY <2>1 DEF Finished, Replay, Inv, Where
  <2>3. Understood
    BY <2>1, <2>2, BuiltUnderstood DEF Grammatical
  <2>4. Understood'
    BY <1>0, <2>1, <2>3, UnderstoodStays
  <2> QED
    BY <1>0, <2>1, <2>2, <2>4, ReturnedIs DEF Grammatical
<1>5. CASE fpx_json_destroy
  <2>1. phase' = "destroyed" /\ pos' = pos /\ entity'.root # "tree"
    BY <1>5 DEF fpx_json_destroy, run, Zero
  <2> QED
    BY <1>0, <2>1, ReturnedStays DEF Grammatical
<1> QED
  BY <1>1, <1>2, <1>3, <1>4, <1>5

LEMMA StandsGrammatical ==
  ASSUME Grammatical, UNCHANGED vars
  PROVE  Grammatical'
<1>1. UNCHANGED <<doc, limit, phase, pos, expect, stack, failed, entity, fault>>
  BY DEF vars, run
<1>2. ReadsJson'
  BY <1>1, ReturnedStays DEF Grammatical
<1>3. Standing => Standing'
  <2>1. Read(doc, pos)' = Read(doc, pos) /\ Read(doc, limit)' = Read(doc, limit) /\ Depth' = Depth
    BY <1>1, ReadPrimed, ReadLimitPrimed DEF Depth
  <2>2. (Shaped' <=> Shaped) /\ (Going' <=> Going) /\ (Past' <=> Past) /\ (Rootless' <=> Rootless)
    BY <1>1, <2>1 DEF Shaped, ShapedAs, Going, Past, Unfinished, Rootless
  <2> QED
    BY <2>1, <2>2 DEF Standing
<1> QED
  BY <1>1, <1>2, <1>3 DEF Grammatical

\* However long and deep a document is: a tree that fpx_json_read returns was built from a
\* document of the grammar, or from the beginning of one where the reader met the end of
\* what it was given; and what it refuses as invalid is none, nor the beginning of one
\* unless it ends too early, with the exception of a number that is all of a document.
\* (fpx_json_read and the _json_*_parse functions, json.c:83-137, 172-782.)
THEOREM ReadsOnlyJson == Spec => []ReadsJson
<1>1. Init => Grammatical
  BY InitGrammatical
<1>2. Inv /\ Inv' /\ Replay /\ Grammatical /\ [Next]_vars => Grammatical'
  BY ParseGrammatical, FailGrammatical, RunsGrammatical, StandsGrammatical DEF Next, Fail
<1>3. Grammatical => ReadsJson
  BY DEF Grammatical
<1> QED
  BY <1>1, <1>2, <1>3, AlwaysInv, AlwaysReplay, PTL DEF Spec
=============================================================================
