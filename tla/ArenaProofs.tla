------------------------------ MODULE ArenaProofs ------------------------------
(***************************************************************************)
(* What TLAPS proves of Arena, for every size, page and program: the       *)
(* regions tile the range, each block the program holds is the region of   *)
(* its own that free will find, nothing is ever merged, and the arena      *)
(* implements Allocator.                                                   *)
(*                                                                         *)
(* The argument rests on one observation: only the region of slot 0 is     *)
(* ever free.  It is the first of the list, so alloc always splits it and  *)
(* the newest block is the second of the list; the free of the last slot   *)
(* gives that block back to the region it was cut from.                    *)
(***************************************************************************)
EXTENDS Arena, SequenceTheorems, TLAPS

\* The slot free compares with, and whether the list has a slot at all.
Newer == count - 1

Unlisted(s) == \A i \in DOMAIN list : list[i] # s

ListOK ==
  /\ Len(list) >= 1
  /\ list[1] = 0
  /\ \A i \in DOMAIN list : i # 1 => list[i] \in 1 .. count - 1
  /\ \A i, j \in DOMAIN list : list[i] = list[j] => i = j

OnlyFirstFree == \A s \in Slots \ {0} : ~regions[s].isFree

Unused == \A s \in Slots : s >= count => regions[s] = Blank

Ordered == \A i, j \in DOMAIN list : i < j => AfterOf(i) <= At(j).data

(***************************************************************************)
(* What the last slot of the array is: the first region, before the first  *)
(* allocation; the newest block, second in the list; a block that has been *)
(* freed, below the end of the free region it went back to; or the blank   *)
(* slot that an exact fit has counted.                                     *)
(***************************************************************************)
LastSlot ==
  \/ count = 1 /\ list = <<0>> /\ regions[0].isFree
  \/ /\ count > 1 /\ regions[0].isFree
     /\ Len(list) > 1 /\ list[2] = Newer /\ regions[Newer].prev = 0
  \/ /\ count > 1 /\ regions[0].isFree
     /\ Unlisted(Newer) /\ regions[Newer].data < regions[0].length
  \/ /\ count > 1 /\ ~regions[0].isFree
     /\ Unlisted(Newer) /\ regions[Newer].data = Null

PrevIsNotFirst ==
  regions[0].isFree =>
    \A i \in DOMAIN list : i # 1 /\ list[i] # Newer => regions[list[i]].prev # 0

IInv ==
  /\ TypeOK
  /\ ListOK
  /\ OnlyFirstFree
  /\ Unused
  /\ RegionsTile
  /\ Ordered
  /\ LastSlot
  /\ PrevIsNotFirst
  /\ EveryBlockIsListed

-----------------------------------------------------------------------------
(* The list with an element put behind its first, or its second dropped. *)

LEMMA InsertSecond ==
  ASSUME NEW S, NEW l \in Seq(S), NEW e \in S, Len(l) >= 1
  PROVE  /\ InsertAt(l, 2, e) \in Seq(S)
         /\ Len(InsertAt(l, 2, e)) = Len(l) + 1
         /\ InsertAt(l, 2, e)[1] = l[1]
         /\ InsertAt(l, 2, e)[2] = e
         /\ \A k \in 3 .. Len(l) + 1 : InsertAt(l, 2, e)[k] = l[k - 1]
<1> DEFINE a == SubSeq(l, 1, 1)
           b == SubSeq(l, 2, Len(l))
<1>1. Len(l) \in Nat
  BY LenProperties
<1>2. a \in Seq(S) /\ Len(a) = 1 /\ a[1] = l[1]
  <2>1. \A i \in 1 .. 1 : l[i] \in S
    BY <1>1, ElementOfSeq
  <2> QED  BY <2>1, <1>1, SubSeqProperties
<1>3. /\ b \in Seq(S)
      /\ Len(b) = Len(l) - 1
      /\ \A i \in 1 .. Len(l) - 1 : b[i] = l[i + 1]
  <2>1. \A i \in 2 .. Len(l) : l[i] \in S
    BY <1>1, ElementOfSeq
  <2> QED  BY <2>1, <1>1, SubSeqProperties
<1>4. <<e>> \in Seq(S) /\ Len(<<e>>) = 1 /\ <<e>>[1] = e
  OBVIOUS
<1> DEFINE c == a \o <<e>>
<1>5. c \in Seq(S) /\ Len(c) = 2 /\ c[1] = l[1] /\ c[2] = e
  BY <1>2, <1>4, ConcatProperties
<1> HIDE DEF a, b, c
<1> DEFINE m == c \o b
<1>6. /\ m \in Seq(S)
      /\ Len(m) = Len(l) + 1
      /\ \A k \in 1 .. Len(l) + 1 : m[k] = IF k <= 2 THEN c[k] ELSE b[k - 2]
  <2>1. Len(c) + Len(b) = Len(l) + 1
    BY <1>1, <1>3, <1>5
  <2>2. /\ m \in Seq(S)
        /\ Len(m) = Len(c) + Len(b)
        /\ \A k \in 1 .. Len(c) + Len(b) :
             m[k] = IF k <= Len(c) THEN c[k] ELSE b[k - Len(c)]
    BY <1>3, <1>5, ConcatProperties
  <2> QED  BY <2>1, <2>2, <1>5
<1>7. InsertAt(l, 2, e) = m
  BY DEF InsertAt, a, b, c
<1> HIDE DEF m
<1>8. ASSUME NEW k \in 3 .. Len(l) + 1
      PROVE  m[k] = l[k - 1]
  <2>1. m[k] = b[k - 2]
    BY <1>1, <1>6
  <2>2. k - 2 \in 1 .. Len(l) - 1 /\ (k - 2) + 1 = k - 1
    BY <1>1
  <2> QED  BY <2>1, <2>2, <1>3
<1>9. m[1] = l[1] /\ m[2] = e
  BY <1>1, <1>5, <1>6
<1> QED
  BY <1>6, <1>7, <1>8, <1>9, Zenon

LEMMA DropSecond ==
  ASSUME NEW S, NEW l \in Seq(S), Len(l) >= 2
  PROVE  LET m == SubSeq(l, 1, 1) \o SubSeq(l, 3, Len(l))
         IN  /\ m \in Seq(S)
             /\ Len(m) = Len(l) - 1
             /\ m[1] = l[1]
             /\ \A k \in 2 .. Len(l) - 1 : m[k] = l[k + 1]
<1> DEFINE a == SubSeq(l, 1, 1)
           b == SubSeq(l, 3, Len(l))
<1>1. Len(l) \in Nat
  BY LenProperties
<1>2. a \in Seq(S) /\ Len(a) = 1 /\ a[1] = l[1]
  <2>1. \A i \in 1 .. 1 : l[i] \in S
    BY <1>1, ElementOfSeq
  <2> QED  BY <2>1, <1>1, SubSeqProperties
<1>3. /\ b \in Seq(S)
      /\ Len(b) = Len(l) - 2
      /\ \A i \in 1 .. Len(l) - 2 : b[i] = l[i + 2]
  <2>1. \A i \in 3 .. Len(l) : l[i] \in S
    BY <1>1, ElementOfSeq
  <2>2. /\ b \in Seq(S)
        /\ Len(b) = IF 3 <= Len(l) THEN Len(l) - 3 + 1 ELSE 0
        /\ \A i \in 1 .. Len(l) - 3 + 1 : b[i] = l[3 + i - 1]
    BY <2>1, <1>1, SubSeqProperties
  <2>3. /\ Len(l) - 3 + 1 = Len(l) - 2
        /\ \A i \in 1 .. Len(l) - 2 : 3 + i - 1 = i + 2
    BY <1>1
  <2> QED  BY <2>2, <2>3, <1>1
<1> HIDE DEF a, b
<1>4. /\ a \o b \in Seq(S)
      /\ Len(a \o b) = Len(l) - 1
      /\ \A k \in 1 .. Len(l) - 1 :
           (a \o b)[k] = IF k <= 1 THEN a[k] ELSE b[k - 1]
  BY <1>1, <1>2, <1>3, ConcatProperties
<1>5. a \o b = SubSeq(l, 1, 1) \o SubSeq(l, 3, Len(l))
  BY DEF a, b
<1> QED
  BY <1>1, <1>2, <1>3, <1>4, <1>5

-----------------------------------------------------------------------------
(* What the invariant says of the list. *)

LEMMA ListFacts ==
  ASSUME IInv
  PROVE  /\ Len(list) \in Nat \ {0}
         /\ DOMAIN list = 1 .. Len(list)
         /\ \A i \in DOMAIN list :
              /\ list[i] \in Slots
              /\ i # 1 => list[i] # 0
              /\ At(i) \in Region
              /\ At(i).length > 0
              /\ At(i).data \in 0 .. Size - 1
              /\ AfterOf(i) \in Nat
         /\ At(1) = regions[0]
         /\ AfterOf(1) = regions[0].length
<1> USE SizeAssumption, MaxSlotsAssumption
<1>1. Len(list) \in Nat \ {0} /\ DOMAIN list = 1 .. Len(list)
  BY LenProperties DEF IInv, TypeOK, ListOK
<1>2. ASSUME NEW i \in DOMAIN list
      PROVE  /\ list[i] \in Slots
             /\ i # 1 => list[i] # 0
             /\ At(i) \in Region
             /\ At(i).length > 0
  <2>1. list[i] \in Slots
    BY <1>1, ElementOfSeq DEF IInv, TypeOK
  <2>2. i # 1 => list[i] # 0
    BY DEF IInv, TypeOK, ListOK
  <2> QED  BY <2>1, <2>2 DEF IInv, TypeOK, RegionsTile, At
<1>3. At(1) = regions[0] /\ At(1).data = 0
  BY <1>1 DEF IInv, ListOK, RegionsTile, At
<1>4. AfterOf(1) = regions[0].length /\ AfterOf(1) \in Nat \ {0}
  BY <1>1, <1>2, <1>3 DEF AfterOf, Region
<1>5. ASSUME NEW i \in DOMAIN list
      PROVE  At(i).data \in 0 .. Size - 1
  <2>1. CASE i = 1
    BY <1>3, <2>1
  <2>2. CASE i # 1
    <3>1. AfterOf(1) <= At(i).data
      BY <1>1, <2>2 DEF IInv, Ordered
    <3>2. At(i).data \in 0 .. Size - 1 \cup {Null}
      BY <1>2 DEF Region
    <3> QED  BY <3>1, <3>2, <1>4 DEF Null
  <2> QED  BY <2>1, <2>2
<1>6. \A i \in DOMAIN list : AfterOf(i) \in Nat
  BY <1>2, <1>5 DEF AfterOf, Region
<1> QED
  BY <1>1, <1>2, <1>3, <1>4, <1>5, <1>6

\* No region of the list ends behind the range.
LEMMA InRange ==
  ASSUME IInv, NEW i \in DOMAIN list
  PROVE  AfterOf(i) <= Size
<1> DEFINE n == Len(list)
<1>1. n \in DOMAIN list /\ AfterOf(n) = Size
  BY ListFacts DEF IInv, RegionsTile
<1>2. CASE i = n
  BY <1>1, <1>2, SizeAssumption
<1>3. CASE i # n
  <2>1. AfterOf(i) <= At(n).data
    BY <1>1, <1>3, ListFacts DEF IInv, Ordered
  <2> QED  BY <1>1, <2>1, ListFacts DEF AfterOf, Region
<1> QED
  BY <1>2, <1>3

\* Only the first region of the list can be the one alloc takes.
LEMMA FirstFitIsFirst ==
  ASSUME IInv, NEW s, NEW cap, Fits(s, cap) # {}
  PROVE  /\ FirstFit(s, cap) = 1
         /\ 1 \in Fits(s, cap)
         /\ regions[0].isFree
<1>1. ASSUME NEW i \in Fits(s, cap)
      PROVE  i = 1
  <2>1. i \in DOMAIN list /\ At(i).isFree
    BY DEF Fits
  <2>2. list[i] = 0
    BY <2>1, ListFacts DEF IInv, OnlyFirstFree, At
  <2> QED  BY <2>1, <2>2, ListFacts
<1>2. Fits(s, cap) = {1}
  BY <1>1
<1>3. FirstFit(s, cap) \in Fits(s, cap)
  <2>1. \E i \in Fits(s, cap) : \A j \in Fits(s, cap) : i <= j
    BY <1>2
  <2> QED  BY <2>1 DEF FirstFit
<1>4. At(1).isFree
  BY <1>2 DEF Fits
<1> QED
  BY <1>2, <1>3, <1>4, ListFacts

\* free finds the one region of the list that has the block's address.
LEMMA BlockIsFound ==
  ASSUME IInv, NEW b \in live
  PROVE  /\ Position(b.at) \in DOMAIN list
         /\ Found(b.at) = {Position(b.at)}
         /\ At(Position(b.at)).data = b.at
         /\ At(Position(b.at)).length = b.len
         /\ ~At(Position(b.at)).isFree
<1>1. PICK i \in DOMAIN list :
        At(i).data = b.at /\ At(i).length = b.len /\ ~At(i).isFree
  BY DEF IInv, EveryBlockIsListed
<1>2. ASSUME NEW j \in DOMAIN list, At(j).data = b.at
      PROVE  j = i
  <2>1. CASE i < j
    <3>1. AfterOf(i) <= At(j).data
      BY <2>1 DEF IInv, Ordered
    <3> QED  BY <3>1, <1>1, <1>2, ListFacts DEF AfterOf, Region
  <2>2. CASE j < i
    <3>1. AfterOf(j) <= At(i).data
      BY <2>2 DEF IInv, Ordered
    <3> QED  BY <3>1, <1>1, <1>2, ListFacts DEF AfterOf, Region
  <2> QED  BY <2>1, <2>2, ListFacts
<1>3. Found(b.at) = {i}
  BY <1>1, <1>2 DEF Found
<1>4. Position(b.at) = i
  <2>1. i <= i
    BY ListFacts
  <2> QED  BY <1>3, <2>1 DEF Position
<1> QED
  BY <1>1, <1>3, <1>4

\* The block in the last slot is the newest: second in the list, behind the
\* region it was cut from, which is free.
LEMMA LastIsSecond ==
  ASSUME IInv, NEW b \in live, IsLast(b.at)
  PROVE  /\ Len(list) >= 2
         /\ Position(b.at) = 2
         /\ count > 1
         /\ list[2] = Newer
         /\ regions[Newer].prev = 0
         /\ regions[0].isFree
<1> DEFINE i == Position(b.at)
<1>1. /\ i \in DOMAIN list
      /\ At(i).data = b.at
      /\ ~At(i).isFree
      /\ Found(b.at) = {i}
  BY BlockIsFound
<1>2. At(i).data = regions[Newer].data
  BY <1>1 DEF IsLast, Newer
<1>3. regions[0].isFree => i # 1 /\ regions[0].length <= At(i).data
  BY <1>1, ListFacts DEF IInv, Ordered
<1> HIDE DEF i
<1>4. /\ count > 1 /\ regions[0].isFree
      /\ Len(list) > 1 /\ list[2] = Newer /\ regions[Newer].prev = 0
  <2>1. CASE count = 1 /\ list = <<0>> /\ regions[0].isFree
    <3>1. i = 1
      BY <1>1, <2>1, ListFacts
    <3> QED  BY <3>1, <1>3, <2>1
  <2>2. CASE regions[0].isFree /\ regions[Newer].data < regions[0].length
    BY <2>2, <1>1, <1>2, <1>3, ListFacts DEF Region
  <2>3. CASE regions[Newer].data = Null
    BY <2>3, <1>1, <1>2, ListFacts DEF Null
  <2> QED  BY <2>1, <2>2, <2>3 DEF IInv, LastSlot
<1>5. At(2).data = b.at
  BY <1>1, <1>2, <1>4 DEF At
<1>6. 2 \in Found(b.at)
  BY <1>4, <1>5, ListFacts DEF Found
<1> QED
  BY <1>1, <1>4, <1>6, ListFacts DEF i

-----------------------------------------------------------------------------
(* The invariant holds at first, and every step keeps it. *)

LEMMA InitInv == Init => IInv
<1> SUFFICES ASSUME Init PROVE IInv
  OBVIOUS
<1> USE SizeAssumption, CapacityAssumption, MaxSlotsAssumption
<1>1. 0 \in Slots /\ list = <<0>> /\ Len(list) = 1 /\ list[1] = 0 /\ DOMAIN list = {1}
  BY DEF Init, Slots
<1>2. regions[0] = [data |-> 0, length |-> Size, isFree |-> TRUE, prev |-> Null]
  BY <1>1 DEF Init
<1>3. \A r \in Slots \ {0} : regions[r] = Blank
  BY DEF Init
<1>4. TypeOK
  <2>1. regions[0] \in Region /\ Blank \in Region
    BY <1>2 DEF Region, Blank, Null
  <2>2. regions \in [Slots -> Region]
    BY <2>1, <1>2, <1>3 DEF Init
  <2>3. list \in Seq(Slots)
    BY <1>1
  <2>4. /\ tail = "none" /\ count = 1 /\ capacity = Capacity
        /\ live = {} /\ fault = FALSE
    BY DEF Init
  <2>5. capacity \in Nat /\ count \in 1 .. MaxSlots
    BY <2>4
  <2> QED  BY <2>2, <2>3, <2>4, <2>5, Zenon DEF TypeOK
<1>5. ListOK /\ Ordered /\ PrevIsNotFirst /\ EveryBlockIsListed
  BY <1>1 DEF Init, ListOK, Ordered, PrevIsNotFirst, EveryBlockIsListed
<1>6. OnlyFirstFree /\ Unused
  BY <1>3 DEF Init, OnlyFirstFree, Unused, Blank, Slots
<1>7. RegionsTile
  BY <1>1, <1>2 DEF RegionsTile, At, AfterOf
<1>8. LastSlot
  BY <1>1, <1>2 DEF Init, LastSlot
<1> QED
  BY <1>4, <1>5, <1>6, <1>7, <1>8 DEF IInv

\* Steps that leave the regions and the list alone.
LEMMA KeepInv ==
  ASSUME IInv, UNCHANGED <<regions, list, count>>, live' \subseteq live,
         tail' \in {"none", "null", "wild"}, capacity' \in Nat, fault' \in BOOLEAN
  PROVE  IInv'
<1>1. TypeOK'
  BY DEF IInv, TypeOK
<1>2. ListOK' /\ OnlyFirstFree' /\ Unused' /\ RegionsTile' /\ Ordered'
  BY DEF IInv, ListOK, OnlyFirstFree, Unused, RegionsTile, Ordered, At, AfterOf
<1>3. LastSlot' /\ PrevIsNotFirst'
  BY DEF IInv, LastSlot, PrevIsNotFirst, Newer, Unlisted
<1>4. EveryBlockIsListed'
  BY DEF IInv, EveryBlockIsListed, At
<1> QED
  BY <1>1, <1>2, <1>3, <1>4 DEF IInv

LEMMA GrowthFacts ==
  ASSUME IInv, NEW cap \in Growth
  PROVE  cap \in Nat /\ TailIn(cap) \in {"none", "null", "wild"}
BY DEF IInv, TypeOK, Growth, TailIn

LEMMA ExactStep ==
  ASSUME IInv, NEW s \in Requests, NEW cap \in Growth, count < MaxSlots,
         AllocExact(s, cap)
  PROVE  IInv'
<1> USE SizeAssumption, MaxSlotsAssumption, RequestsAssumption
<1>1. /\ FirstFit(s, cap) = 1
      /\ regions[0].isFree
      /\ list[1] = 0
  BY FirstFitIsFirst DEF AllocExact, IInv, ListOK
<1>2. /\ regions' = [regions EXCEPT ![0].isFree = FALSE]
      /\ live' = live \cup {[at |-> At(1).data, len |-> s]}
      /\ count' = count + 1
      /\ At(1).length = s
      /\ UNCHANGED <<list, fault>>
      /\ tail' = TailIn(cap) /\ capacity' = cap
  BY <1>1 DEF AllocExact
<1>3. 0 \in Slots /\ regions \in [Slots -> Region]
  BY DEF IInv, TypeOK, Slots
<1>4. /\ regions'[0] = [regions[0] EXCEPT !.isFree = FALSE]
      /\ \A r \in Slots \ {0} : regions'[r] = regions[r]
      /\ regions' \in [Slots -> Region]
  BY <1>2, <1>3 DEF Region
<1>5. \A r \in Slots : /\ regions'[r].data = regions[r].data
                       /\ regions'[r].length = regions[r].length
                       /\ regions'[r].prev = regions[r].prev
                       /\ ~regions'[r].isFree
  BY <1>3, <1>4 DEF IInv, OnlyFirstFree, Region
<1>6. \A i \in DOMAIN list : /\ At(i)'.data = At(i).data
                             /\ At(i)'.length = At(i).length
                             /\ ~At(i)'.isFree
                             /\ AfterOf(i)' = AfterOf(i)
  BY <1>2, <1>5, ListFacts DEF At, AfterOf
<1>7. At(1).data = 0 /\ s \in 1 .. Size
  BY <1>2, ListFacts, InRange DEF IInv, RegionsTile, Region
<1>8. TypeOK'
  <2>1. [at |-> At(1).data, len |-> s] \in Block
    BY <1>7 DEF Block
  <2>2. live' \subseteq Block
    BY <1>2, <2>1 DEF IInv, TypeOK
  <2>3. count' \in 1 .. MaxSlots
    BY <1>2 DEF IInv, TypeOK
  <2> QED  BY <1>2, <1>4, <2>2, <2>3, GrowthFacts DEF IInv, TypeOK
<1>9. ListOK'
  BY <1>2 DEF IInv, TypeOK, ListOK
<1>10. OnlyFirstFree' /\ PrevIsNotFirst'
  BY <1>3, <1>5 DEF OnlyFirstFree, PrevIsNotFirst
<1>11. Unused'
  BY <1>2, <1>4, ListFacts DEF IInv, TypeOK, Unused, Slots
<1>12. RegionsTile'
  <2>1. /\ 1 \in DOMAIN list /\ Len(list) \in DOMAIN list
        /\ \A i \in DOMAIN list : i < Len(list) => i + 1 \in DOMAIN list
    BY ListFacts
  <2>2. RegionsTile
    BY DEF IInv
  <2> QED  BY <1>2, <1>6, <2>1, <2>2 DEF RegionsTile
<1>13. Ordered'
  BY <1>2, <1>6 DEF IInv, Ordered
<1>14. LastSlot'
  <2>1. count \in Slots /\ count # 0
    BY DEF IInv, TypeOK, Slots
  <2>2. Newer' = count
    BY <1>2 DEF IInv, TypeOK, Newer
  <2>3. regions'[count].data = Null
    BY <1>4, <2>1 DEF IInv, Unused, Blank, Slots
  <2>4. \A i \in DOMAIN list' : list'[i] # count
    BY <1>1, <1>2, <2>1, ListFacts DEF IInv, TypeOK, ListOK, Unlisted
  <2>5. count' > 1 /\ ~regions'[0].isFree
    BY <1>2, <1>3, <1>5 DEF IInv, TypeOK
  <2>6. (/\ count > 1 /\ ~regions[0].isFree
         /\ Unlisted(Newer) /\ regions[Newer].data = Null)'
    BY <2>3, <2>4, <2>5, <2>2 DEF Unlisted
  <2> QED  BY <2>6 DEF LastSlot
<1>15. EveryBlockIsListed'
  <2>1. ASSUME NEW b \in live
        PROVE  \E i \in DOMAIN list :
                 At(i)'.data = b.at /\ At(i)'.length = b.len /\ ~At(i)'.isFree
    BY <1>6 DEF IInv, EveryBlockIsListed
  <2>2. /\ 1 \in DOMAIN list
        /\ At(1)'.data = At(1).data /\ At(1)'.length = s /\ ~At(1)'.isFree
    BY <1>2, <1>6, ListFacts
  <2> QED  BY <1>2, <2>1, <2>2 DEF EveryBlockIsListed
<1> QED
  BY <1>8, <1>9, <1>10, <1>11, <1>12, <1>13, <1>14, <1>15 DEF IInv

(***************************************************************************)
(* A split: the first region gets shorter, slot count takes what was cut   *)
(* off and comes second in the list, and the others move one place down.   *)
(***************************************************************************)
LEMMA SplitShape ==
  ASSUME IInv, NEW s \in Requests, NEW cap, count < MaxSlots, AllocSplit(s, cap)
  PROVE  /\ regions' \in [Slots -> Region]
         /\ regions[0].isFree /\ s < regions[0].length /\ s > 0
         /\ count \in Slots /\ count # 0
         /\ regions'[0] = [regions[0] EXCEPT !.length = @ - s]
         /\ regions'[count] = [data |-> regions[0].length - s, length |-> s,
                               isFree |-> FALSE, prev |-> 0]
         /\ \A r \in Slots \ {0, count} :
              /\ regions'[r].data = regions[r].data
              /\ regions'[r].length = regions[r].length
              /\ regions'[r].isFree = regions[r].isFree
              /\ regions'[r].prev = IF Len(list) > 1 /\ r = list[2]
                                      THEN count ELSE regions[r].prev
         /\ list' \in Seq(Slots)
         /\ Len(list') = Len(list) + 1
         /\ list'[1] = 0 /\ list'[2] = count
         /\ \A k \in 3 .. Len(list) + 1 : list'[k] = list[k - 1]
<1> USE SizeAssumption, MaxSlotsAssumption, RequestsAssumption
<1>1. FirstFit(s, cap) = 1 /\ regions[0].isFree /\ list[1] = 0 /\ 1 \in DOMAIN list
  BY FirstFitIsFirst, ListFacts DEF AllocSplit, IInv, ListOK
<1>2. /\ s < regions[0].length /\ s > 0
      /\ regions' = Split(1, s)
      /\ list' = InsertAt(list, 2, count)
  BY <1>1, ListFacts DEF AllocSplit
<1>3. /\ count \in Slots /\ count # 0 /\ 0 \in Slots
      /\ regions \in [Slots -> Region]
      /\ list \in Seq(Slots) /\ Len(list) >= 1
  BY ListFacts DEF IInv, TypeOK, Slots
<1> DEFINE next == IF 1 < Len(list) THEN list[2] ELSE Null
<1>4. next # 0 /\ next # count
  <2>1. CASE 1 < Len(list)
    <3>1. 2 \in DOMAIN list /\ list[2] # 0
      BY <2>1, ListFacts
    <3>2. list[2] # count
      BY <3>1 DEF IInv, TypeOK, ListOK
    <3> QED  BY <2>1, <3>1, <3>2
  <2>2. CASE ~(1 < Len(list))
    BY <2>2, <1>3 DEF Null, Slots
  <2> QED  BY <2>1, <2>2
<1>6. Splitter(1, s) = [regions[0] EXCEPT !.length = @ - s]
  BY ListFacts DEF Splitter
<1>7. Splittee(1, s) = [data |-> regions[0].length - s, length |-> s,
                        isFree |-> FALSE, prev |-> 0]
  BY <1>1, ListFacts DEF Splittee
<1>8. regions' = [r \in Slots |->
                    CASE r = 0     -> Splitter(1, s)
                      [] r = count -> Splittee(1, s)
                      [] r = next  -> [regions[r] EXCEPT !.prev = count]
                      [] OTHER     -> regions[r]]
  BY <1>1, <1>2 DEF Split
<1> HIDE DEF next
<1>9. /\ regions'[0] = Splitter(1, s)
      /\ regions'[count] = Splittee(1, s)
  BY <1>3, <1>4, <1>8
<1>10. \A r \in Slots \ {0, count} :
         regions'[r] = IF r = next THEN [regions[r] EXCEPT !.prev = count]
                                   ELSE regions[r]
  BY <1>3, <1>8
<1>11. \A r \in Slots \ {0, count} :
         /\ regions'[r].data = regions[r].data
         /\ regions'[r].length = regions[r].length
         /\ regions'[r].isFree = regions[r].isFree
         /\ regions'[r].prev = IF r = next THEN count ELSE regions[r].prev
         /\ regions'[r] \in Region
  BY <1>3, <1>10 DEF Region
<1>12. \A r \in Slots \ {0, count} : r = next <=> Len(list) > 1 /\ r = list[2]
  BY <1>3 DEF next, Null, Slots
<1>13. Splitter(1, s) \in Region /\ Splittee(1, s) \in Region
  <2>1. regions[0] \in Region /\ regions[0].length \in Nat
    BY <1>3 DEF Region
  <2>2. regions[0].length <= Size
    BY <1>1, ListFacts, InRange
  <2>3. s \in Nat /\ regions[0].length - s \in 0 .. Size - 1
    BY <1>2, <2>1, <2>2
  <2>4. Splitter(1, s) \in Region
    BY <1>6, <2>1, <2>3 DEF Region
  <2>5. Splittee(1, s) \in Region
    <3>1. /\ regions[0].length - s \in 0 .. Size - 1 \cup {Null}
          /\ 0 \in Slots \cup {Null}
      BY <1>3, <2>3
    <3>2. ASSUME NEW d \in 0 .. Size - 1 \cup {Null}, NEW n \in Nat,
                 NEW p \in Slots \cup {Null}
          PROVE  [data |-> d, length |-> n, isFree |-> FALSE, prev |-> p] \in Region
      BY DEF Region
    <3> QED  BY <1>7, <2>3, <3>1, <3>2
  <2> QED  BY <2>4, <2>5
<1>14. regions' \in [Slots -> Region]
  BY <1>8, <1>9, <1>11, <1>13
<1>15. /\ list' \in Seq(Slots)
       /\ Len(list') = Len(list) + 1
       /\ list'[1] = 0 /\ list'[2] = count
       /\ \A k \in 3 .. Len(list) + 1 : list'[k] = list[k - 1]
  <2> DEFINE m == InsertAt(list, 2, count)
  <2>1. /\ m \in Seq(Slots) /\ Len(m) = Len(list) + 1
        /\ m[1] = list[1] /\ m[2] = count
        /\ \A k \in 3 .. Len(list) + 1 : m[k] = list[k - 1]
    BY <1>3, InsertSecond
  <2>2. list' = m
    BY <1>2
  <2> HIDE DEF m
  <2> QED  BY <1>1, <2>1, <2>2
<1>16. \A r \in Slots \ {0, count} :
         regions'[r].prev = IF Len(list) > 1 /\ r = list[2]
                              THEN count ELSE regions[r].prev
  BY <1>11, <1>12
<1>17. /\ regions'[0] = [regions[0] EXCEPT !.length = @ - s]
       /\ regions'[count] = [data |-> regions[0].length - s, length |-> s,
                             isFree |-> FALSE, prev |-> 0]
  BY <1>6, <1>7, <1>9
<1>18. \A r \in Slots \ {0, count} :
         /\ regions'[r].data = regions[r].data
         /\ regions'[r].length = regions[r].length
         /\ regions'[r].isFree = regions[r].isFree
  BY <1>11
<1> QED
  BY <1>1, <1>2, <1>3, <1>14, <1>15, <1>16, <1>17, <1>18, Zenon

LEMMA SplitStep ==
  ASSUME IInv, NEW s \in Requests, NEW cap \in Growth, count < MaxSlots,
         AllocSplit(s, cap)
  PROVE  IInv'
<1> USE SizeAssumption, MaxSlotsAssumption, RequestsAssumption
<1> DEFINE len == regions[0].length
<1>1. /\ regions' \in [Slots -> Region]
      /\ regions[0].isFree /\ s < len /\ s > 0
      /\ count \in Slots /\ count # 0
      /\ regions'[0] = [regions[0] EXCEPT !.length = @ - s]
      /\ regions'[count] = [data |-> len - s, length |-> s,
                            isFree |-> FALSE, prev |-> 0]
      /\ list' \in Seq(Slots)
      /\ Len(list') = Len(list) + 1
      /\ list'[1] = 0 /\ list'[2] = count
      /\ \A k \in 3 .. Len(list) + 1 : list'[k] = list[k - 1]
  BY SplitShape
<1>2. \A r \in Slots \ {0, count} :
        /\ regions'[r].data = regions[r].data
        /\ regions'[r].length = regions[r].length
        /\ regions'[r].isFree = regions[r].isFree
        /\ regions'[r].prev = IF Len(list) > 1 /\ r = list[2]
                                THEN count ELSE regions[r].prev
  BY SplitShape
<1>3. /\ count' = count + 1 /\ tail' = TailIn(cap) /\ capacity' = cap
      /\ fault' = fault
      /\ live' = live \cup {[at |-> len - s, len |-> s]}
  <2>1. FirstFit(s, cap) = 1 /\ list[1] = 0
    BY FirstFitIsFirst DEF AllocSplit, IInv, ListOK
  <2>2. Splittee(1, s).data = len - s
    BY ListFacts DEF Splittee
  <2> QED  BY <2>1, <2>2 DEF AllocSplit
<1>4. /\ regions[0] \in Region /\ regions[0].data = 0 /\ len \in Nat
      /\ 0 \in Slots /\ Len(list) \in Nat \ {0}
  <2>1. 0 \in Slots
    BY DEF Slots
  <2> QED  BY <2>1, ListFacts DEF IInv, TypeOK, RegionsTile, Region
<1>5. /\ regions'[0].data = 0 /\ regions'[0].length = len - s
      /\ regions'[0].isFree /\ regions'[0].prev = regions[0].prev
  BY <1>1, <1>4 DEF Region
<1>6. len <= Size
  BY ListFacts, InRange
<1> HIDE DEF len
<1>7. DOMAIN list' = 1 .. Len(list) + 1
  BY <1>1, LenProperties
<1>8. /\ At(1)' = regions'[0] /\ At(2)' = regions'[count]
      /\ AfterOf(1)' = len - s /\ AfterOf(2)' = len
  <2>1. At(1)' = regions'[0] /\ At(2)' = regions'[count]
    BY <1>1 DEF At
  <2>2. AfterOf(1)' = regions'[0].data + regions'[0].length
    BY <2>1 DEF AfterOf
  <2>3. AfterOf(2)' = regions'[count].data + regions'[count].length
    BY <2>1 DEF AfterOf
  <2>4. regions'[count].data = len - s /\ regions'[count].length = s
    BY <1>1
  <2>5. s \in Nat
    OBVIOUS
  <2> QED  BY <1>4, <1>5, <2>1, <2>2, <2>3, <2>4, <2>5
<1>9. ASSUME NEW k \in 3 .. Len(list) + 1
      PROVE  /\ k - 1 \in DOMAIN list /\ k - 1 # 1
             /\ list'[k] = list[k - 1]
             /\ list[k - 1] \in Slots \ {0, count}
             /\ list[k - 1] \in 1 .. count - 1
             /\ At(k)'.data = At(k - 1).data
             /\ At(k)'.length = At(k - 1).length
             /\ At(k)'.isFree = At(k - 1).isFree
             /\ AfterOf(k)' = AfterOf(k - 1)
  <2>1. k - 1 \in DOMAIN list /\ k - 1 # 1 /\ list'[k] = list[k - 1]
    BY <1>1, <1>4, ListFacts
  <2>2. list[k - 1] \in 1 .. count - 1 /\ list[k - 1] \in Slots \ {0, count}
    <3>1. list[k - 1] \in 1 .. count - 1
      BY <2>1 DEF IInv, ListOK
    <3>2. list[k - 1] \in Slots /\ list[k - 1] # 0
      BY <2>1, ListFacts
    <3>3. list[k - 1] # count
      BY <3>1 DEF IInv, TypeOK
    <3> QED  BY <3>1, <3>2, <3>3
  <2>3. /\ At(k)'.data = At(k - 1).data
        /\ At(k)'.length = At(k - 1).length
        /\ At(k)'.isFree = At(k - 1).isFree
    BY <1>2, <2>1, <2>2 DEF At
  <2> QED  BY <2>1, <2>2, <2>3 DEF AfterOf
<1>10. TypeOK'
  <2>1. [at |-> len - s, len |-> s] \in Block
    <3>1. len - s \in 0 .. Size - 1 /\ s \in 1 .. Size
      BY <1>1, <1>4, <1>6
    <3> QED  BY <3>1 DEF Block
  <2>2. live' \subseteq Block
    BY <1>3, <2>1 DEF IInv, TypeOK
  <2>3. count' \in 1 .. MaxSlots
    BY <1>3 DEF IInv, TypeOK
  <2>4. fault' \in BOOLEAN
    BY <1>3 DEF IInv, TypeOK
  <2> QED  BY <1>1, <1>3, <2>2, <2>3, <2>4, GrowthFacts DEF TypeOK
<1>11. ListOK'
  <2>1. \A k \in DOMAIN list' : k # 1 => list'[k] \in 1 .. count
    <3>1. count \in 1 .. count
      BY <1>1 DEF Slots
    <3>2. ASSUME NEW k \in 3 .. Len(list) + 1
          PROVE  list'[k] \in 1 .. count
      <4>1. list'[k] \in 1 .. count - 1
        BY <1>9
      <4> QED  BY <1>1, <4>1 DEF Slots
    <3> QED  BY <1>1, <1>4, <1>7, <3>1, <3>2
  <2>2. \A k \in DOMAIN list' : k # 1 /\ k # 2 => list'[k] # count /\ list'[k] # 0
    BY <1>7, <1>9, <1>4
  <2>3. ASSUME NEW j \in DOMAIN list', NEW k \in DOMAIN list', list'[j] = list'[k]
        PROVE  j = k
    <3>1. CASE j \in {1, 2} \/ k \in {1, 2}
      BY <1>1, <2>2, <2>3, <3>1
    <3>2. CASE j \notin {1, 2} /\ k \notin {1, 2}
      <4>1. j \in 3 .. Len(list) + 1 /\ k \in 3 .. Len(list) + 1
        BY <1>4, <1>7, <3>2
      <4>2. list[j - 1] = list[k - 1]
        BY <1>9, <2>3, <4>1
      <4>3. j - 1 = k - 1
        BY <1>9, <4>1, <4>2 DEF IInv, ListOK
      <4> QED  BY <4>1, <4>3
    <3> QED  BY <3>1, <3>2
  <2>4. count' - 1 = count
    BY <1>3 DEF IInv, TypeOK
  <2> QED  BY <1>1, <1>4, <2>1, <2>3, <2>4 DEF ListOK
<1>12. OnlyFirstFree'
  BY <1>1, <1>2 DEF IInv, OnlyFirstFree
<1>13. Unused'
  <2>1. ASSUME NEW r \in Slots, r >= count'
        PROVE  r \notin {0, count} /\ r >= count /\ ~(Len(list) > 1 /\ r = list[2])
    <3>1. Len(list) > 1 => list[2] \in 1 .. count - 1
      BY ListFacts DEF IInv, ListOK
    <3> QED  BY <1>1, <1>3, <2>1, <3>1 DEF Slots
  <2>2. ASSUME NEW r \in Slots, r >= count'
        PROVE  regions'[r] = Blank
    <3>1. regions[r] = Blank
      BY <2>1, <2>2 DEF IInv, Unused
    <3>2. regions'[r] \in Region
      BY <1>1
    <3>3. /\ regions'[r].data = Null /\ regions'[r].length = 0
          /\ regions'[r].isFree = FALSE /\ regions'[r].prev = Null
      BY <1>2, <2>1, <2>2, <3>1 DEF Blank
    <3> QED  BY <3>2, <3>3 DEF Region, Blank
  <2> QED  BY <2>2 DEF Unused
<1>14. RegionsTile'
  <2>1. At(1)'.data = 0
    BY <1>5, <1>8
  <2>2. \A k \in DOMAIN list' : At(k)'.length > 0
    <3>1. At(1)'.length > 0 /\ At(2)'.length > 0
      <4>1. At(1)'.length = len - s /\ At(2)'.length = s
        <5>1. At(1)'.length = regions'[0].length /\ At(2)'.length = regions'[count].length
          BY <1>8, Zenon
        <5>2. regions'[count].length = s
          BY <1>1
        <5> QED  BY <1>5, <5>1, <5>2, Zenon
      <4>2. len - s > 0 /\ s > 0
        BY <1>1, <1>4
      <4> QED  BY <4>1, <4>2
    <3>2. \A k \in 3 .. Len(list) + 1 : At(k)'.length > 0
      BY <1>9, ListFacts
    <3> QED  BY <1>4, <1>7, <3>1, <3>2
  <2>3. ASSUME NEW k \in DOMAIN list', k < Len(list')
        PROVE  At(k + 1)'.data = AfterOf(k)'
    <3>1. CASE k = 1
      BY <1>1, <1>8, <3>1
    <3>2. CASE k = 2
      <4>1. 3 \in 3 .. Len(list) + 1 /\ At(3)'.data = At(2).data /\ 1 < Len(list)
        BY <1>1, <1>4, <1>9, <2>3, <3>2
      <4>2. At(2).data = AfterOf(1)
        BY <4>1, ListFacts DEF IInv, RegionsTile
      <4>3. AfterOf(1) = len
        BY ListFacts DEF len
      <4> QED  BY <1>8, <3>2, <4>1, <4>2, <4>3
    <3>3. CASE k > 2
      <4>1. k \in 3 .. Len(list) + 1 /\ k + 1 \in 3 .. Len(list) + 1
        BY <1>1, <1>4, <1>7, <2>3, <3>3
      <4>2. /\ AfterOf(k)' = AfterOf(k - 1)
            /\ At(k + 1)'.data = At(k).data
            /\ k - 1 \in DOMAIN list /\ k - 1 < Len(list) /\ (k - 1) + 1 = k
        <5>1. At(k + 1)'.data = At((k + 1) - 1).data /\ (k + 1) - 1 = k
          BY <1>9, <4>1
        <5> QED  BY <1>4, <1>9, <4>1, <5>1
      <4>3. At(k).data = AfterOf(k - 1)
        BY <4>2 DEF IInv, RegionsTile
      <4> QED  BY <4>2, <4>3
    <3> QED  BY <1>7, <3>1, <3>2, <3>3
  <2>4. ASSUME NEW n, n = Len(list')
        PROVE  AfterOf(n)' = Size
    <3>1. n = Len(list) + 1
      BY <1>1, <2>4
    <3>2. CASE Len(list) = 1
      <4>1. AfterOf(1) = Size /\ AfterOf(1) = len
        BY <3>2, ListFacts DEF IInv, RegionsTile, len
      <4>2. n = 2
        BY <3>1, <3>2
      <4> QED  BY <1>8, <4>1, <4>2
    <3>3. CASE Len(list) # 1
      <4>1. n \in 3 .. Len(list) + 1 /\ n - 1 = Len(list)
        <5>1. Len(list) \in Nat \ {0}
          BY <1>4, Zenon
        <5>2. \A m \in Nat \ {0, 1} : m + 1 \in 3 .. m + 1 /\ (m + 1) - 1 = m
          OBVIOUS
        <5> QED  BY <3>1, <3>3, <5>1, <5>2, Zenon
      <4>2. AfterOf(n)' = AfterOf(Len(list))
        BY <1>9, <4>1
      <4> QED  BY <4>2 DEF IInv, RegionsTile
    <3> QED  BY <3>2, <3>3
  <2>5. (\A k \in DOMAIN list : k < Len(list) => At(k + 1).data = AfterOf(k))'
    BY <2>3
  <2>6. (AfterOf(Len(list)) = Size)'
    BY <2>4
  <2>7. (\A k \in DOMAIN list : At(k).length > 0)'
    BY <2>2
  <2>8. (At(1).data = 0)'
    BY <2>1
  <2> QED  BY <2>5, <2>6, <2>7, <2>8 DEF RegionsTile
<1>15. Ordered'
  <2>1. ASSUME NEW j \in DOMAIN list', NEW k \in DOMAIN list', j < k
        PROVE  AfterOf(j)' <= At(k)'.data
    <3>1. CASE k = 2
      <4>1. j = 1
        BY <1>7, <2>1, <3>1
      <4> QED  BY <1>1, <1>4, <1>8, <3>1, <4>1
    <3>2. CASE k # 2
      <4>1. k \in 3 .. Len(list) + 1
        BY <1>4, <1>7, <2>1, <3>2
      <4>2. At(k)'.data = At(k - 1).data /\ k - 1 \in DOMAIN list /\ k - 1 > 1
        BY <1>9, <4>1
      <4>3. CASE j \in {1, 2}
        <5>1. len <= At(k - 1).data
          BY <4>2, ListFacts DEF IInv, Ordered, len
        <5>2. AfterOf(j)' <= len
          BY <1>1, <1>4, <1>8, <4>3
        <5>3. At(k - 1).data \in Nat /\ AfterOf(j)' \in Int
          BY <1>1, <1>4, <1>8, <4>2, <4>3, ListFacts
        <5> QED  BY <1>4, <4>2, <5>1, <5>2, <5>3
      <4>4. CASE j \notin {1, 2}
        <5>1. j \in 3 .. Len(list) + 1
          BY <1>4, <1>7, <4>4
        <5>2. AfterOf(j)' = AfterOf(j - 1) /\ j - 1 \in DOMAIN list /\ j - 1 < k - 1
          BY <1>9, <2>1, <4>1, <5>1
        <5> QED  BY <4>2, <5>2 DEF IInv, Ordered
      <4> QED  BY <4>3, <4>4
    <3> QED  BY <3>1, <3>2
  <2>2. (\A j, k \in DOMAIN list : j < k => AfterOf(j) <= At(k).data)'
    BY <2>1
  <2> QED  BY <2>2 DEF Ordered
<1>16. Newer' = count
  BY <1>3 DEF IInv, TypeOK, Newer
<1>17. LastSlot'
  <2>1. (/\ count > 1 /\ regions[0].isFree
         /\ Len(list) > 1 /\ list[2] = Newer /\ regions[Newer].prev = 0)'
    BY <1>1, <1>3, <1>4, <1>5, <1>16 DEF IInv, TypeOK
  <2> QED  BY <2>1 DEF LastSlot
<1>18. PrevIsNotFirst'
  <2>1. ASSUME NEW k \in DOMAIN list', k # 1, list'[k] # count
        PROVE  regions'[list'[k]].prev # 0
    <3>1. k \in 3 .. Len(list) + 1
      BY <1>1, <1>4, <1>7, <2>1
    <3>2. /\ list'[k] = list[k - 1] /\ k - 1 \in DOMAIN list /\ k - 1 # 1
          /\ list[k - 1] \in Slots \ {0, count}
      BY <1>9, <3>1
    <3>3. CASE list[k - 1] = list[2] /\ Len(list) > 1
      BY <1>1, <1>2, <3>2, <3>3
    <3>4. CASE ~(list[k - 1] = list[2] /\ Len(list) > 1)
      <4>1. regions'[list'[k]].prev = regions[list[k - 1]].prev
        BY <1>2, <3>2, <3>4
      <4>2. list[k - 1] # Newer
        <5>1. CASE Len(list) > 1 /\ list[2] = Newer
          BY <3>4, <5>1
        <5>2. CASE Unlisted(Newer)
          BY <3>2, <5>2 DEF Unlisted
        <5>3. CASE list = <<0>>
          BY <1>4, <3>1, <5>3
        <5> QED  BY <1>1, <5>1, <5>2, <5>3 DEF IInv, LastSlot
      <4> QED  BY <1>1, <3>2, <4>1, <4>2 DEF IInv, PrevIsNotFirst
    <3> QED  BY <3>3, <3>4
  <2>2. (\A k \in DOMAIN list : k # 1 /\ list[k] # Newer => regions[list[k]].prev # 0)'
    BY <2>1, <1>16
  <2> QED  BY <2>2 DEF PrevIsNotFirst
<1>19. EveryBlockIsListed'
  <2>1. ASSUME NEW b \in live'
        PROVE  \E k \in DOMAIN list' :
                 At(k)'.data = b.at /\ At(k)'.length = b.len /\ ~At(k)'.isFree
    <3>1. CASE b = [at |-> len - s, len |-> s]
      <4>1. 2 \in DOMAIN list'
        BY <1>4, <1>7
      <4> QED  BY <1>1, <1>8, <3>1, <4>1
    <3>2. CASE b \in live
      <4>1. PICK i \in DOMAIN list :
              At(i).data = b.at /\ At(i).length = b.len /\ ~At(i).isFree
        BY <3>2 DEF IInv, EveryBlockIsListed
      <4>2. i # 1
        BY <1>1, <4>1, ListFacts
      <4>3. i + 1 \in 3 .. Len(list) + 1 /\ (i + 1) - 1 = i /\ i + 1 \in DOMAIN list'
        BY <1>7, <4>2, ListFacts
      <4> QED  BY <1>9, <4>1, <4>3
    <3> QED  BY <1>3, <2>1, <3>1, <3>2
  <2>2. (\A b \in live : \E k \in DOMAIN list :
           At(k).data = b.at /\ At(k).length = b.len /\ ~At(k).isFree)'
    BY <2>1
  <2> QED  BY <2>2 DEF EveryBlockIsListed
<1> QED
  BY <1>10, <1>11, <1>12, <1>13, <1>14, <1>15, <1>17, <1>18, <1>19 DEF IInv

(***************************************************************************)
(* The free of the last slot undoes the split: the first region is as long *)
(* as it was, and the newest block leaves the list.                        *)
(***************************************************************************)
LEMMA FreeShape ==
  ASSUME IInv, NEW b \in live, FreeLast(b)
  PROVE  /\ regions[0].isFree /\ count > 1 /\ Newer \in Slots /\ Newer # 0
         /\ Len(list) >= 2 /\ list[2] = Newer
         /\ At(2).data = b.at /\ At(2).length = b.len
         /\ regions' \in [Slots -> Region]
         /\ regions'[0] = [regions[0] EXCEPT !.length = @ + b.len]
         /\ \A r \in Slots \ {0} : regions'[r] = regions[r]
         /\ list' \in Seq(Slots)
         /\ Len(list') = Len(list) - 1
         /\ list'[1] = 0
         /\ \A k \in 2 .. Len(list) - 1 : list'[k] = list[k + 1]
<1> USE SizeAssumption, MaxSlotsAssumption
<1>1. /\ Len(list) >= 2 /\ Position(b.at) = 2 /\ count > 1
      /\ list[2] = Newer /\ regions[Newer].prev = 0 /\ regions[0].isFree
  BY LastIsSecond DEF FreeLast
<1>2. /\ At(2).data = b.at /\ At(2).length = b.len /\ ~At(2).isFree
      /\ 2 \in DOMAIN list
  BY <1>1, BlockIsFound
<1>3. /\ regions' = GiveBack(b.len)
      /\ list' = Unlink(2)
  BY <1>1, <1>2 DEF FreeLast
<1>4. /\ count \in 2 .. MaxSlots /\ Newer \in Slots /\ Newer # 0 /\ 0 \in Slots
      /\ regions \in [Slots -> Region] /\ list \in Seq(Slots)
      /\ list[1] = 0 /\ 1 \in DOMAIN list
  BY <1>1, ListFacts DEF IInv, TypeOK, ListOK, Newer, Slots
<1>5. b.len \in Nat
  BY <1>2, ListFacts DEF Region
<1>6. /\ regions'[0] = [regions[0] EXCEPT !.length = @ + b.len]
      /\ \A r \in Slots \ {0} : regions'[r] = regions[r]
  BY <1>1, <1>3, <1>4 DEF GiveBack, Newer, IInv, OnlyFirstFree
<1>7. regions' \in [Slots -> Region]
  <2>1. regions'[0] \in Region
    <3>1. regions[0] \in Region /\ regions[0].length + b.len \in Nat
      BY <1>4, <1>5 DEF Region
    <3> DEFINE n == regions[0].length + b.len
    <3>2. regions'[0] = [regions[0] EXCEPT !.length = n]
      BY <1>6
    <3>3. n \in Nat
      BY <3>1
    <3> HIDE DEF n
    <3> QED  BY <3>1, <3>2, <3>3 DEF Region
  <2>2. \A r \in Slots \ {0} : regions'[r] \in Region
    BY <1>4, <1>6
  <2>3. regions' = [r \in Slots |-> regions'[r]]
    BY <1>3 DEF GiveBack
  <2> QED  BY <1>4, <2>1, <2>2, <2>3
<1>8. list' = SubSeq(list, 1, 1) \o SubSeq(list, 3, Len(list))
  <2>1. At(2).prev = 0
    BY <1>1 DEF At
  <2>2. \E j \in DOMAIN list : list[j] = At(2).prev
    BY <1>4, <2>1
  <2>3. (CHOOSE j \in DOMAIN list : list[j] = At(2).prev) = 1
    BY <1>4, <2>1, ListFacts
  <2>4. Unlink(2) = SubSeq(list, 1, 1) \o SubSeq(list, 2 + 1, Len(list))
    BY <2>2, <2>3, Zenon DEF Unlink
  <2>5. 2 + 1 = 3
    OBVIOUS
  <2> QED  BY <1>3, <2>4, <2>5, Zenon
<1>9. /\ list' \in Seq(Slots)
      /\ Len(list') = Len(list) - 1
      /\ list'[1] = 0
      /\ \A k \in 2 .. Len(list) - 1 : list'[k] = list[k + 1]
  BY <1>1, <1>4, <1>8, DropSecond
<1> QED
  BY <1>1, <1>2, <1>4, <1>6, <1>7, <1>9, Zenon

LEMMA FreeLastStep ==
  ASSUME IInv, NEW b \in live, FreeLast(b)
  PROVE  IInv'
<1> USE SizeAssumption, MaxSlotsAssumption
<1>1. /\ regions[0].isFree /\ count > 1 /\ Newer \in Slots /\ Newer # 0
      /\ Len(list) >= 2 /\ list[2] = Newer
      /\ At(2).data = b.at /\ At(2).length = b.len
      /\ regions' \in [Slots -> Region]
      /\ regions'[0] = [regions[0] EXCEPT !.length = @ + b.len]
      /\ \A r \in Slots \ {0} : regions'[r] = regions[r]
      /\ list' \in Seq(Slots)
      /\ Len(list') = Len(list) - 1
      /\ list'[1] = 0
      /\ \A k \in 2 .. Len(list) - 1 : list'[k] = list[k + 1]
  BY FreeShape
<1>2. /\ live' = live \ {b} /\ UNCHANGED <<count, capacity, fault>>
      /\ tail' \in {"none", "null", "wild"}
  BY DEF FreeLast, IInv, TypeOK
<1>3. /\ regions[0] \in Region /\ regions[0].data = 0 /\ 0 \in Slots
      /\ regions[0].length \in Nat /\ Len(list) \in Nat
  <2>1. 0 \in Slots
    BY DEF Slots
  <2> QED  BY <2>1, ListFacts DEF IInv, TypeOK, RegionsTile, Region
<1>4. b.len \in Nat /\ b.len > 0
  <2>1. 2 \in DOMAIN list
    BY <1>1, ListFacts
  <2> QED  BY <1>1, <2>1, ListFacts DEF Region
<1>5. /\ regions'[0].data = 0 /\ regions'[0].length = regions[0].length + b.len
      /\ regions'[0].isFree
  BY <1>1, <1>3 DEF Region
<1>6. DOMAIN list' = 1 .. Len(list) - 1
  BY <1>1, LenProperties
<1>7. /\ At(1)' = regions'[0]
      /\ AfterOf(1)' = AfterOf(2)
      /\ b.at = regions[0].length
  <2>1. At(1)' = regions'[0]
    BY <1>1 DEF At
  <2>2. AfterOf(1)' = regions'[0].data + regions'[0].length
    BY <2>1 DEF AfterOf
  <2>3. 1 \in DOMAIN list /\ 1 < Len(list)
    BY <1>1, ListFacts
  <2>4. At(2).data = AfterOf(1)
    BY <2>3 DEF IInv, RegionsTile
  <2>5. b.at = regions[0].length
    BY <1>1, <2>4, ListFacts
  <2>6. AfterOf(2) = regions[0].length + b.len
    BY <1>1, <2>5 DEF AfterOf
  <2> QED  BY <1>3, <1>4, <1>5, <2>1, <2>2, <2>5, <2>6
<1>8. ASSUME NEW k \in 2 .. Len(list) - 1
      PROVE  /\ k + 1 \in DOMAIN list /\ k + 1 > 2
             /\ list'[k] = list[k + 1]
             /\ list[k + 1] # 0 /\ list[k + 1] # Newer
             /\ list[k + 1] \in Slots
             /\ At(k)' = At(k + 1)
             /\ AfterOf(k)' = AfterOf(k + 1)
  <2>1. k + 1 \in DOMAIN list /\ k + 1 > 2 /\ 2 \in DOMAIN list
    BY <1>1, <1>3, ListFacts
  <2>2. list'[k] = list[k + 1]
    BY <1>1
  <2>3. list[k + 1] # 0 /\ list[k + 1] \in Slots
    BY <2>1, ListFacts
  <2>4. list[k + 1] # Newer
    BY <1>1, <2>1 DEF IInv, ListOK
  <2>5. At(k)' = At(k + 1)
    BY <1>1, <2>2, <2>3 DEF At
  <2> QED  BY <2>1, <2>2, <2>3, <2>4, <2>5 DEF AfterOf
<1>9. TypeOK'
  BY <1>1, <1>2 DEF IInv, TypeOK
<1>10. ListOK'
  <2>1. ASSUME NEW k \in DOMAIN list', k # 1
        PROVE  list'[k] \in 1 .. count - 1
    <3>1. k \in 2 .. Len(list) - 1
      BY <1>3, <1>6, <2>1
    <3> QED  BY <1>8, <3>1 DEF IInv, ListOK
  <2>2. ASSUME NEW j \in DOMAIN list', NEW k \in DOMAIN list', list'[j] = list'[k]
        PROVE  j = k
    <3>1. \A m \in DOMAIN list' : m # 1 => m \in 2 .. Len(list) - 1 /\ list'[m] # 0
      BY <1>3, <1>6, <1>8
    <3>2. CASE j = 1 \/ k = 1
      BY <1>1, <2>2, <3>1, <3>2
    <3>3. CASE j # 1 /\ k # 1
      <4>1. list[j + 1] = list[k + 1]
        BY <1>8, <2>2, <3>1, <3>3
      <4>2. j + 1 \in DOMAIN list /\ k + 1 \in DOMAIN list
        BY <1>8, <3>1, <3>3
      <4>3. j + 1 = k + 1
        BY <4>1, <4>2 DEF IInv, ListOK
      <4> QED  BY <1>3, <1>6, <4>3
    <3> QED  BY <3>2, <3>3
  <2>3. Len(list') >= 1
    BY <1>1, <1>3
  <2> QED  BY <1>1, <1>2, <2>1, <2>2, <2>3 DEF ListOK
<1>11. OnlyFirstFree' /\ Unused'
  <2>1. count' = count /\ ~(0 >= count)
    BY <1>1, <1>2 DEF IInv, TypeOK
  <2>2. OnlyFirstFree'
    BY <1>1 DEF IInv, OnlyFirstFree
  <2>3. ASSUME NEW r \in Slots, r >= count
        PROVE  regions'[r] = Blank
    BY <1>1, <2>1, <2>3 DEF IInv, Unused
  <2> QED  BY <2>1, <2>2, <2>3 DEF Unused
<1>12. RegionsTile'
  <2>1. (At(1).data = 0)'
    BY <1>5, <1>7
  <2>2. ASSUME NEW k \in DOMAIN list'
        PROVE  At(k)'.length > 0
    <3>1. CASE k = 1
      BY <1>3, <1>4, <1>5, <1>7, <3>1
    <3>2. CASE k # 1
      <4>1. k \in 2 .. Len(list) - 1
        BY <1>3, <1>6, <3>2
      <4> QED  BY <1>8, <4>1, ListFacts
    <3> QED  BY <3>1, <3>2
  <2>3. ASSUME NEW k \in DOMAIN list', k < Len(list')
        PROVE  At(k + 1)'.data = AfterOf(k)'
    <3>1. k + 1 \in 2 .. Len(list) - 1
      BY <1>1, <1>3, <1>6, <2>3
    <3>2. At(k + 1)' = At((k + 1) + 1)
      BY <1>8, <3>1
    <3>3. AfterOf(k)' = AfterOf(k + 1)
      <4>1. CASE k = 1
        BY <1>7, <4>1
      <4>2. CASE k # 1
        <5>1. k \in 2 .. Len(list) - 1
          BY <1>3, <1>6, <4>2
        <5> QED  BY <1>8, <5>1
      <4> QED  BY <4>1, <4>2
    <3>4. k + 1 \in DOMAIN list /\ k + 1 < Len(list)
      BY <1>3, <3>1, ListFacts
    <3> QED  BY <3>2, <3>3, <3>4 DEF IInv, RegionsTile
  <2>4. ASSUME NEW n, n = Len(list')
        PROVE  AfterOf(n)' = Size
    <3>1. n = Len(list) - 1
      BY <1>1, <2>4
    <3>2. AfterOf(n)' = AfterOf(Len(list))
      <4>1. CASE Len(list) = 2
        <5>1. n = 1
          BY <3>1, <4>1
        <5> QED  BY <1>7, <4>1, <5>1
      <4>2. CASE Len(list) # 2
        <5>1. \A m \in Nat : m >= 2 /\ m # 2 => m - 1 \in 2 .. m - 1 /\ (m - 1) + 1 = m
          OBVIOUS
        <5>2. n \in 2 .. Len(list) - 1 /\ n + 1 = Len(list)
          BY <1>1, <1>3, <3>1, <4>2, <5>1, Zenon
        <5> QED  BY <1>8, <5>2
      <4> QED  BY <4>1, <4>2
    <3> QED  BY <3>2 DEF IInv, RegionsTile
  <2>5. (\A k \in DOMAIN list : k < Len(list) => At(k + 1).data = AfterOf(k))'
    BY <2>3
  <2>6. (AfterOf(Len(list)) = Size)'
    BY <2>4
  <2>7. (\A k \in DOMAIN list : At(k).length > 0)'
    BY <2>2
  <2> QED  BY <2>1, <2>5, <2>6, <2>7 DEF RegionsTile
<1>13. Ordered'
  <2>1. ASSUME NEW j \in DOMAIN list', NEW k \in DOMAIN list', j < k
        PROVE  AfterOf(j)' <= At(k)'.data
    <3>1. k \in 2 .. Len(list) - 1
      BY <1>3, <1>6, <2>1
    <3>2. AfterOf(j)' = AfterOf(j + 1)
      <4>1. CASE j = 1
        BY <1>7, <4>1
      <4>2. CASE j # 1
        <5>1. j \in 2 .. Len(list) - 1
          BY <1>3, <1>6, <4>2
        <5> QED  BY <1>8, <5>1
      <4> QED  BY <4>1, <4>2
    <3>3. j + 1 \in DOMAIN list /\ k + 1 \in DOMAIN list /\ j + 1 < k + 1
      BY <1>3, <1>6, <2>1, ListFacts
    <3>4. AfterOf(j + 1) <= At(k + 1).data
      BY <3>3 DEF IInv, Ordered
    <3> QED  BY <1>8, <3>1, <3>2, <3>4
  <2>2. (\A j, k \in DOMAIN list : j < k => AfterOf(j) <= At(k).data)'
    BY <2>1
  <2> QED  BY <2>2 DEF Ordered
<1>14. Newer' = Newer
  BY <1>2 DEF Newer
<1>15. ASSUME NEW k \in DOMAIN list', k # 1
       PROVE  k \in 2 .. Len(list) - 1
  BY <1>3, <1>6, <1>15
<1>16. LastSlot'
  <2>1. \A k \in DOMAIN list' : list'[k] # Newer
    BY <1>1, <1>8, <1>15
  <2>2. regions'[Newer].data < regions'[0].length
    <3>1. regions[Newer].data = b.at
      BY <1>1 DEF At
    <3>2. regions'[Newer].data = regions[0].length
      BY <1>1, <1>7, <3>1
    <3> QED  BY <1>3, <1>4, <1>5, <3>2
  <2>3. (/\ count > 1 /\ regions[0].isFree
         /\ Unlisted(Newer) /\ regions[Newer].data < regions[0].length)'
    BY <1>1, <1>2, <1>5, <1>14, <2>1, <2>2 DEF Unlisted
  <2> QED  BY <2>3 DEF LastSlot
<1>17. PrevIsNotFirst'
  <2>1. ASSUME NEW k \in DOMAIN list', k # 1
        PROVE  regions'[list'[k]].prev # 0
    <3>1. /\ list'[k] = list[k + 1] /\ k + 1 \in DOMAIN list /\ k + 1 > 2
          /\ list[k + 1] # 0 /\ list[k + 1] # Newer /\ list[k + 1] \in Slots
      BY <1>8, <1>15, <2>1
    <3>2. regions'[list'[k]] = regions[list[k + 1]]
      BY <1>1, <3>1
    <3>3. k + 1 # 1
      BY <3>1
    <3> QED  BY <1>1, <3>1, <3>2, <3>3 DEF IInv, PrevIsNotFirst
  <2>2. (\A k \in DOMAIN list : k # 1 /\ list[k] # Newer => regions[list[k]].prev # 0)'
    BY <2>1
  <2> QED  BY <2>2 DEF PrevIsNotFirst
<1>18. EveryBlockIsListed'
  <2>1. ASSUME NEW c \in live'
        PROVE  \E k \in DOMAIN list' :
                 At(k)'.data = c.at /\ At(k)'.length = c.len /\ ~At(k)'.isFree
    <3>1. c \in live /\ c # b /\ b \in Block /\ c \in Block
      BY <1>2 DEF IInv, TypeOK
    <3>2. PICK i \in DOMAIN list :
            At(i).data = c.at /\ At(i).length = c.len /\ ~At(i).isFree
      BY <3>1 DEF IInv, EveryBlockIsListed
    <3>3. i # 1
      BY <1>1, <3>2, ListFacts
    <3>4. i # 2
      BY <1>1, <3>1, <3>2 DEF Block
    <3>5. i - 1 \in 2 .. Len(list) - 1 /\ (i - 1) + 1 = i /\ i - 1 \in DOMAIN list'
      BY <1>3, <1>6, <3>3, <3>4, ListFacts
    <3>6. At(i - 1)' = At(i)
      BY <1>8, <3>5
    <3> QED  BY <3>2, <3>5, <3>6
  <2>2. (\A c \in live : \E k \in DOMAIN list :
           At(k).data = c.at /\ At(k).length = c.len /\ ~At(k).isFree)'
    BY <2>1
  <2> QED  BY <2>2 DEF EveryBlockIsListed
<1> QED
  BY <1>9, <1>10, <1>11, <1>12, <1>13, <1>16, <1>17, <1>18 DEF IInv

LEMMA StepInv == IInv /\ [Next]_vars => IInv'
<1> SUFFICES ASSUME IInv, [Next]_vars PROVE IInv'
  OBVIOUS
<1>1. /\ tail \in {"none", "null", "wild"} /\ capacity \in Nat /\ fault \in BOOLEAN
      /\ (tail # "none") \in BOOLEAN
  BY DEF IInv, TypeOK
<1>2. ASSUME NEW s \in Requests, NEW cap \in Growth, AllocStep(s, cap)
      PROVE  IInv'
  <2>1. CASE AllocExact(s, cap)
    BY <1>2, <2>1, ExactStep DEF AllocStep
  <2>2. CASE AllocSplit(s, cap)
    BY <1>2, <2>2, SplitStep DEF AllocStep
  <2>3. CASE AllocNull(s, cap)
    BY <1>1, <2>3, KeepInv, GrowthFacts DEF AllocNull
  <2>4. CASE AllocFault(s, cap)
    BY <1>1, <2>4, KeepInv DEF AllocFault
  <2> QED  BY <1>2, <2>1, <2>2, <2>3, <2>4 DEF AllocStep
<1>3. ASSUME NEW b \in live, FreeStep(b)
      PROVE  IInv'
  <2>1. CASE FreeLast(b)
    BY <2>1, FreeLastStep
  <2>2. CASE FreeOther(b)
    BY <1>1, <2>2, KeepInv DEF FreeOther
  <2>3. CASE FreeBeyond(b)
    BY <1>1, <2>3, KeepInv DEF FreeBeyond
  <2> QED  BY <1>3, <2>1, <2>2, <2>3 DEF FreeStep
<1>4. CASE FreeUnknown
  BY <1>1, <1>4, KeepInv DEF FreeUnknown
<1>5. CASE Halted \/ UNCHANGED vars
  BY <1>1, <1>5, KeepInv DEF Halted, vars
<1> QED
  BY <1>2, <1>3, <1>4, <1>5 DEF Next

LEMMA Invariant == Spec => []IInv
BY InitInv, StepInv, PTL DEF Spec

-----------------------------------------------------------------------------
(* What follows from it. *)

LEMMA InvNothingToAbsorb == IInv => NothingToAbsorb
<1> SUFFICES ASSUME IInv, NEW i \in DOMAIN list, list[i] # 0, ~IsLast(At(i).data)
             PROVE  ~Absorbs(i)
  BY DEF NothingToAbsorb
<1>1. /\ i \in 2 .. Len(list) /\ list[1] = 0 /\ list[i] \in Slots
      /\ 0 \in Slots /\ list[i] # Newer
  <2>1. list[i] # Newer
    BY DEF IsLast, Newer, At
  <2> QED  BY <2>1, ListFacts DEF IInv, ListOK, Slots
<1>2. ~(i < Len(list) /\ At(i + 1).isFree)
  <2>1. i < Len(list) => i + 1 \in DOMAIN list /\ i + 1 # 1
    BY <1>1, ListFacts
  <2> QED  BY <2>1, ListFacts DEF IInv, OnlyFirstFree, At
<1>3. ~(At(i).prev # Null /\ regions[At(i).prev].isFree)
  <2>1. At(i).prev \in Slots \cup {Null}
    BY ListFacts DEF Region
  <2>2. At(i).prev = 0 => ~regions[0].isFree
    BY <1>1 DEF IInv, PrevIsNotFirst, At
  <2> QED  BY <2>1, <2>2 DEF IInv, OnlyFirstFree
<1> QED
  BY <1>2, <1>3 DEF Absorbs

\* While the first region is free, every block held lies behind it.
LEMMA BlocksBehindFirst ==
  ASSUME IInv, regions[0].isFree, NEW c \in live
  PROVE  regions[0].length <= c.at
<1>1. PICK i \in DOMAIN list : At(i).data = c.at /\ ~At(i).isFree
  BY DEF IInv, EveryBlockIsListed
<1>2. i # 1 /\ 1 \in DOMAIN list /\ 1 < i
  BY <1>1, ListFacts
<1>3. AfterOf(1) <= At(i).data
  BY <1>2 DEF IInv, Ordered
<1> QED
  BY <1>1, <1>3, ListFacts

\* The block alloc returns is one Allocator may return.
LEMMA AllocImplements ==
  ASSUME IInv, IInv', NEW b, live' = live \cup {b}, regions[0].isFree,
         EndOf(b) = regions[0].length
  PROVE  A!Next
<1>1. b \in Block
  BY DEF IInv, TypeOK
<1>2. EndOf(b) <= Size
  BY ListFacts, InRange
<1>3. \A c \in live : Apart(b, c)
  BY BlocksBehindFirst DEF Apart
<1>4. A!Alloc(b)
  BY <1>2, <1>3 DEF A!Alloc, A!EndOf, A!Apart, EndOf, Apart
<1> QED
  BY <1>1, <1>4 DEF A!Next, A!Block, Block

LEMMA StepImplements == IInv /\ IInv' /\ [Next]_vars => [A!Next]_live
<1> SUFFICES ASSUME IInv, IInv', [Next]_vars PROVE [A!Next]_live
  OBVIOUS
<1>1. ASSUME NEW s \in Requests, NEW cap \in Growth, AllocStep(s, cap)
      PROVE  [A!Next]_live
  <2>1. s \in Nat /\ At(1) = regions[0] /\ At(1).data = 0 /\ At(1).length \in Nat
        /\ list[1] = 0
    BY ListFacts, RequestsAssumption DEF Region, IInv, RegionsTile, ListOK
  <2>2. CASE AllocExact(s, cap)
    <3>1. FirstFit(s, cap) = 1 /\ regions[0].isFree
      BY <2>2, FirstFitIsFirst DEF AllocExact
    <3> DEFINE b == [at |-> 0, len |-> s]
    <3>2. live' = live \cup {b} /\ regions[0].length = s
      BY <2>1, <2>2, <3>1 DEF AllocExact
    <3>3. EndOf(b) = regions[0].length
      BY <2>1, <3>2 DEF EndOf
    <3> HIDE DEF b
    <3> QED  BY <3>1, <3>2, <3>3, AllocImplements
  <2>3. CASE AllocSplit(s, cap)
    <3>1. FirstFit(s, cap) = 1 /\ regions[0].isFree
      BY <2>3, FirstFitIsFirst DEF AllocSplit
    <3> DEFINE b == [at |-> regions[0].length - s, len |-> s]
    <3>2. Splittee(1, s).data = regions[0].length - s
      BY ListFacts DEF Splittee
    <3>3. live' = live \cup {b}
      BY <2>3, <3>1, <3>2 DEF AllocSplit
    <3>4. EndOf(b) = regions[0].length
      BY <2>1 DEF EndOf
    <3> HIDE DEF b
    <3> QED  BY <3>1, <3>3, <3>4, AllocImplements
  <2>4. CASE AllocNull(s, cap) \/ AllocFault(s, cap)
    BY <2>4 DEF AllocNull, AllocFault
  <2> QED  BY <1>1, <2>2, <2>3, <2>4 DEF AllocStep
<1>2. ASSUME NEW b \in live, FreeStep(b)
      PROVE  [A!Next]_live
  <2>1. CASE FreeLast(b) \/ FreeOther(b)
    BY <2>1 DEF FreeLast, FreeOther, A!Next, A!Free
  <2>2. CASE FreeBeyond(b)
    BY <2>2 DEF FreeBeyond
  <2> QED  BY <1>2, <2>1, <2>2 DEF FreeStep
<1>3. CASE FreeUnknown \/ Halted \/ UNCHANGED vars
  BY <1>3 DEF FreeUnknown, Halted, vars
<1> QED
  BY <1>1, <1>2, <1>3 DEF Next

-----------------------------------------------------------------------------
(* The variables keep their types, whatever is allocated and freed. *)
THEOREM TypeCorrect == Spec => []TypeOK
<1>1. IInv => TypeOK
  BY DEF IInv
<1> QED  BY <1>1, Invariant, PTL

(***************************************************************************)
(* The regions fpx_arena_alloc and fpx_arena_free leave in the list always *)
(* tile the range of the arena: no byte in two of them, none lost.         *)
(***************************************************************************)
THEOREM ArenaIsTiled == Spec => []RegionsTile
<1>1. IInv => RegionsTile
  BY DEF IInv
<1> QED  BY <1>1, Invariant, PTL

(***************************************************************************)
(* fpx_arena_free finds each block the program holds, with the size that   *)
(* was asked for, and fpx_arena_alloc does not hand it out again.          *)
(***************************************************************************)
THEOREM HeldBlocksAreListed == Spec => []EveryBlockIsListed
<1>1. IInv => EveryBlockIsListed
  BY DEF IInv
<1> QED  BY <1>1, Invariant, PTL

(***************************************************************************)
(* The merging loops of fpx_arena_free never have anything to merge: the   *)
(* arena never joins the regions of freed blocks.                          *)
(***************************************************************************)
THEOREM NeverMerges == Spec => []NothingToAbsorb
BY Invariant, InvNothingToAbsorb, PTL

(***************************************************************************)
(* The arena implements Allocator: every block fpx_arena_alloc returns     *)
(* lies in the range and overlaps none that is held.                       *)
(***************************************************************************)
THEOREM ArenaImplementsAllocator == Spec => ImplementsAllocator
<1>1. Init => A!Init
  BY DEF Init, A!Init
<1> QED
  BY <1>1, Invariant, StepImplements, PTL DEF Spec, ImplementsAllocator, A!Spec
===============================================================================
