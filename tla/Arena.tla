-------------------------------- MODULE Arena --------------------------------
(***************************************************************************)
(* The memory arena of src/src/alloc/arena.c: one range of Size bytes and  *)
(* an array of regions that describes it.  fpx_arena_alloc cuts the block  *)
(* it returns off the end of a free region; fpx_arena_free gives a block   *)
(* back when its region is the last of the array.                          *)
(*                                                                         *)
(* The array is regions, the list its __next_offset fields link is list, a *)
(* sequence of slots that starts with slot 0.  An address is an offset in  *)
(* the range.  The last region of the list normally has no next offset;    *)
(* the free of a last region writes the offset of NULL instead, relative   *)
(* to where the array is, and tail says what that offset leads to.         *)
(*                                                                         *)
(* Programs free the blocks they hold, and pointers no region has.         *)
(***************************************************************************)
EXTENDS Integers, SequencesExt

CONSTANTS
  Size,       \* the size the arena was created with, below 2^32
  Capacity,   \* the regions a page holds (page_size / sizeof(fpx_region))
  Requests,   \* the sizes the program asks for
  MaxSlots,   \* bound: __region_count never passes it
  MayFail     \* whether mmap may fail to give a larger array

ASSUME SizeAssumption == Size \in Nat \ {0}
ASSUME CapacityAssumption == Capacity \in Nat /\ Capacity > 1
ASSUME RequestsAssumption == Requests \subseteq Nat \ {0}
ASSUME MaxSlotsAssumption == MaxSlots \in Nat \ {0}
ASSUME MayFailAssumption == MayFail \in BOOLEAN

Slots == 0 .. MaxSlots - 1
Null  == -1     \* no address, and no slot

VARIABLES
  regions,    \* __regions: slot -> region
  list,       \* the slots in the order of __next_offset
  tail,       \* what follows the last of them: nothing, NULL or a wild pointer
  count,      \* __region_count
  capacity,   \* __region_capacity
  live,       \* the blocks the program holds
  fault       \* the process has touched memory it does not own

vars == <<regions, list, tail, count, capacity, live, fault>>

Region == [data : 0 .. Size - 1 \cup {Null}, length : Nat, isFree : BOOLEAN,
           prev : Slots \cup {Null}]

Block == [at : 0 .. Size - 1, len : 1 .. Size]

EndOf(b) == b.at + b.len

Apart(b, c) == EndOf(b) <= c.at \/ EndOf(c) <= b.at

At(i)    == regions[list[i]]          \* the region at position i of the list
AfterOf(i) == At(i).data + At(i).length

TypeOK ==
  /\ regions \in [Slots -> Region]
  /\ list \in Seq(Slots)
  /\ tail \in {"none", "null", "wild"}
  /\ count \in 1 .. MaxSlots
  /\ capacity \in Nat
  /\ live \subseteq Block
  /\ fault \in BOOLEAN

\* A slot of the array nothing has been written to: a page of zeroes.
Blank == [data |-> Null, length |-> 0, isFree |-> FALSE, prev |-> Null]

Init ==
  /\ regions = [s \in Slots |->
       IF s = 0 THEN [data |-> 0, length |-> Size, isFree |-> TRUE, prev |-> Null]
                ELSE Blank]
  /\ list = <<0>>
  /\ tail = "none"
  /\ count = 1
  /\ capacity = Capacity
  /\ live = {}
  /\ fault = FALSE

-----------------------------------------------------------------------------
(* fpx_arena_alloc *)

\* _fpx_arena_double_reg_cap runs when the array is full; its failure is
\* not looked at.
Growth ==
  IF count = capacity
    THEN {2 * capacity} \cup (IF MayFail THEN {capacity} ELSE {})
    ELSE {capacity}

\* NULL's offset from the old array leads elsewhere from the new one.
TailIn(cap) == IF cap # capacity /\ tail = "null" THEN "wild" ELSE tail

\* The positions whose region the walk over the list takes or splits.  With
\* no slot left to split into, only an exact fit helps.
Fits(s, cap) ==
  {i \in DOMAIN list :
     /\ At(i).isFree
     /\ IF count < cap THEN At(i).length >= s ELSE At(i).length = s}

FirstFit(s, cap) == CHOOSE i \in Fits(s, cap) : \A j \in Fits(s, cap) : i <= j

\* Mutant: the region that is taken whole is still marked as free.
AllocExactStillFree(s, cap) ==
  LET i == FirstFit(s, cap)
  IN  /\ Fits(s, cap) # {}
      /\ At(i).length = s
      /\ live' = live \cup {[at |-> At(i).data, len |-> s]}
      /\ tail' = TailIn(cap)
      /\ count' = count + 1
      /\ capacity' = cap
      /\ UNCHANGED <<regions, list, fault>>

\* A free region of exactly this size is taken whole.  The count goes up,
\* although no slot is used.
AllocExact(s, cap) ==
  LET i == FirstFit(s, cap)
  IN  /\ Fits(s, cap) # {}
      /\ At(i).length = s
      /\ regions' = [regions EXCEPT ![list[i]].isFree = FALSE]
      /\ live' = live \cup {[at |-> At(i).data, len |-> s]}
      /\ tail' = TailIn(cap)
      /\ count' = count + 1
      /\ capacity' = cap
      /\ UNCHANGED <<list, fault>>

\* Mutant: the region that is split keeps its length.
SplitterUncut(i, s) == At(i)

\* The region at position i after s bytes are cut off its end.
Splitter(i, s) == [At(i) EXCEPT !.length = @ - s]

\* Mutant: the address is computed before the length is cut.
SplitteeUncut(i, s) == [data |-> AfterOf(i), length |-> s, isFree |-> FALSE,
                        prev |-> list[i]]

\* The new region, which takes these bytes.
Splittee(i, s) == [data |-> AfterOf(i) - s, length |-> s, isFree |-> FALSE,
                   prev |-> list[i]]

\* The array with slot count holding the new region, in the list behind i.
Split(i, s) ==
  LET next == IF i < Len(list) THEN list[i + 1] ELSE Null
  IN  [r \in Slots |->
         CASE r = list[i] -> Splitter(i, s)
           [] r = count   -> Splittee(i, s)
           [] r = next    -> [regions[r] EXCEPT !.prev = count]
           [] OTHER       -> regions[r]]

AllocSplit(s, cap) ==
  LET i == FirstFit(s, cap)
  IN  /\ Fits(s, cap) # {}
      /\ At(i).length > s
      /\ i < Len(list) \/ TailIn(cap) # "wild"
      /\ regions' = Split(i, s)
      /\ list' = InsertAt(list, i + 1, count)
      /\ live' = live \cup {[at |-> Splittee(i, s).data, len |-> s]}
      /\ tail' = TailIn(cap)
      /\ count' = count + 1
      /\ capacity' = cap
      /\ UNCHANGED fault

\* Nothing fits: the walk reaches the end of the list and returns NULL.
AllocNull(s, cap) ==
  /\ Fits(s, cap) = {}
  /\ TailIn(cap) # "wild"
  /\ tail' = TailIn(cap)
  /\ capacity' = cap
  /\ UNCHANGED <<regions, list, count, live, fault>>

\* The walk, or the write to the next region's __prev_offset, follows a
\* wild offset.
AllocFault(s, cap) ==
  /\ TailIn(cap) = "wild"
  /\ \/ Fits(s, cap) = {}
     \/ /\ Fits(s, cap) # {}
        /\ At(FirstFit(s, cap)).length > s
        /\ FirstFit(s, cap) = Len(list)
  /\ fault' = TRUE
  /\ UNCHANGED <<regions, list, tail, count, capacity, live>>

-----------------------------------------------------------------------------
(* fpx_arena_free *)

\* The position of the region a walk over the list finds for this address.
Found(d)  == {i \in DOMAIN list : At(i).data = d}
Position(d) == CHOOSE i \in Found(d) : \A j \in Found(d) : i <= j

\* The data of the last slot in use; without a free slot an exact fit has
\* pushed the count past the array.
IsLast(d) == regions[count - 1].data = d

\* Mutant: no region gets the freed length.
GiveBackNothing(len) == regions

\* Every free region of the array gets the freed length.
GiveBack(len) ==
  [r \in Slots |->
     IF r < count - 1 /\ regions[r].isFree
       THEN [regions[r] EXCEPT !.length = @ + len] ELSE regions[r]]

\* Mutant: the predecessor leads to the region after the successor.
UnlinkTwo(i) ==
  LET j == CHOOSE j \in DOMAIN list : list[j] = At(i).prev
  IN  SubSeq(list, 1, j) \o SubSeq(list, i + 2, Len(list))

\* The freed region's predecessor now leads to its successor.
Unlink(i) ==
  IF \E j \in DOMAIN list : list[j] = At(i).prev
    THEN LET j == CHOOSE j \in DOMAIN list : list[j] = At(i).prev
         IN  SubSeq(list, 1, j) \o SubSeq(list, i + 1, Len(list))
    ELSE list

\* The last region of the array is dropped.  The count stays, and so does
\* the __prev_offset of the region behind it.
FreeLast(b) ==
  LET i == Position(b.at)
  IN  /\ count <= capacity
      /\ Found(b.at) # {} /\ IsLast(b.at)
      /\ regions' = GiveBack(At(i).length)
      /\ list' = Unlink(i)
      /\ tail' = IF i = Len(list) /\ tail = "none" THEN "null" ELSE tail
      /\ live' = live \ {b}
      /\ UNCHANGED <<count, capacity, fault>>

\* free would merge the region at position i with a free neighbour.
Absorbs(i) ==
  \/ i < Len(list) /\ At(i + 1).isFree
  \/ At(i).prev # Null /\ regions[At(i).prev].isFree

\* Any other region stays as it is, and is never handed out again: its
\* __is_free is not set, and it has no free neighbour (NothingToAbsorb).
FreeOther(b) ==
  /\ count <= capacity
  /\ Found(b.at) # {} /\ ~IsLast(b.at) /\ ~Absorbs(Position(b.at))
  /\ live' = live \ {b}
  /\ UNCHANGED <<regions, list, tail, count, capacity, fault>>

\* The array has no slot count - 1.
FreeBeyond(b) ==
  /\ count > capacity
  /\ Found(b.at) # {}
  /\ fault' = TRUE
  /\ UNCHANGED <<regions, list, tail, count, capacity, live>>

\* A pointer no region has: return 0, unless the walk runs off the list.
FreeUnknown ==
  /\ fault' = (tail # "none")
  /\ UNCHANGED <<regions, list, tail, count, capacity, live>>

-----------------------------------------------------------------------------
AllocStep(s, cap) ==
  /\ count < MaxSlots
  /\ \/ AllocExact(s, cap)
     \/ AllocSplit(s, cap)
     \/ AllocNull(s, cap)
     \/ AllocFault(s, cap)

FreeStep(b) == FreeLast(b) \/ FreeOther(b) \/ FreeBeyond(b)

Halted == fault /\ UNCHANGED vars

Next ==
  \/ /\ ~fault
     /\ \/ \E s \in Requests, cap \in Growth : AllocStep(s, cap)
        \/ \E b \in live : FreeStep(b)
        \/ FreeUnknown
  \/ Halted

Spec == Init /\ [][Next]_vars

-----------------------------------------------------------------------------
(* Properties *)

(***************************************************************************)
(* The regions of the list, in its order, tile the range: each starts      *)
(* where the one before it ends, and none is empty.  No byte is in two     *)
(* regions, and none is forgotten by both the list and the blocks.         *)
(***************************************************************************)
RegionsTile ==
  /\ At(1).data = 0
  /\ \A i \in DOMAIN list : At(i).length > 0
  /\ \A i \in DOMAIN list : i < Len(list) => At(i + 1).data = AfterOf(i)
  /\ AfterOf(Len(list)) = Size

(***************************************************************************)
(* Whatever was freed in between, each block the program holds still is a  *)
(* region of the list, with its size, that alloc does not take for a free  *)
(* one: fpx_arena_free finds it and does not run off the end of the list.  *)
(***************************************************************************)
EveryBlockIsListed ==
  \A b \in live : \E i \in DOMAIN list :
    At(i).data = b.at /\ At(i).length = b.len /\ ~At(i).isFree

(***************************************************************************)
(* The loops of fpx_arena_free that merge a region with its neighbours     *)
(* never run: a block that is not the last of the array has no free region *)
(* next to it.  The first region of the list is free and next to the       *)
(* newest block, but __prev_offset still leads the block behind that one   *)
(* to the newest, once it has been freed.                                  *)
(***************************************************************************)
NothingToAbsorb ==
  \A i \in DOMAIN list :
    list[i] # 0 /\ ~IsLast(At(i).data) => ~Absorbs(i)

(***************************************************************************)
(* "if a nullptr is returned, it is because there is not enough space":    *)
(* alloc does not refuse a request that fits in the range, with a slot     *)
(* left, when the program holds no block, so that nothing is in use and    *)
(* nothing fragmented.                                                     *)
(***************************************************************************)
NullMeansNoSpace ==
  [][\A s \in Requests, cap \in Growth :
       AllocNull(s, cap) /\ count < cap /\ s <= Size => live # {}]_vars

\* The arena implements Allocator: a block it returns lies in the range and
\* overlaps no block the program still holds.
A == INSTANCE Allocator
ImplementsAllocator == A!Spec
===============================================================================
