-------------------------- MODULE SimpleAllocator --------------------------
(***************************************************************************)
(* lib/intel_allocator_simple.c: the address allocator igt tests use for   *)
(* GPU virtual memory.  Free space is a list of holes from high to low     *)
(* addresses; objects are placed at the top or at the bottom of a hole,    *)
(* areas are reserved wherever the caller wants them, and what is given    *)
(* back is merged with the holes next to it.                               *)
(*                                                                         *)
(* Every function runs under the mutex of the allocator: one function, one *)
(* action.  An igt_assert() about an argument is a guard: the caller that  *)
(* fails it ends.  One about the allocator itself is in the properties.    *)
(*                                                                         *)
(* A definition marked "mutant" is a deliberately wrong variant of the one *)
(* below it and is used by no other definition.                            *)
(***************************************************************************)
EXTENDS Integers, Sequences, FiniteSets, FiniteSetsExt

CONSTANTS
  Handles,         \* handles of GPU objects
  Start, End,      \* the address range the allocator was opened for
  Top,             \* 2^48: DECANONICAL() takes an address modulo this
  Sizes,           \* bound: sizes that are asked for
  Alignments,      \* bound: alignments, the default of the allocator included
  DefaultStrategy  \* heap->strategy

Strategies == {"LOW_TO_HIGH", "HIGH_TO_LOW"}

ASSUME SimpleAllocatorAssumption ==
  /\ Start \in Nat /\ End \in Nat /\ Start < End
  /\ Top \in Nat \ {0}
  /\ Sizes \subseteq Nat \ {0} /\ Alignments \subseteq Nat \ {0}
  /\ DefaultStrategy \in Strategies

VARIABLES
  holes,     \* heap.holes
  objects,   \* ials->objects: one record for each handle
  reserved,  \* ials->reserved: one record for each offset
  allocated_size, allocated_objects, reserved_size, reserved_areas

heap  == <<holes>>
stats == <<allocated_size, allocated_objects, reserved_size, reserved_areas>>
vars  == <<heap, objects, reserved, stats>>

Hole(o, s) == [offset |-> o, size |-> s]
HoleEnd(h) == h.offset + h.size

Init ==
  /\ holes = <<Hole(Start, End - Start)>>
  /\ objects = {} /\ reserved = {}
  /\ allocated_size = 0 /\ allocated_objects = 0
  /\ reserved_size = 0 /\ reserved_areas = 0

-----------------------------------------------------------------------------
(***************************************************************************)
(* simple_vma_heap_free(): the hole given back becomes one with the next   *)
(* higher and the next lower hole where these are adjacent.                *)
(***************************************************************************)

\* How many holes there are before the first with an offset <= o.
Higher(o) ==
  CHOOSE n \in 0..Len(holes) :
    /\ \A i \in 1..n : holes[i].offset > o
    /\ n < Len(holes) => holes[n + 1].offset <= o

HighAdjacent(o, s) == Higher(o) > 0 /\ o + s = holes[Higher(o)].offset
LowAdjacent(o)     == Higher(o) < Len(holes) /\ HoleEnd(holes[Higher(o) + 1]) = o

Merged(o, s) ==
  LET low  == IF LowAdjacent(o) THEN holes[Higher(o) + 1].offset ELSE o
      high == IF HighAdjacent(o, s) THEN HoleEnd(holes[Higher(o)]) ELSE o + s
  IN Hole(low, high - low)

HeapFreeUnmerged(o, s) ==  \* mutant
  SubSeq(holes, 1, Higher(o)) \o <<Hole(o, s)>> \o SubSeq(holes, Higher(o) + 1, Len(holes))

HeapFree(o, s) ==
  SubSeq(holes, 1, IF HighAdjacent(o, s) THEN Higher(o) - 1 ELSE Higher(o))
    \o <<Merged(o, s)>>
    \o SubSeq(holes, IF LowAdjacent(o) THEN Higher(o) + 2 ELSE Higher(o) + 1, Len(holes))

(***************************************************************************)
(* simple_vma_hole_alloc(): what remains of hole i above and below.        *)
(***************************************************************************)
AboveForgotten(h, o, s) == <<>>  \* mutant
AboveTooLong(h, o, s) == IF HoleEnd(h) > o + s THEN <<Hole(o + s, h.size - s)>> ELSE <<>>  \* mutant
Above(h, o, s) ==
  IF HoleEnd(h) > o + s THEN <<Hole(o + s, HoleEnd(h) - (o + s))>> ELSE <<>>

Below(h, o) == IF o > h.offset THEN <<Hole(h.offset, o - h.offset)>> ELSE <<>>

HoleAlloc(i, o, s) ==
  SubSeq(holes, 1, i - 1) \o (Above(holes[i], o, s) \o Below(holes[i], o))
    \o SubSeq(holes, i + 1, Len(holes))

(***************************************************************************)
(* simple_vma_heap_alloc(): the highest aligned offset in the first hole   *)
(* of the list, or the lowest in the last one, that has one.               *)
(***************************************************************************)
PadUp(o, a) == IF o % a = 0 THEN 0 ELSE a - (o % a)

PlaceFromAbove(h, s, a) == ((HoleEnd(h) - s) \div a) * a

PlaceRoundedUp(h, s, a, strategy) ==  \* mutant
  IF strategy = "HIGH_TO_LOW" THEN PlaceFromAbove(h, s, a) ELSE h.offset + a - (h.offset % a)
Place(h, s, a, strategy) ==
  IF strategy = "HIGH_TO_LOW" THEN PlaceFromAbove(h, s, a) ELSE h.offset + PadUp(h.offset, a)

FitsUnaligned(h, s, a, strategy) == s <= h.size  \* mutant
Fits(h, s, a, strategy) ==
  /\ s <= h.size
  /\ IF strategy = "HIGH_TO_LOW" THEN PlaceFromAbove(h, s, a) >= h.offset
                                 ELSE PadUp(h.offset, a) <= h.size - s

Candidates(s, a, strategy) == {i \in DOMAIN holes : Fits(holes[i], s, a, strategy)}

Choice(s, a, strategy) ==
  IF strategy = "HIGH_TO_LOW" THEN Min(Candidates(s, a, strategy))
                              ELSE Max(Candidates(s, a, strategy))

-----------------------------------------------------------------------------
(* Objects                                                                 *)

ObjectsOf(handle) == {r \in objects : r.handle = handle}

\* An object that has an address keeps it, whatever alignment is asked for.
AllocAgain(handle, s) ==
  /\ \E r \in ObjectsOf(handle) : r.size = s
  /\ UNCHANGED vars

Resolved(strategy) == IF strategy = "NONE" THEN DefaultStrategy ELSE strategy

Alloc(handle, s, a, strategy) ==
  /\ ObjectsOf(handle) = {}
  /\ Candidates(s, a, Resolved(strategy)) # {}
  /\ LET i == Choice(s, a, Resolved(strategy))
         o == Place(holes[i], s, a, Resolved(strategy))
     IN /\ holes' = HoleAlloc(i, o, s)
        /\ objects' = objects \cup {[handle |-> handle, offset |-> o, size |-> s]}
  /\ allocated_objects' = allocated_objects + 1
  /\ allocated_size' = allocated_size + s
  /\ UNCHANGED <<reserved, reserved_size, reserved_areas>>

\* ALLOC_INVALID_ADDRESS
AllocFails(handle, s, a, strategy) ==
  /\ ObjectsOf(handle) = {}
  /\ Candidates(s, a, Resolved(strategy)) = {}
  /\ UNCHANGED vars

Free(handle) ==
  \E r \in ObjectsOf(handle) :
    /\ objects' = objects \ {r}
    /\ holes' = HeapFree(r.offset, r.size)
    /\ allocated_objects' = allocated_objects - 1
    /\ allocated_size' = allocated_size - r.size
    /\ UNCHANGED <<reserved, reserved_size, reserved_areas>>

-----------------------------------------------------------------------------
(***************************************************************************)
(* Reserved areas.  Addresses may come in canonical form, where the bits   *)
(* above the 48th repeat it; an end of 0 after these are cleared means the *)
(* very top.                                                               *)
(***************************************************************************)
Decanonical(x) == x % Top
AreaSize(start, end) ==
  (IF Decanonical(end) = 0 THEN Top ELSE Decanonical(end)) - Decanonical(start)

Acceptable(start, end) ==
  /\ end # 0
  /\ Decanonical(end) > Decanonical(start) \/ Decanonical(end) = 0

InRange(start, end) ==
  /\ Decanonical(start) + AreaSize(start, end) <= End
  /\ Decanonical(start) >= Start

\* simple_vma_heap_alloc_addr() looks at the first hole with an offset <= o only.
FitsAt(o, s) == Higher(o) < Len(holes) /\ o + s <= HoleEnd(holes[Higher(o) + 1])

Reserve(handle, start, end) ==
  /\ Acceptable(start, end) /\ InRange(start, end)
  /\ LET o == Decanonical(start)
         s == AreaSize(start, end)
     IN \/ /\ FitsAt(o, s)
           /\ holes' = HoleAlloc(Higher(o) + 1, o, s)
           /\ reserved' = {r \in reserved : r.offset # o}
                            \cup {[handle |-> handle, offset |-> o, size |-> s]}
           /\ reserved_areas' = reserved_areas + 1
           /\ reserved_size' = reserved_size + s
        \/ /\ ~FitsAt(o, s)
           /\ UNCHANGED <<holes, reserved, reserved_areas, reserved_size>>
  /\ UNCHANGED <<objects, allocated_size, allocated_objects>>

\* Only the whole area can be given back, and by its owner only.
Unreserve(handle, start, end) ==
  /\ Acceptable(start, end)
  /\ \E r \in reserved :
       /\ r.offset = Decanonical(start) /\ r.size = AreaSize(start, end) /\ r.handle = handle
       /\ reserved' = reserved \ {r}
       /\ reserved_areas' = reserved_areas - 1
       /\ reserved_size' = reserved_size - r.size
       /\ holes' = HeapFree(r.offset, r.size)
  /\ UNCHANGED <<objects, allocated_size, allocated_objects>>

-----------------------------------------------------------------------------
Offsets == Start..End - 1

\* An address as it is, and with the bits above the 48th set.
Forms == Offsets \cup {o + Top : o \in Offsets}

Next ==
  \/ \E handle \in Handles, s \in Sizes :
       \/ AllocAgain(handle, s)
       \/ \E a \in Alignments, strategy \in Strategies \cup {"NONE"} :
            Alloc(handle, s, a, strategy) \/ AllocFails(handle, s, a, strategy)
       \/ \E start \in Forms :
            Reserve(handle, start, start + s) \/ Unreserve(handle, start, start + s)
  \/ \E handle \in Handles : Free(handle)

Spec == Init /\ [][Next]_vars

-----------------------------------------------------------------------------
(* Properties *)

Areas == [handle : Handles, offset : Offsets, size : 1..End - Start]

\* Every variable holds a value of its type; addresses are in the range opened.
TypeOK ==
  /\ holes \in Seq([offset : Offsets, size : 1..End - Start])
  /\ objects \subseteq Areas /\ reserved \subseteq Areas
  /\ allocated_size \in Nat /\ allocated_objects \in Nat
  /\ reserved_size \in Nat /\ reserved_areas \in Nat

\* simple_vma_heap_validate(): holes go from high to low, and between two of
\* them there is something, else "we failed to join holes".
Ordered == \A i \in 1..Len(holes) - 1 : HoleEnd(holes[i + 1]) < holes[i].offset

\* The asserts of simple_vma_heap_free() about the holes around an area.
Returnable(r) ==
  /\ Higher(r.offset) > 0 => r.offset + r.size <= holes[Higher(r.offset)].offset
  /\ Higher(r.offset) < Len(holes) => HoleEnd(holes[Higher(r.offset) + 1]) <= r.offset

\* No igt_assert() of the heap ever fails, whatever is allocated, reserved and
\* given back in which order: not after a call, not when an area is given back.
Validated == Ordered /\ \A r \in objects \cup reserved : Returnable(r)

HoleArea(h) == h.offset..HoleEnd(h) - 1
FreeAddresses == UNION {HoleArea(holes[i]) : i \in DOMAIN holes}

\* An allocation fails only if no aligned area of that size is free, and else gets
\* the highest (or lowest) there is: "topmost addresses are allocated first".
PlacesBest ==
  \A s \in Sizes, a \in Alignments, strategy \in Strategies :
    LET fitting == {o \in Offsets : o % a = 0 /\ o..o + s - 1 \subseteq FreeAddresses}
    IN /\ fitting = {} <=> Candidates(s, a, strategy) = {}
       /\ fitting # {} =>
            Place(holes[Choice(s, a, strategy)], s, a, strategy) =
              IF strategy = "HIGH_TO_LOW" THEN Max(fitting) ELSE Min(fitting)

\* The sum of what a function gives for every x: so many units of x each.
Units(f)  == UNION {{x} \X (1..f[x]) : x \in DOMAIN f}
Sum(f)    == Cardinality(Units(f))
SizeOf(S) == Sum([r \in S |-> r.size])

\* The asserts of intel_allocator_simple_print(): the statistics agree with the
\* records, and with them account for all of the space that is not free.
Accounts ==
  /\ TypeOK
  /\ allocated_size = SizeOf(objects) /\ allocated_objects = Cardinality(objects)
  /\ reserved_size = SizeOf(reserved) /\ reserved_areas = Cardinality(reserved)
  /\ Sum([i \in DOMAIN holes |-> holes[i].size]) = (End - Start) - allocated_size - reserved_size

\* The holes are the free addresses of an address space, areas never overlap, and
\* what was given back can be handed out again, exactly.
Taken == ({"object"} \X objects) \cup ({"reserved"} \X reserved)
Space == INSTANCE AddressSpace
           WITH Addresses <- Offsets, free <- FreeAddresses, taken <- Taken
IsAddressSpace == Space!Spec
=============================================================================
