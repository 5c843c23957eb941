-------------------------- MODULE BufferAllocator --------------------------
(***************************************************************************)
(* buffer_allocator (Infrastructure/BufferAllocator.cpp): a first-fit      *)
(* allocator of offsets.  The free list is a vector that gives an element  *)
(* up by swapping it with the last one, so that its order, and with it the *)
(* next first fit, depends on the history.                                 *)
(*                                                                         *)
(* Two calls leave what C++ defines: a division by an alignment of 0, and  *)
(* the use of a pointer to a slot that a swap has moved.  The state says   *)
(* so, and nothing follows.                                                *)
(***************************************************************************)
EXTENDS Naturals, Sequences, FiniteSets

CONSTANTS Size,         \* buffer_allocator::_size
          Alignments,   \* what callers ask for; 0 is the default argument
          Width         \* bound: unsigned arithmetic is modulo Width, 2^64 in the code

VARIABLES freeSpace,    \* _freeSpace
          given,        \* the segments that callers hold
          undefined     \* "none", "division" or "moved slot"

vars == <<freeSpace, given, undefined>>

Segment(start, size) == [start |-> start, size |-> size]
End(s) == s.start + s.size
Offsets(s) == s.start .. End(s) - 1
Slots == 1 .. Len(freeSpace)

Init == /\ freeSpace = <<Segment(0, Size)>>
        /\ given = {}
        /\ undefined = "none"

\* swap(_freeSpace.back(), slot); _freeSpace.pop_back()
Without(slots, i) == SubSeq([slots EXCEPT ![i] = slots[Len(slots)]], 1, Len(slots) - 1)

\* align_memory_offset()
Align(offset, alignment) ==
  IF offset % alignment = 0 THEN offset ELSE offset + alignment - (offset % alignment)

-----------------------------------------------------------------------------
(* Mutants of the definitions below. *)

\* The slot before the segment is not looked for.
MergeBehind(s) ==
  LET next == {i \in Slots : freeSpace[i].start = End(s)}
      joined == Segment(s.start, s.size + IF next = {} THEN 0
                                          ELSE freeSpace[CHOOSE i \in next : TRUE].size)
  IN Append(IF next = {} THEN freeSpace ELSE Without(freeSpace, CHOOSE i \in next : TRUE), joined)

-----------------------------------------------------------------------------
\* A slot is chosen: what is behind the aligned start must be enough, in
\* unsigned arithmetic.
Fits(slot, size, alignment) ==
  /\ slot.size >= alignment
  /\ (End(slot) + Width - Align(slot.start, alignment)) % Width >= size

\* The free space after size bytes at start have been taken from slot i: the
\* rest of the slot in its place, and the alignment gap at the end.
Take(i, start, size) ==
  LET gap == start - freeSpace[i].start
      rest == Segment(start + size, freeSpace[i].size - size - gap)
  IN (IF rest.size = 0 THEN Without(freeSpace, i) ELSE [freeSpace EXCEPT ![i] = rest])
       \o IF gap > 0 THEN <<Segment(freeSpace[i].start, gap)>> ELSE <<>>

\* try_allocate(): the first slot that fits, if any.
TryAllocate(size, alignment) ==
  /\ undefined = "none" /\ alignment > 0
  /\ \E i \in Slots :
       /\ Fits(freeSpace[i], size, alignment)
       /\ \A j \in 1 .. i - 1 : ~Fits(freeSpace[j], size, alignment)
       /\ LET start == Align(freeSpace[i].start, alignment) IN
          /\ freeSpace' = Take(i, start, size)
          /\ given' = given \cup {Segment(start, size)}
  /\ UNCHANGED undefined

\* try_allocate() with its default argument: offset % 0.
DivideByZero ==
  /\ undefined = "none" /\ 0 \in Alignments /\ freeSpace # <<>>
  /\ undefined' = "division"
  /\ UNCHANGED <<freeSpace, given>>

\* The free space after segment s has been joined with the slots around it.
Merge(s) ==
  LET previous == {i \in Slots : End(freeSpace[i]) = s.start}
      next == {i \in Slots : freeSpace[i].start = End(s)}
      start == IF previous = {} THEN s.start ELSE freeSpace[CHOOSE i \in previous : TRUE].start
      end == IF next = {} THEN End(s) ELSE End(freeSpace[CHOOSE i \in next : TRUE])
      lone == IF previous = {} THEN freeSpace ELSE Without(freeSpace, CHOOSE i \in previous : TRUE)
      left == IF next = {} THEN lone
              ELSE Without(lone, CHOOSE i \in 1 .. Len(lone) : lone[i].start = End(s))
  IN Append(left, Segment(start, end - start))

\* The slot behind s is the last one of the list, and the slot before it takes
\* its place: the pointer to the last slot is stale.
Moved(s) == /\ freeSpace # <<>> /\ freeSpace[Len(freeSpace)].start = End(s)
            /\ \E i \in Slots : End(freeSpace[i]) = s.start

\* What the stale pointer finds behind the end: the slot before s, once more.
MergeMoved(s) ==
  LET i == CHOOSE j \in Slots : End(freeSpace[j]) = s.start
      lone == Without(freeSpace, i)
  IN Append(SubSeq(lone, 1, Len(lone) - 1),
            Segment(freeSpace[i].start, s.size + 2 * freeSpace[i].size))

\* deallocate()
Deallocate(s) ==
  /\ undefined = "none" /\ s \in given
  /\ given' = given \ {s}
  /\ freeSpace' = IF Moved(s) THEN MergeMoved(s) ELSE Merge(s)
  /\ undefined' = IF Moved(s) THEN "moved slot" ELSE "none"

Next == \/ \E size \in 1 .. Size, alignment \in Alignments : TryAllocate(size, alignment)
        \/ DivideByZero
        \/ \E s \in given : Deallocate(s)

Spec == Init /\ [][Next]_vars

-----------------------------------------------------------------------------
Segments == [start : 0 .. Size, size : 1 .. 2 * Size]

TypeOK == /\ freeSpace \in Seq(Segments)
          /\ given \subseteq Segments
          /\ undefined \in {"none", "division", "moved slot"}

Owners(o) == Cardinality({s \in given : o \in Offsets(s)})
             + Cardinality({i \in Slots : o \in Offsets(freeSpace[i])})

Tiled == /\ \A o \in 0 .. Size - 1 : Owners(o) = 1
         /\ \A s \in given : End(s) <= Size
         /\ \A i \in Slots : End(freeSpace[i]) <= Size

(* Every offset belongs to one caller or to one free slot, whatever was       *)
(* allocated, aligned and freed in whatever order: nothing is handed out      *)
(* twice, nothing is lost.                                                    *)
TiledUnlessMoved == undefined # "moved slot" => Tiled

(* No two free slots touch: freed ranges coalesce with their neighbours       *)
(* (SmartPointers.md), and gaps are never left beside a free slot.            *)
Coalesced == undefined # "moved slot" =>
  \A i, j \in Slots : End(freeSpace[i]) # freeSpace[j].start

(* Tiled, without the exception.                                           *)
AlwaysTiled == Tiled

-----------------------------------------------------------------------------
\* What the proofs rest on: slots and segments as sets lie side by side and cover the buffer, slots with something
\* between them.
SlotSet(slots) == {slots[i] : i \in 1 .. Len(slots)}
Distinct(slots) == \A i, j \in 1 .. Len(slots) : slots[i] = slots[j] => i = j
Apart(x, y) == End(x) <= y.start \/ End(y) <= x.start
Separate(x, y) == End(x) < y.start \/ End(y) < x.start
Placed(free, used) ==
  /\ \A x \in free \cup used : x \in Segments /\ End(x) <= Size
  /\ \A x, y \in free : x # y => Separate(x, y)
  /\ \A x, y \in used : x # y => Apart(x, y)
  /\ \A x \in free, y \in used : Apart(x, y)
  /\ \A o \in 0 .. Size - 1 : \E x \in free \cup used : o \in Offsets(x)
IInv == TypeOK /\ (undefined # "moved slot" => Distinct(freeSpace) /\ Placed(SlotSet(freeSpace), given))
=============================================================================
