--------------------------- MODULE AllocatorEntry ---------------------------
(***************************************************************************)
(* How allocator.c gives out memory to one thread: a memory_allocator_     *)
(* entry is a list of areas, each filled from its start to its end; when   *)
(* the last area has no room left, one is added that has twice the room of *)
(* the larger of the request and the last area.  Nothing is ever given     *)
(* back before the whole allocator is released.  The entry belongs to one  *)
(* thread, so its operations never overlap.                                *)
(***************************************************************************)
EXTENDS Integers, Sequences, FiniteSets

CONSTANTS
  EntrySizes,    \* the sizes memory_allocator_add_entry is called with
  Requests,      \* the sizes asked from memory_allocator_new
  MaxBlocks      \* bound: how many requests are granted

ASSUME Sizes ==
  /\ EntrySizes \subseteq Nat
  /\ Requests \subseteq Nat
  /\ MaxBlocks \in Nat

VARIABLES
  areas,     \* the list of memory_allocator_data, from head on
  tail,      \* the index of the area entry->tail points to
  blocks     \* what was given out so far, in order (not in the code)

vars == <<areas, tail, blocks>>

Areas == [data_size : Nat, offset : Nat]
Blocks == [area : Nat, from : Nat, size : Nat]

Area(size) == [data_size |-> size, offset |-> 0]

\* memory_allocator_add_entry.
Init ==
  /\ \E size \in EntrySizes : areas = <<Area(size)>>
  /\ tail = 1
  /\ blocks = <<>>

HasRoom(area, size) == area.offset + size <= area.data_size

Larger(m, n) == IF m > n THEN m ELSE n

\* Mutant of GrownSize: the area doubles whatever is asked.
GrownSize_double(area, size) == 2 * area.data_size

GrownSize(area, size) == 2 * Larger(size, area.data_size)

\* The block starts at the offset of area i, one of the areas of list.
Give(list, i, size) ==
  /\ areas' = [list EXCEPT ![i].offset = @ + size]
  /\ blocks' = Append(blocks, [area |-> i, from |-> list[i].offset, size |-> size])

\* memory_allocator_new, in the area at the tail.
New(size) ==
  /\ HasRoom(areas[tail], size)
  /\ Give(areas, tail, size)
  /\ UNCHANGED tail

\* memory_allocator_new, when the area at the tail has no room: the block goes
\* into an area added behind it.  If there were one behind it already, that one
\* would be used without a look at its room, and the tail would not move.
NewBehind(size) ==
  LET area == areas[tail] IN
  /\ ~HasRoom(area, size)
  /\ IF tail = Len(areas)
     THEN /\ Give(Append(areas, Area(GrownSize(area, size))), tail + 1, size)
          /\ tail' = tail + 1
     ELSE /\ Give(areas, tail + 1, size)
          /\ UNCHANGED tail

\* malloc has nothing for the new area: memory_allocator_new returns NULL and
\* the entry is what it was.
NewFails(size) ==
  /\ ~HasRoom(areas[tail], size)
  /\ tail = Len(areas)
  /\ UNCHANGED vars

Next ==
  /\ Len(blocks) < MaxBlocks
  /\ \E size \in Requests :
       New(size) \/ NewBehind(size) \/ NewFails(size)

Spec == Init /\ [][Next]_vars
-----------------------------------------------------------------------------
(***************************************************************************)
(* The type invariant; the tail of the entry is one of its areas.          *)
(***************************************************************************)
TypeOK ==
  /\ areas \in Seq(Areas)
  /\ tail \in 1..Len(areas)
  /\ blocks \in Seq(Blocks)

(***************************************************************************)
(* No block reaches beyond the end of the area it was given in, whatever   *)
(* sizes are asked in whatever order (memory_allocator_new clears the      *)
(* whole block, so an overrun would wipe foreign memory).                  *)
(***************************************************************************)
NoOverrun ==
  \A i \in 1..Len(blocks) :
    /\ blocks[i].area \in 1..Len(areas)
    /\ blocks[i].from + blocks[i].size <= areas[blocks[i].area].data_size

Disjoint(b, c) ==
  \/ b.area # c.area
  \/ b.from + b.size <= c.from
  \/ c.from + c.size <= b.from

(***************************************************************************)
(* Memory that was given out is never given out again: a node keeps its    *)
(* bytes to itself until the allocator is released as a whole.             *)
(***************************************************************************)
NoOverlap ==
  \A i, j \in 1..Len(blocks) : i = j \/ Disjoint(blocks[i], blocks[j])

(***************************************************************************)
(* Each caller has its block for itself: it lies within its area and       *)
(* shares no byte with another, in any order of requests                   *)
(* (allocator.c:227-261).                                                  *)
(***************************************************************************)
BlocksApart == NoOverrun /\ NoOverlap

(***************************************************************************)
(* The tail is the last area, so the branch of memory_allocator_new that   *)
(* moves on to an existing area without a look at its room is never taken. *)
(***************************************************************************)
TailIsLast == tail = Len(areas)
=============================================================================
