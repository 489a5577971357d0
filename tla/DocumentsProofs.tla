-------------------------- MODULE DocumentsProofs --------------------------
(***************************************************************************)
(* Proofs about a document, its memory and its picture: AllocatorEntry,    *)
(* Strings, TaskGraph and Documents, for any sizes, texts and numbers of   *)
(* calls.                                                                  *)
(*                                                                         *)
(* What the allocator relies on is that an offset never passes the end of  *)
(* its area and that every block lies below the offset of its area.  Both  *)
(* are parts of IInv, which is inductive because the tail is the last      *)
(* area: then a request either fits or goes to a fresh area of at least    *)
(* its own size.                                                           *)
(*                                                                         *)
(* Strings stay inside their buffers; Sound has two cases: a buffer for at *)
(* least two bytes, which grows in time, and one for none or one, which    *)
(* never grows and is never filled beyond what its maker said it would     *)
(* add.                                                                    *)
(*                                                                         *)
(* The edges of the graph are those of the starts that left one, in their  *)
(* order (Drawing), from which the list of vertexes follows edge by edge.  *)
(*                                                                         *)
(* Links between nodes lead to nodes that came later (Forwards), and the   *)
(* nodes fall into those of the document (Held), those of the parser       *)
(* (Own), and what was given up.  Where the root was closed, the parser    *)
(* links nodes in a row that are not all below one node: Own says of a row *)
(* only what holds below a node.                                           *)
(***************************************************************************)
EXTENDS AllocatorEntry, Strings, TaskGraph, Documents, TLAPS, WellFoundedInduction,
        SequenceTheorems

(* The areas of an allocator entry.                                        *)

\* No area is filled beyond its end.
Filled == \A i \in 1..Len(areas) : areas[i].offset <= areas[i].data_size

\* What was given out lies in the filled part of an area.
Below ==
  \A i \in 1..Len(blocks) :
    /\ blocks[i].area \in 1..Len(areas)
    /\ blocks[i].from + blocks[i].size <= areas[blocks[i].area].offset

IInv == TypeOK /\ TailIsLast /\ Filled /\ Below /\ NoOverlap

\* The elements of a sequence over S belong to S.
LEMMA Element ==
  ASSUME NEW S, NEW s \in Seq(S)
  PROVE  /\ Len(s) \in Nat
         /\ \A i \in 1..Len(s) : s[i] \in S
  OBVIOUS

(***************************************************************************)
(* GrownSize leaves room for the request in the new area, whatever the     *)
(* sizes are (allocator.c, new_size).                                      *)
(***************************************************************************)
LEMMA GrownFits ==
  ASSUME NEW area \in Areas, NEW size \in Nat
  PROVE  GrownSize(area, size) \in Nat /\ size <= GrownSize(area, size)
  BY DEF GrownSize, Larger, Areas

(***************************************************************************)
(* Giving a block out of an area that has room for it, in a list of areas  *)
(* that extends the present one, keeps the invariant.                      *)
(***************************************************************************)
LEMMA GiveKeeps ==
  ASSUME IInv,
         NEW list \in Seq(Areas),
         Len(list) >= Len(areas),
         \A i \in 1..Len(areas) : list[i] = areas[i],
         \A i \in 1..Len(list) : list[i].offset <= list[i].data_size,
         NEW size \in Nat,
         Len(list) > 0, tail' = Len(list),
         list[Len(list)].offset + size <= list[Len(list)].data_size,
         Give(list, Len(list), size)
  PROVE  IInv'
PROOF
  <1> DEFINE n == Len(list)
             b == [area |-> n, from |-> list[n].offset, size |-> size]
  <1>1. /\ n \in Nat /\ n \in 1..n
        /\ list[n] \in Areas
    <2>1. n \in Nat /\ n > 0
      OBVIOUS
    <2>2. n \in 1..n
      BY <2>1
    <2> QED BY <2>1, <2>2, Element
  <1>2. /\ areas' \in Seq(Areas)
        /\ Len(areas') = n
        /\ \A i \in 1..n : i # n => areas'[i] = list[i]
        /\ areas'[n].offset = list[n].offset + size
        /\ areas'[n].data_size = list[n].data_size
    <2> DEFINE new == [list[n] EXCEPT !.offset = @ + size]
    <2>1. areas' = [list EXCEPT ![n] = new]
      BY DEF Give
    <2>2. /\ new \in Areas
          /\ new.offset = list[n].offset + size
          /\ new.data_size = list[n].data_size
      BY <1>1 DEF Areas
    <2> HIDE DEF new
    <2> QED BY <1>1, <2>1, <2>2
  <1>3. /\ blocks' = Append(blocks, b)
        /\ blocks \in Seq(Blocks)
        /\ b \in Blocks
        /\ b.area = n /\ b.from = list[n].offset /\ b.size = size
    BY <1>1 DEF Give, IInv, TypeOK, Areas, Blocks
  <1>4. /\ blocks' \in Seq(Blocks)
        /\ Len(blocks') = Len(blocks) + 1
        /\ \A i \in 1..Len(blocks) : blocks'[i] = blocks[i]
        /\ blocks'[Len(blocks) + 1] = b
    <2> HIDE DEF b
    <2> QED BY <1>3
  <1>types. /\ Len(blocks) \in Nat /\ Len(areas) \in Nat
        /\ \A i \in 1..Len(blocks) : blocks[i] \in Blocks
    BY Element DEF IInv, TypeOK
  <1> HIDE DEF b
  <1>5. TypeOK' /\ TailIsLast'
    BY <1>1, <1>2, <1>4 DEF TypeOK, TailIsLast
  <1>6. Filled'
    BY <1>1, <1>2 DEF Filled
  <1>7. \A i \in 1..Len(blocks) :
          /\ blocks[i] \in Blocks
          /\ blocks[i].area \in 1..n
          /\ blocks[i].from + blocks[i].size <= list[blocks[i].area].offset
    <2> TAKE i \in 1..Len(blocks)
    <2>1. /\ blocks[i] \in Blocks
          /\ blocks[i].area \in 1..Len(areas)
          /\ blocks[i].from + blocks[i].size <= areas[blocks[i].area].offset
      BY <1>types DEF IInv, Below
    <2>2. list[blocks[i].area] = areas[blocks[i].area]
      BY <2>1
    <2>3. blocks[i].area \in 1..n
      BY <1>1, <1>types, <2>1
    <2> QED BY <2>1, <2>2, <2>3
  <1>8. Below'
    <2> SUFFICES ASSUME NEW i \in 1..Len(blocks')
                 PROVE  /\ blocks'[i].area \in 1..Len(areas')
                        /\ blocks'[i].from + blocks'[i].size
                             <= areas'[blocks'[i].area].offset
      BY DEF Below
    <2>1. CASE i = Len(blocks) + 1
      <3>1. blocks'[i] = b /\ b.area = n /\ b.from + b.size = areas'[n].offset
        BY <1>2, <1>3, <1>4, <2>1
      <3>2. areas'[n].offset \in Nat
        BY <1>1, <1>2, Element DEF Areas
      <3> QED BY <1>1, <1>2, <3>1, <3>2
    <2>2. CASE i \in 1..Len(blocks)
      <3>1. blocks'[i] = blocks[i]
        BY <1>4, <2>2
      <3>2. CASE blocks[i].area = n
        <4>1. /\ blocks[i].from + blocks[i].size <= list[n].offset
              /\ blocks[i].from \in Nat /\ blocks[i].size \in Nat
          BY <1>7, <2>2, <3>2 DEF Blocks
        <4>2. /\ list[n].offset \in Nat
              /\ areas'[n].offset = list[n].offset + size
          BY <1>1, <1>2 DEF Areas
        <4>3. blocks[i].from + blocks[i].size <= areas'[n].offset
          BY <4>1, <4>2
        <4> QED BY <1>1, <1>2, <3>1, <3>2, <4>3
      <3>3. CASE blocks[i].area # n
        BY <1>1, <1>2, <1>7, <2>2, <3>1, <3>3
      <3> QED BY <3>2, <3>3
    <2> QED BY <1>4, <1>types, <2>1, <2>2
  <1>9. \A i \in 1..Len(blocks) : Disjoint(blocks[i], b) /\ Disjoint(b, blocks[i])
    BY <1>3, <1>7 DEF Disjoint
  <1>10. NoOverlap'
    <2> SUFFICES ASSUME NEW i \in 1..Len(blocks'), NEW j \in 1..Len(blocks'), i # j
                 PROVE  Disjoint(blocks'[i], blocks'[j])
      BY DEF NoOverlap, Disjoint
    <2>1. CASE i \in 1..Len(blocks) /\ j \in 1..Len(blocks)
      <3>1. blocks'[i] = blocks[i] /\ blocks'[j] = blocks[j]
        BY <1>4, <2>1
      <3> QED BY <2>1, <3>1 DEF IInv, NoOverlap
    <2>2. CASE i = Len(blocks) + 1 /\ j \in 1..Len(blocks)
      BY <1>4, <1>9, <2>2
    <2>3. CASE j = Len(blocks) + 1 /\ i \in 1..Len(blocks)
      BY <1>4, <1>9, <2>3
    <2> QED BY <1>4, <1>types, <2>1, <2>2, <2>3
  <1> QED BY <1>5, <1>6, <1>8, <1>10 DEF IInv

(***************************************************************************)
(* The facts about the areas of an entry and the blocks given out of them  *)
(* that every call of memory_allocator_new preserves.                      *)
(***************************************************************************)
THEOREM EntryInductive == Spec => []IInv
PROOF
  <1>1. Init => IInv
    <2> SUFFICES ASSUME Init PROVE IInv
      OBVIOUS
    <2>1. PICK size \in EntrySizes : areas = <<Area(size)>>
      BY DEF Init
    <2>2. size \in Nat
      BY Sizes
    <2>3. /\ areas \in Seq(Areas)
          /\ Len(areas) = 1 /\ areas[1] = [data_size |-> size, offset |-> 0]
      <3> DEFINE area == Area(size)
      <3>1. area \in Areas /\ area = [data_size |-> size, offset |-> 0]
        BY <2>2 DEF Area, Areas
      <3> HIDE DEF area
      <3>2. areas = <<area>>
        BY <2>1 DEF area
      <3> QED BY <3>1, <3>2
    <2>4. blocks = <<>> /\ tail = 1
      BY DEF Init
    <2> QED
      BY <2>2, <2>3, <2>4
      DEF IInv, TypeOK, TailIsLast, Filled, Below, NoOverlap
  <1>2. IInv /\ [Next]_vars => IInv'
    <2> SUFFICES ASSUME IInv, [Next]_vars PROVE IInv'
      OBVIOUS
    <2>1. /\ areas \in Seq(Areas)
          /\ tail = Len(areas) /\ tail \in 1..Len(areas)
          /\ Len(areas) > 0
          /\ areas[tail] \in Areas
          /\ \A i \in 1..Len(areas) : areas[i].offset <= areas[i].data_size
      <3>1. /\ areas \in Seq(Areas)
            /\ tail = Len(areas) /\ tail \in 1..Len(areas)
            /\ \A i \in 1..Len(areas) : areas[i].offset <= areas[i].data_size
        BY DEF IInv, TypeOK, TailIsLast, Filled
      <3> QED BY <3>1, Element
    <2>2. ASSUME UNCHANGED vars PROVE IInv'
      BY <2>2 DEF IInv, TypeOK, TailIsLast, Filled, Below, NoOverlap, Disjoint, vars
    <2>3. ASSUME NEW size \in Requests, New(size) PROVE IInv'
      <3>1. size \in Nat
        BY <2>3, Sizes
      <3>2. areas[tail].offset + size <= areas[tail].data_size /\ tail' = Len(areas)
        BY <2>1, <2>3 DEF New, HasRoom
      <3>3. Give(areas, Len(areas), size)
        BY <2>1, <2>3 DEF New
      <3> QED BY <2>1, <3>1, <3>2, <3>3, GiveKeeps
    <2>4. ASSUME NEW size \in Requests, NewBehind(size) PROVE IInv'
      <3> DEFINE grown == GrownSize(areas[tail], size)
                 area == Area(grown)
                 list == Append(areas, area)
      <3>1. size \in Nat
        BY <2>4, Sizes
      <3>2. grown \in Nat /\ size <= grown
        BY <2>1, <3>1, GrownFits
      <3>3. Give(list, tail + 1, size) /\ tail' = tail + 1
        BY <2>1, <2>4 DEF NewBehind
      <3> HIDE DEF grown
      <3>4. area \in Areas /\ area = [data_size |-> grown, offset |-> 0]
        BY <3>2 DEF Area, Areas
      <3> HIDE DEF area
      <3>5. /\ list \in Seq(Areas)
            /\ Len(list) = Len(areas) + 1
            /\ \A i \in 1..Len(areas) : list[i] = areas[i]
            /\ list[Len(list)] = [data_size |-> grown, offset |-> 0]
        BY <2>1, <3>4
      <3>6. Len(list) = tail + 1 /\ Len(list) >= Len(areas) /\ Len(list) > 0
        BY <2>1, <3>5
      <3>7. \A i \in 1..Len(list) : list[i].offset <= list[i].data_size
        BY <2>1, <3>2, <3>5
      <3>8. list[Len(list)].offset + size <= list[Len(list)].data_size
        BY <3>1, <3>2, <3>5
      <3>9. Give(list, Len(list), size) /\ tail' = Len(list)
        BY <3>3, <3>6
      <3> HIDE DEF list
      <3> QED BY <3>1, <3>5, <3>6, <3>7, <3>8, <3>9, GiveKeeps
    <2>5. ASSUME NEW size \in Requests, NewFails(size) PROVE IInv'
      BY <2>2, <2>5 DEF NewFails
    <2> QED BY <2>2, <2>3, <2>4, <2>5 DEF Next
  <1> QED BY <1>1, <1>2, PTL DEF Spec

(***************************************************************************)
(* No block of memory_allocator_new reaches beyond its area.               *)
(***************************************************************************)
THEOREM NeverOverrun == Spec => []NoOverrun
PROOF
  <1>1. IInv => NoOverrun
    <2> SUFFICES ASSUME IInv, NEW i \in 1..Len(blocks)
                 PROVE  /\ blocks[i].area \in 1..Len(areas)
                        /\ blocks[i].from + blocks[i].size
                             <= areas[blocks[i].area].data_size
      BY DEF NoOverrun
    <2>1. blocks[i] \in Blocks
      BY Element DEF IInv, TypeOK
    <2>2. /\ blocks[i].area \in 1..Len(areas)
          /\ blocks[i].from + blocks[i].size <= areas[blocks[i].area].offset
      BY DEF IInv, Below
    <2>3. /\ areas[blocks[i].area] \in Areas
          /\ areas[blocks[i].area].offset <= areas[blocks[i].area].data_size
      BY <2>2, Element DEF IInv, TypeOK, Filled
    <2> QED BY <2>1, <2>2, <2>3 DEF Areas, Blocks
  <1> QED BY <1>1, EntryInductive, PTL

(***************************************************************************)
(* Two blocks of one entry never share a byte.                             *)
(***************************************************************************)
THEOREM NeverOverlap == Spec => []NoOverlap
  BY EntryInductive, PTL DEF IInv

(***************************************************************************)
(* Every caller of memory_allocator_new has its block for itself: inside   *)
(* an area, and apart from all others (BlocksApart).                       *)
(***************************************************************************)
THEOREM BlocksStayApart == Spec => []BlocksApart
  BY NeverOverrun, NeverOverlap, PTL DEF BlocksApart

(***************************************************************************)
(* The branch that moves on to an existing area is dead.                   *)
(***************************************************************************)
THEOREM TailStaysLast == Spec => []TailIsLast
  BY EntryInductive, PTL DEF IInv

-----------------------------------------------------------------------------
(* The buffers of strings.                                                 *)

Records == [size : Nat, allocated : Nat, len : Nat, top : Nat, kept : Nat, left : Int]

Sound(s) == /\ s \in Records
            /\ s.top < s.size
            /\ s.kept = s.len
            /\ s.len <= s.allocated
            /\ s.allocated <= s.size
            /\ s.left >= Unplanned
            /\ s.allocated < 2 => /\ s.left >= 0
                                  /\ s.len + s.left <= s.allocated
                                  /\ s.size = s.allocated + 1

(***************************************************************************)
(* Unsigned subtraction, as the code does it, wraps below two only.        *)
(***************************************************************************)
LEMMA Wraps ==
  ASSUME NEW n \in Nat, n < Modulus
  PROVE  /\ n >= 2 => (n - 2) % Modulus = n - 2
         /\ n < 2 => (n - 2) % Modulus >= Modulus - 2
BY SMT, StringsConstants

(***************************************************************************)
(* What writing does to the fields of a string (strings.c:129-130, 177).   *)
(***************************************************************************)
LEMMA WrittenFields ==
  ASSUME NEW s \in Records, NEW n \in Nat, s.kept = s.len
  PROVE  /\ Written(s, n) \in Records
         /\ Written(s, n).size = s.size /\ Written(s, n).allocated = s.allocated
         /\ Written(s, n).len = s.len + n /\ Written(s, n).kept = s.len + n
         /\ Written(s, n).top = s.len + n
         /\ Written(s, n).left = IF s.left = Unplanned THEN Unplanned ELSE s.left - n
<1> DEFINE w == [size |-> s.size, allocated |-> s.allocated, len |-> s.len + n,
                 top |-> s.len + n, kept |-> s.len + n,
                 left |-> IF s.left = Unplanned THEN Unplanned ELSE s.left - n]
<1>1. Written(s, n) = w
  BY DEF Written, Records
<1>2. w \in Records
  BY DEF Records, Unplanned
<1> QED
  BY <1>1, <1>2

(***************************************************************************)
(* What growing does to them, if the string is no longer than what was     *)
(* allocated (strings.c:123-128, 171-176).                                 *)
(***************************************************************************)
LEMMA GrownFields ==
  ASSUME NEW s \in Records, NEW a \in Nat, s.kept = s.len, s.len <= s.allocated
  PROVE  /\ Grown(s, a) \in Records
         /\ Grown(s, a).size = a /\ Grown(s, a).allocated = a
         /\ Grown(s, a).len = s.len /\ Grown(s, a).kept = s.len
         /\ Grown(s, a).left = s.left
<1> DEFINE g == [size |-> a, allocated |-> a, len |-> s.len, top |-> s.top, kept |-> s.len,
                 left |-> s.left]
<1>1. Grown(s, a) = g
  BY DEF Grown, Records
<1>2. g \in Records
  BY DEF Records
<1> QED
  BY <1>1, <1>2

(***************************************************************************)
(* One more byte, of those that may be added, keeps a string sound         *)
(* (strings.c, xmls_add_char).                                             *)
(***************************************************************************)
LEMMA AddCharSound ==
  ASSUME NEW s, Sound(s), s.allocated < Modulus, s.left = Unplanned \/ s.left >= 1
  PROVE  /\ Sound(xmls_add_char(s))
         /\ xmls_add_char(s).allocated <= 2 * s.allocated + 1
         /\ xmls_add_char(s).left = IF s.left = Unplanned THEN Unplanned ELSE s.left - 1
<1>0. /\ s \in Records /\ s.allocated \in Nat /\ s.len \in Nat /\ s.left \in Int
      /\ s.size \in Nat /\ s.kept = s.len /\ s.len <= s.allocated
      /\ Modulus \in Nat /\ Modulus > 16
  BY StringsConstants DEF Sound, Records
<1>1. CASE Full(s)
  <2>1. s.allocated >= 2
    <3>1. SUFFICES ASSUME s.allocated < 2 PROVE FALSE
      BY <1>0
    <3>2. (s.allocated - 2) % Modulus >= Modulus - 2
      BY <1>0, <3>1, Wraps
    <3>3. (s.allocated - 2) % Modulus \in Int
      BY <1>0
    <3> QED BY <1>0, <1>1, <3>1, <3>2, <3>3 DEF Full
  <2> DEFINE g == Grown(s, s.allocated * 2 + 1)
  <2>2. s.allocated * 2 + 1 \in Nat
    BY <1>0
  <2>3. /\ g \in Records /\ g.size = s.allocated * 2 + 1 /\ g.allocated = s.allocated * 2 + 1
        /\ g.len = s.len /\ g.kept = s.len /\ g.left = s.left
    BY <1>0, <2>2, GrownFields
  <2>4. xmls_add_char(s) = Written(g, 1)
    BY <1>1 DEF xmls_add_char
  <2> HIDE DEF g
  <2>5. /\ Written(g, 1) \in Records
        /\ Written(g, 1).size = g.size /\ Written(g, 1).allocated = g.allocated
        /\ Written(g, 1).len = g.len + 1 /\ Written(g, 1).kept = g.len + 1
        /\ Written(g, 1).top = g.len + 1
        /\ Written(g, 1).left = IF g.left = Unplanned THEN Unplanned ELSE g.left - 1
    BY <2>3, WrittenFields
  <2> QED BY <1>0, <2>1, <2>3, <2>4, <2>5 DEF Sound, Unplanned
<1>2. CASE ~Full(s)
  <2>1. xmls_add_char(s) = Written(s, 1)
    BY <1>2 DEF xmls_add_char
  <2>2. /\ Written(s, 1) \in Records
        /\ Written(s, 1).size = s.size /\ Written(s, 1).allocated = s.allocated
        /\ Written(s, 1).len = s.len + 1 /\ Written(s, 1).kept = s.len + 1
        /\ Written(s, 1).top = s.len + 1
        /\ Written(s, 1).left = IF s.left = Unplanned THEN Unplanned ELSE s.left - 1
    BY <1>0, WrittenFields
  <2>3. CASE s.allocated >= 2
    <3>1. s.len < s.allocated - 2
      BY <1>0, <1>2, <2>3, Wraps DEF Full
    <3> QED BY <1>0, <2>1, <2>2, <2>3, <3>1 DEF Sound, Unplanned
  <2>4. CASE s.allocated < 2
    BY <1>0, <2>1, <2>2, <2>4 DEF Sound, Unplanned
  <2> QED BY <1>0, <2>3, <2>4
<1> QED
  BY <1>1, <1>2

(***************************************************************************)
(* The bytes of a character are added one by one (strings.c, xmls_add_utf).*)
(***************************************************************************)
LEMMA AddUtfSound ==
  ASSUME NEW s, Sound(s), 32 * (s.allocated + 16) < Modulus,
         NEW bytes \in 1..4, s.left = Unplanned \/ s.left >= bytes
  PROVE  Sound(xmls_add_utf(s, bytes))
<1> DEFINE one == xmls_add_char(s)
           two == xmls_add_char(one)
           three == xmls_add_char(two)
<1> USE StringsConstants
<1>0. s.allocated \in Nat /\ s.left \in Int
  BY DEF Sound, Records
<1>1. /\ Sound(one) /\ one.allocated \in Nat
      /\ one.allocated <= 2 * s.allocated + 1
      /\ one.left = IF s.left = Unplanned THEN Unplanned ELSE s.left - 1
  <2>1. s.allocated < Modulus /\ (s.left = Unplanned \/ s.left >= 1)
    BY <1>0
  <2> QED BY <2>1, AddCharSound DEF Sound, Records
<1>2. ASSUME bytes >= 2
      PROVE  /\ Sound(two) /\ two.allocated \in Nat
             /\ two.allocated <= 4 * s.allocated + 3
             /\ two.left = IF s.left = Unplanned THEN Unplanned ELSE s.left - 2
  <2>1. one.allocated < Modulus /\ (one.left = Unplanned \/ one.left >= 1)
    BY <1>0, <1>1, <1>2 DEF Unplanned
  <2>2. /\ Sound(two) /\ two.allocated <= 2 * one.allocated + 1
        /\ two.left = IF one.left = Unplanned THEN Unplanned ELSE one.left - 1
    BY <1>1, <2>1, AddCharSound
  <2>3. two.allocated \in Nat
    BY <2>2 DEF Sound, Records
  <2> HIDE DEF one, two
  <2> QED BY <1>0, <1>1, <1>2, <2>2, <2>3 DEF Unplanned
<1>3. ASSUME bytes >= 3
      PROVE  /\ Sound(three) /\ three.allocated \in Nat
             /\ three.allocated <= 8 * s.allocated + 7
             /\ three.left = IF s.left = Unplanned THEN Unplanned ELSE s.left - 3
  <2>0. bytes >= 2
    BY <1>3
  <2>1. two.allocated < Modulus /\ (two.left = Unplanned \/ two.left >= 1)
    BY <1>0, <1>2, <1>3, <2>0 DEF Unplanned
  <2>2. /\ Sound(three) /\ three.allocated <= 2 * two.allocated + 1
        /\ three.left = IF two.left = Unplanned THEN Unplanned ELSE two.left - 1
    BY <1>2, <2>0, <2>1, AddCharSound
  <2>3. three.allocated \in Nat
    BY <2>2 DEF Sound, Records
  <2> HIDE DEF two, three
  <2> QED BY <1>0, <1>2, <1>3, <2>0, <2>2, <2>3 DEF Unplanned
<1>4. ASSUME bytes = 4
      PROVE  Sound(xmls_add_char(three))
  <2>0. bytes >= 3
    BY <1>4
  <2>1. three.allocated < Modulus /\ (three.left = Unplanned \/ three.left >= 1)
    BY <1>0, <1>3, <1>4, <2>0 DEF Unplanned
  <2> QED BY <1>3, <2>0, <2>1, AddCharSound
<1>5. CASE bytes = 1
  BY <1>1, <1>5 DEF xmls_add_utf
<1>6. CASE bytes = 2
  BY <1>2, <1>6 DEF xmls_add_utf
<1>7. CASE bytes = 3
  BY <1>3, <1>7 DEF xmls_add_utf
<1>8. CASE bytes = 4
  BY <1>4, <1>8 DEF xmls_add_utf
<1> QED
  BY <1>5, <1>6, <1>7, <1>8

(***************************************************************************)
(* A text that is added keeps a string sound (strings.c, xmls_add_str).    *)
(***************************************************************************)
LEMMA AddStrSound ==
  ASSUME NEW s, Sound(s), NEW n \in Nat, s.left = Unplanned
  PROVE  Sound(xmls_add_str(s, n))
<1>0. /\ s \in Records /\ s.allocated \in Nat /\ s.len \in Nat /\ s.size \in Nat
      /\ s.kept = s.len /\ s.len <= s.allocated /\ s.allocated >= 2
      /\ s.allocated <= s.size
  BY DEF Sound, Records, Unplanned
<1>1. CASE s.len + n + 1 >= s.allocated
  <2> DEFINE a == s.allocated * 2 + n + 1
             g == Grown(s, a)
  <2>1. a \in Nat
    BY <1>0
  <2>2. /\ g \in Records /\ g.size = a /\ g.allocated = a
        /\ g.len = s.len /\ g.kept = s.len /\ g.left = s.left
    BY <1>0, <2>1, GrownFields
  <2>3. xmls_add_str(s, n) = Written(g, n)
    BY <1>1 DEF xmls_add_str
  <2> HIDE DEF g
  <2>4. /\ Written(g, n) \in Records
        /\ Written(g, n).size = g.size /\ Written(g, n).allocated = g.allocated
        /\ Written(g, n).len = g.len + n /\ Written(g, n).kept = g.len + n
        /\ Written(g, n).top = g.len + n
        /\ Written(g, n).left = IF g.left = Unplanned THEN Unplanned ELSE g.left - n
    BY <2>2, WrittenFields
  <2> QED BY <1>0, <2>2, <2>3, <2>4 DEF Sound, Unplanned
<1>2. CASE ~(s.len + n + 1 >= s.allocated)
  <2>1. xmls_add_str(s, n) = Written(s, n)
    BY <1>2 DEF xmls_add_str
  <2>2. /\ Written(s, n) \in Records
        /\ Written(s, n).size = s.size /\ Written(s, n).allocated = s.allocated
        /\ Written(s, n).len = s.len + n /\ Written(s, n).kept = s.len + n
        /\ Written(s, n).top = s.len + n
        /\ Written(s, n).left = IF s.left = Unplanned THEN Unplanned ELSE s.left - n
    BY <1>0, WrittenFields
  <2> QED BY <1>0, <1>2, <2>1, <2>2 DEF Sound, Unplanned
<1> QED
  BY <1>1, <1>2

(***************************************************************************)
(* What xmls_new and xmls_new_string make is sound.                        *)
(***************************************************************************)
LEMMA NewSound ==
  ASSUME NEW n \in Nat
  PROVE  /\ Sound(xmls_new(n, n))
         /\ n >= 2 => Sound(xmls_new(n, Unplanned))
         /\ Sound(xmls_new_string(n))
<1>1. Sound(xmls_new(n, n))
  BY DEF Sound, Records, xmls_new, Unplanned
<1>2. n >= 2 => Sound(xmls_new(n, Unplanned))
  BY DEF Sound, Records, xmls_new, Unplanned
<1>3. xmls_new_string(n) = [size |-> n + 1, allocated |-> n, len |-> n, top |-> n, kept |-> n,
                            left |-> 0]
  BY DEF xmls_new_string, xmls_new
<1>4. Sound(xmls_new_string(n))
  BY <1>3 DEF Sound, Records, Unplanned
<1> QED
  BY <1>1, <1>2, <1>4

(***************************************************************************)
(* Every string is sound, whatever is added to it.                         *)
(***************************************************************************)
LEMMA StringsAreSound == StringsSpec => []Sound(string)
<1>1. StringsInit => Sound(string)
  BY NewSound, StringsConstants DEF StringsInit
<1>2. Sound(string) /\ [StringsNext]_stringVars => Sound(string)'
  <2> SUFFICES ASSUME Sound(string), [StringsNext]_stringVars
               PROVE  Sound(string)'
    OBVIOUS
  <2> USE StringsConstants
  <2>1. ASSUME NEW n \in Lengths, Unescape(n) PROVE Sound(string)'
    BY <2>1, NewSound DEF Unescape
  <2>2. ASSUME NEW n \in Lengths, AddStr(n) PROVE Sound(string)'
    BY <2>2, AddStrSound DEF AddStr
  <2>3. ASSUME NEW bytes \in 1..4, AddUtf(bytes) PROVE Sound(string)'
    <3>1. string.allocated \in Nat
      BY DEF Sound, Records
    <3>2. 32 * (string.allocated + 16) < Modulus
      BY <2>3, <3>1 DEF AddUtf, Room
    <3>3. string.left = Unplanned \/ string.left >= bytes
      BY <2>3 DEF AddUtf
    <3>4. Sound(xmls_add_utf(string, bytes))
      BY <3>2, <3>3, AddUtfSound
    <3> QED BY <2>3, <3>4 DEF AddUtf
  <2>4. CASE UNCHANGED stringVars
    BY <2>4 DEF stringVars
  <2> QED
    BY <2>1, <2>2, <2>3, <2>4 DEF StringsNext
<1> QED
  BY <1>1, <1>2, PTL DEF StringsSpec

(***************************************************************************)
(* No byte is written behind a buffer, for any sequence of texts and       *)
(* characters (StaysInside; strings.c, xmls_add_char, xmls_add_str).       *)
(***************************************************************************)
THEOREM StringsStayInside == StringsSpec => []StaysInside
<1>1. Sound(string) => StaysInside
  BY DEF Sound, StaysInside
<1> QED
  BY <1>1, StringsAreSound, PTL

(***************************************************************************)
(* Growing never loses a byte (TextKept; strings.c, the two memcpy calls). *)
(***************************************************************************)
THEOREM GrowingKeepsText == StringsSpec => []TextKept
<1>1. Sound(string) => TextKept
  BY DEF Sound, TextKept
<1> QED
  BY <1>1, StringsAreSound, PTL

(***************************************************************************)
(* What is given to a string stays, and stays inside its buffer            *)
(* (TextIsSafe; strings.c:89-178).                                         *)
(***************************************************************************)
THEOREM StringsHoldTheirText == StringsSpec => []TextIsSafe
BY StringsStayInside, GrowingKeepsText, PTL DEF TextIsSafe

-----------------------------------------------------------------------------
(* TaskGraph                                                               *)

(* Induction over a set of numbers.                                        *)
LEMMA AllNumbers ==
  ASSUME NEW A, 0 \in A, \A k \in Nat : k \in A => k + 1 \in A
  PROVE  \A k \in Nat : k \in A
<1> SUFFICES ASSUME NEW k \in Nat, k \notin A PROVE FALSE
  OBVIOUS
<1> DEFINE B == {j \in Nat : j \notin A}
<1>1. k \in B
  OBVIOUS
<1>2. PICK least \in B : \A j \in B : ~(<<j, least>> \in OpToRel(<, Nat))
  <2>1. B \subseteq Nat
    OBVIOUS
  <2> HIDE DEF B
  <2> QED
    BY <1>1, <2>1, WFMin, NatLessThanWellFounded, Zenon
<1>3. least \in Nat /\ least \notin A /\ least # 0
  OBVIOUS
<1>4. least - 1 \in Nat /\ least - 1 < least /\ (least - 1) + 1 = least
  BY <1>3
<1>5. least - 1 \in B
  BY <1>3, <1>4
<1>6. <<least - 1, least>> \in OpToRel(<, Nat)
  BY <1>3, <1>4, Zenon DEF OpToRel
<1> QED
  BY <1>2, <1>5, <1>6

(* The least of a set of numbers is one of them.                           *)
LEMMA SomeLeast ==
  ASSUME NEW I \in SUBSET Nat, I # {}
  PROVE  Min(I) \in I
<1>1. PICK least \in I : \A j \in I : ~(<<j, least>> \in OpToRel(<, Nat))
  BY WFMin, NatLessThanWellFounded, Zenon
<1>2. \A j \in I : ~(j < least)
  BY <1>1, Zenon DEF OpToRel
<1>3. \A j \in I : least <= j
  BY <1>2
<1> QED
  BY <1>3 DEF Min

Keys == 1..contexts

(* A vertex, an edge, and what is known of a start.                        *)
Vertexes == [key : Nat, color : {"yellow", "red", "green"}]
Edges == [source : Vertexes, target : Vertexes]
StartsOf(K) == [by : K \cup {NULL}, how : {"none", "red", "green"}]

GraphTyped ==
    /\ run \in {"task", "inline", "ended"}
    /\ contexts \in Nat \ {0}
    /\ queue \in Seq(Keys)
    /\ running \in [Workers -> Keys \cup {NULL}]
    /\ current \in [Workers -> Vertexes \cup {NULL}]
    /\ starting \in [Workers -> Keys \cup {NULL}]
    /\ edges \in Seq(Edges)
    /\ started \in Seq(StartsOf(Nat))

(* The vertex of a thread is that of its task; a task that is on the graph *)
(* and not in the queue yet has a thread that is still at it.              *)
Current == \A w \in Workers :
             /\ running[w] # NULL => current[w] = Vertex(running[w], "yellow")
             /\ starting[w] # NULL => running[w] # NULL

(* An edge leads to a context that was started so, from the one that did   *)
(* it and was there before; the edges lead to later and later contexts,    *)
(* and to all whose start leaves an edge.                                  *)
Drawn(i) == LET c == edges[i].target.key IN
  /\ c \in Keys /\ started[c].how # "none"
  /\ started[c].by \in 1..(c - 1)
  /\ edges[i].source = Vertex(started[c].by, "yellow")
  /\ edges[i].target = Vertex(c, started[c].how)

Drawing ==
    /\ Len(started) = contexts
    /\ \A i \in 1..Len(edges) : Drawn(i)
    /\ \A i, j \in 1..Len(edges) : i < j => edges[i].target.key < edges[j].target.key
    /\ \A c \in Keys : started[c].how # "none" =>
         \E i \in 1..Len(edges) : edges[i].target.key = c

(* The vertex that is met first for a context.                             *)
First(c) == Vertex(c, IF started[c].how = "none" THEN "yellow" ELSE started[c].how)

(* The list of the vertexes that the first n edges are between.            *)
Listed(list, n) ==
  /\ list \in Seq(Vertexes)
  /\ \A k, m \in 1..Len(list) : list[k].key = list[m].key => k = m
  /\ \A k \in 1..Len(list) : list[k].key \in Keys /\ list[k] = First(list[k].key)
  /\ \A c \in Nat : (\E k \in 1..Len(list) : list[k].key = c)
                      <=> \E i \in 1..n : c \in {edges[i].source.key, edges[i].target.key}

(* The two numbers of an edge are those of the nodes it is between.        *)
WrittenEdge(i) ==
    \E k, m \in 1..Len(met.nodes) :
      /\ saved.edges[i] = [source |-> k, target |-> m]
      /\ met.nodes[k].key = edges[i].source.key
      /\ met.nodes[m].key = edges[i].target.key

(* What was written shows the edges that were there; to a run that waited  *)
(* for its tasks none is added.                                            *)
Nodes_ ==
    met # NULL =>
      /\ met.edges \in 0..Len(edges) /\ met.contexts \in Keys
      /\ Listed(met.nodes, met.edges)
      /\ \A i \in 1..met.edges : edges[i].target.key <= met.contexts
      /\ \A c \in 1..met.contexts : started[c].how # "none" =>
           \E i \in 1..met.edges : edges[i].target.key = c
      /\ run = "task" => /\ queue = <<>> /\ running = Idle
                          /\ met.contexts = contexts /\ met.edges = Len(edges)

Stored ==
    saved # NULL =>
      /\ met # NULL /\ saved.nodes = met.nodes
      /\ \E n \in met.edges..Len(edges) : DOMAIN saved.edges = 1..n /\ Len(saved.edges) = n
      /\ \A i \in 1..met.edges : WrittenEdge(i)

GraphInv == GraphTyped /\ Current /\ Drawing /\ Nodes_ /\ Stored

(* The root has been started, and nothing is drawn.                        *)
LEMMA GraphInvInit == TaskGraphInit => GraphInv
<1> SUFFICES ASSUME TaskGraphInit PROVE GraphInv
  OBVIOUS
<1> USE DEF TaskGraphInit
<1>1. NULL \notin Nat
  BY TaskGraphConstants
<1>2. started \in Seq(StartsOf(Nat)) /\ Len(started) = 1 /\ started[1].how = "none"
  <2> DEFINE s == [by |-> NULL, how |-> "none"]
  <2>1. s \in StartsOf(Nat) /\ s.how = "none"
    BY DEF StartsOf
  <2>2. started = <<s>>
    OBVIOUS
  <2> HIDE DEF s
  <2> QED
    BY <2>1, <2>2
<1>3. GraphTyped
  <2>1. queue \in Seq(Keys)
    <3>1. 1 \in Keys
      BY DEF Keys
    <3> QED
      BY <3>1
  <2> QED
    BY <1>2, <2>1 DEF GraphTyped, Idle
<1>4. Current
  BY DEF Current, Idle
<1>5. Drawing
  BY <1>2 DEF Drawing, Keys
<1>6. Nodes_ /\ Stored
  BY DEF Nodes_, Stored
<1> QED
  BY <1>3, <1>4, <1>5, <1>6 DEF GraphInv

(* A step that starts nothing leaves the picture as it is.                 *)
LEMMA PictureStays ==
  ASSUME GraphInv, UNCHANGED <<contexts, edges, started, met, saved>>,
         run' = run \/ (run = "inline" /\ run' = "ended"),
         run = "task" /\ met # NULL => UNCHANGED <<queue, running>>
  PROVE  Drawing' /\ Nodes_' /\ Stored'
<1>1. Drawing'
  BY DEF GraphInv, Drawing, Drawn, Keys
<1>2. Nodes_'
  <2>1. met # NULL => Listed(met.nodes, met.edges)'
    BY DEF GraphInv, Nodes_, Listed, First, Keys
  <2>2. run' = "task" => run = "task"
    OBVIOUS
  <2> QED
    BY <2>1, <2>2 DEF GraphInv, Nodes_, Keys
<1>3. Stored'
  BY DEF GraphInv, Stored, WrittenEdge
<1> QED
  BY <1>1, <1>2, <1>3

(* A task is taken from the queue.                                         *)
LEMMA TakeTaskKeeps ==
  ASSUME GraphInv, NEW w \in Workers, TakeTask(w)
  PROVE  GraphInv'
<1> USE TaskGraphConstants DEF TakeTask
<1>1. Head(queue) \in Keys /\ Head(queue) # NULL /\ Tail(queue) \in Seq(Keys)
  BY DEF GraphInv, GraphTyped, Keys
<1>2. Vertex(Head(queue), "yellow") \in Vertexes
  BY <1>1 DEF Vertex, Vertexes, Keys
<1>3. GraphTyped'
  BY <1>1, <1>2 DEF GraphInv, GraphTyped, Keys
<1>4. Current'
  BY <1>1 DEF GraphInv, GraphTyped, Current
<1>5. ~(run = "task" /\ met # NULL)
  BY DEF GraphInv, Nodes_
<1> QED
  BY <1>3, <1>4, <1>5, PictureStays DEF GraphInv

(* A task is put into the queue.                                           *)
LEMMA StartKeeps ==
  ASSUME GraphInv, NEW w \in Workers, threadpool_start(w)
  PROVE  GraphInv'
<1> USE TaskGraphConstants DEF threadpool_start
<1>1. starting[w] \in Keys /\ running[w] # NULL
  BY DEF GraphInv, GraphTyped, Current
<1>2. GraphTyped'
  BY <1>1 DEF GraphInv, GraphTyped, Keys
<1>3. Current'
  BY DEF GraphInv, GraphTyped, Current
<1>4. ~(run = "task" /\ met # NULL)
  BY <1>1 DEF GraphInv, Nodes_, Idle
<1> QED
  BY <1>2, <1>3, <1>4, PictureStays DEF GraphInv

(* A task ends.                                                            *)
LEMMA EndKeeps ==
  ASSUME GraphInv, NEW w \in Workers, TaskEnds(w)
  PROVE  GraphInv'
<1> USE DEF TaskEnds
<1>1. GraphTyped'
  BY DEF GraphInv, GraphTyped, Keys
<1>2. Current'
  BY DEF GraphInv, GraphTyped, Current
<1>3. ~(run = "task" /\ met # NULL)
  BY DEF GraphInv, Nodes_, Idle
<1> QED
  BY <1>1, <1>2, <1>3, PictureStays DEF GraphInv

(* The application's thread has no more to do.                             *)
LEMMA InlineKeeps ==
  ASSUME GraphInv, InlineEnds
  PROVE  GraphInv'
<1> USE DEF InlineEnds
<1>1. GraphTyped' /\ Current'
  BY DEF GraphInv, GraphTyped, Current, Keys
<1> QED
  BY <1>1, PictureStays DEF GraphInv

-----------------------------------------------------------------------------
(* What was there is not touched by what is added.                         *)
LEMMA ListedStays ==
  ASSUME NEW list, NEW n \in Nat, n <= Len(edges), Listed(list, n), Len(edges) \in Nat,
         Keys \subseteq Keys', \A c \in Keys : started'[c] = started[c],
         \A i \in 1..Len(edges) : edges'[i] = edges[i]
  PROVE  Listed(list, n)'
<1>1. \A i \in 1..n : edges'[i] = edges[i]
  OBVIOUS
<1>2. \A k \in 1..Len(list) : First(list[k].key)' = First(list[k].key)
  BY DEF Listed, First
<1> QED
  BY <1>1, <1>2 DEF Listed

(* A template is started, with an edge to it or without.                   *)
LEMMA StartsKeep ==
  ASSUME GraphInv, NEW by \in Keys, NEW how \in {"none", "red", "green"}, Starts(by, how),
         edges' = IF how = "none" THEN edges
                  ELSE Append(edges, [source |-> Vertex(by, "yellow"),
                                      target |-> Vertex(contexts + 1, how)]),
         queue' \in Seq(1..(contexts + 1)), UNCHANGED <<run, running, current, met, saved>>,
         starting' \in [Workers -> 1..(contexts + 1) \cup {NULL}],
         \A w \in Workers : starting'[w] # NULL => running[w] # NULL,
         ~(run = "task" /\ met # NULL)
  PROVE  GraphInv'
<1> USE TaskGraphConstants
<1> DEFINE n == contexts
           s == [by |-> by, how |-> how]
           e == [source |-> Vertex(by, "yellow"), target |-> Vertex(n + 1, how)]
<1>1. /\ n \in Nat \ {0} /\ contexts' = n + 1 /\ Keys \subseteq Keys' /\ n + 1 \in Keys'
      /\ Keys' = Keys \cup {n + 1} /\ n + 1 \notin Keys /\ Keys = 1..n /\ by \in Nat /\ by < n + 1
      /\ by >= 1
  <2>1. n \in Nat \ {0} /\ contexts' = n + 1 /\ Keys = 1..n /\ Keys' = 1..(n + 1)
    BY DEF GraphInv, GraphTyped, Starts, Keys
  <2>2. by \in 1..n
    BY <2>1
  <2> HIDE DEF n
  <2>3. 1..n \subseteq 1..(n + 1) /\ 1..(n + 1) = (1..n) \cup {n + 1} /\ n + 1 \notin 1..n
        /\ n + 1 \in 1..(n + 1) /\ by \in Nat /\ by < n + 1 /\ by >= 1
    BY <2>1, <2>2
  <2> QED
    BY <2>1, <2>3
<1>2. /\ Len(started) = n /\ started \in Seq(StartsOf(Nat)) /\ edges \in Seq(Edges)
      /\ Len(edges) \in Nat
  BY DEF GraphInv, GraphTyped, Drawing
<1>3. s \in StartsOf(Nat) /\ s.by = by /\ s.how = how /\ started' = Append(started, s)
  BY <1>1 DEF StartsOf, Starts
<1>4. /\ started' \in Seq(StartsOf(Nat)) /\ Len(started') = n + 1
      /\ \A c \in Keys : started'[c] = started[c]
      /\ started'[n + 1].by = by /\ started'[n + 1].how = how
  <2> HIDE DEF s
  <2> QED
    BY <1>1, <1>2, <1>3
<1>5. how # "none" => /\ e \in Edges /\ e.source = Vertex(by, "yellow")
                      /\ e.target = Vertex(n + 1, how) /\ e.target.key = n + 1
  BY <1>1 DEF Edges, Vertexes, Vertex
<1>6. /\ edges' \in Seq(Edges) /\ Len(edges') \in Nat
      /\ \A i \in 1..Len(edges) : edges'[i] = edges[i]
      /\ how = "none" => Len(edges') = Len(edges)
      /\ how # "none" => Len(edges') = Len(edges) + 1 /\ edges'[Len(edges) + 1] = e
  <2>1. CASE how = "none"
    BY <2>1, <1>2
  <2>2. CASE how # "none"
    <3>1. edges' = Append(edges, e)
      BY <2>2
    <3> HIDE DEF e
    <3> QED
      BY <2>2, <3>1, <1>2, <1>5
  <2> QED
    BY <2>1, <2>2
<1> HIDE DEF s, e, n
<1>7. running' \in [Workers -> Keys' \cup {NULL}]
  BY <1>1 DEF GraphInv, GraphTyped
<1>8. GraphTyped'
  <2>1. Keys' = 1..(contexts + 1)
    BY <1>1 DEF Keys, n
  <2> QED
    BY <2>1, <1>1, <1>4, <1>6, <1>7 DEF GraphInv, GraphTyped
<1>9. Current'
  BY DEF GraphInv, Current
<1>10. \A i \in 1..Len(edges) : Drawn(i)' /\ Drawn(i)
  <2> TAKE i \in 1..Len(edges)
  <2>1. Drawn(i)
    BY DEF GraphInv, Drawing
  <2> QED
    BY <2>1, <1>1, <1>4, <1>6 DEF Drawn
<1>11. how # "none" => \A i : i = Len(edges) + 1 => Drawn(i)'
  <2> SUFFICES ASSUME how # "none", NEW i, i = Len(edges) + 1 PROVE Drawn(i)'
    OBVIOUS
  <2>1. /\ edges'[i].target.key = n + 1
        /\ edges'[i].source = Vertex(by, "yellow")
        /\ edges'[i].target = Vertex(n + 1, how)
    BY <1>5, <1>6
  <2>2. by \in 1..((n + 1) - 1)
    BY <1>1
  <2> QED
    BY <2>1, <2>2, <1>1, <1>4 DEF Drawn
<1>12. \A i \in 1..Len(edges') : i \in 1..Len(edges) \/ (how # "none" /\ i = Len(edges) + 1)
  BY <1>2, <1>6
<1>13. Drawing'
  <2>1. \A i \in 1..Len(edges') : Drawn(i)'
    BY <1>10, <1>11, <1>12
  <2>2. ASSUME NEW i \in 1..Len(edges'), NEW j \in 1..Len(edges'), i < j
        PROVE  edges'[i].target.key < edges'[j].target.key
    <3>1. i \in 1..Len(edges) /\ edges'[i] = edges[i]
      BY <2>2, <1>2, <1>6, <1>12
    <3>2. CASE j \in 1..Len(edges)
      BY <2>2, <3>1, <3>2, <1>6 DEF GraphInv, Drawing
    <3>3. CASE how # "none" /\ j = Len(edges) + 1
      <4>1. edges[i].target.key \in Keys
        BY <3>1, <1>10 DEF Drawn
      <4>2. edges[i].target.key < n + 1
        BY <4>1, <1>1
      <4> QED
        BY <3>1, <3>3, <4>2, <1>5, <1>6
    <3> QED
      BY <3>2, <3>3, <1>12
  <2>3. ASSUME NEW c \in Keys', started'[c].how # "none"
        PROVE  \E i \in 1..Len(edges') : edges'[i].target.key = c
    <3>1. CASE c \in Keys
      <4>1. PICK i \in 1..Len(edges) : edges[i].target.key = c
        BY <2>3, <3>1, <1>4 DEF GraphInv, Drawing
      <4>2. i \in 1..Len(edges')
        BY <4>1, <1>2, <1>6
      <4> QED
        BY <4>1, <4>2, <1>6
    <3>2. CASE c = n + 1
      <4>1. how # "none" /\ Len(edges) + 1 \in 1..Len(edges')
        BY <2>3, <3>2, <1>2, <1>4, <1>6
      <4> QED
        BY <3>2, <4>1, <1>5, <1>6
    <3> QED
      BY <3>1, <3>2, <1>1
  <2> QED
    BY <2>1, <2>2, <2>3, <1>1, <1>4 DEF Drawing
<1>14. Nodes_'
  <2> SUFFICES ASSUME met # NULL PROVE Nodes_'
    BY DEF Nodes_
  <2>1. /\ met.edges \in 0..Len(edges) /\ met.contexts \in Keys
        /\ Listed(met.nodes, met.edges)
        /\ \A i \in 1..met.edges : edges[i].target.key <= met.contexts
        /\ \A c \in 1..met.contexts : started[c].how # "none" =>
             \E i \in 1..met.edges : edges[i].target.key = c
    BY DEF GraphInv, Nodes_
  <2>2. met.edges \in Nat /\ met.edges <= Len(edges) /\ met.edges \in 0..Len(edges')
    BY <2>1, <1>2, <1>6
  <2>3. Listed(met.nodes, met.edges)'
    BY <2>1, <2>2, <1>1, <1>2, <1>4, <1>6, ListedStays
  <2>4. /\ \A i \in 1..met.edges : i \in 1..Len(edges)
        /\ \A c \in 1..met.contexts : c \in Keys
    BY <2>1, <2>2, <1>1, <1>2
  <2>5. run # "task"
    OBVIOUS
  <2>6. /\ \A i \in 1..met.edges : edges'[i].target.key <= met.contexts
        /\ \A c \in 1..met.contexts : started'[c].how # "none" =>
             \E i \in 1..met.edges : edges'[i].target.key = c
    BY <2>1, <2>4, <1>4, <1>6
  <2> QED
    BY <2>1, <2>2, <2>3, <2>4, <2>5, <2>6, <1>1 DEF Nodes_
<1>15. Stored'
  <2> SUFFICES ASSUME saved # NULL PROVE Stored'
    BY DEF Stored
  <2>1. /\ met # NULL /\ saved.nodes = met.nodes
        /\ \E k \in met.edges..Len(edges) : DOMAIN saved.edges = 1..k /\ Len(saved.edges) = k
        /\ \A i \in 1..met.edges : WrittenEdge(i)
    BY DEF GraphInv, Stored
  <2>2. met.edges \in 0..Len(edges)
    BY <2>1 DEF GraphInv, Nodes_
  <2>3. /\ \A i \in 1..met.edges : edges'[i] = edges[i]
        /\ met.edges..Len(edges) \subseteq met.edges..Len(edges')
    BY <2>2, <1>2, <1>6
  <2>4. \A i \in 1..met.edges : WrittenEdge(i)'
    <3>1. saved' = saved /\ met' = met
      OBVIOUS
    <3>2. \A i \in 1..met.edges : WrittenEdge(i) /\ edges'[i] = edges[i]
      BY <2>1, <2>3
    <3> QED
      BY ONLY <3>1, <3>2 DEF WrittenEdge
  <2> QED
    BY <2>1, <2>3, <2>4 DEF Stored
<1> QED
  BY <1>8, <1>9, <1>13, <1>14, <1>15 DEF GraphInv

(* The starts that leave no edge.                                          *)
LEMMA UnseenKeeps ==
  ASSUME GraphInv, StartsUnseen \/ \E w \in Workers : template_task_run_single(w)
  PROVE  GraphInv'
<1> USE TaskGraphConstants
<1> DEFINE L == 1..(contexts + 1)
<1>1. /\ contexts \in Nat \ {0} /\ 1 \in Keys /\ Keys \subseteq L /\ contexts + 1 \in L
      /\ queue \in Seq(Keys) /\ starting \in [Workers -> Keys \cup {NULL}]
  BY DEF GraphInv, GraphTyped, Keys
<1> HIDE DEF L
<1>2. queue \in Seq(L) /\ Append(queue, contexts + 1) \in Seq(L)
      /\ starting \in [Workers -> L \cup {NULL}]
  BY <1>1
<1>3. PICK by \in Keys : /\ Starts(by, "none") /\ queue' \in Seq(L)
                         /\ UNCHANGED <<run, running, current, starting, edges, met, saved>>
                         /\ ~(run = "task" /\ met # NULL)
  <2>1. CASE StartsUnseen
    BY <2>1, <1>1, <1>2 DEF StartsUnseen
  <2>2. CASE \E w \in Workers : template_task_run_single(w)
    <3>1. PICK w \in Workers : template_task_run_single(w)
      BY <2>2
    <3>2. running[w] \in Keys /\ running # Idle
      BY <3>1 DEF template_task_run_single, GraphInv, GraphTyped, Idle
    <3>3. ~(run = "task" /\ met # NULL)
      BY <3>2 DEF GraphInv, Nodes_
    <3> QED
      BY <3>1, <3>2, <3>3, <1>2 DEF template_task_run_single
  <2> QED
    BY <2>1, <2>2
<1>4. /\ edges' = edges /\ "none" \in {"none", "red", "green"}
      /\ \A w \in Workers : starting'[w] # NULL => running[w] # NULL
  BY <1>3 DEF GraphInv, Current
<1> QED
  BY <1>2, <1>3, <1>4, StartsKeep DEF L

(* The starts that leave one.                                              *)
LEMMA EdgeKeeps ==
  ASSUME GraphInv, NEW w \in Workers, NEW color \in {"red", "green"}, Edge(w, color),
         queue' = queue,
         \/ starting' = starting
         \/ starting' = [starting EXCEPT ![w] = contexts + 1]
  PROVE  GraphInv'
<1> USE TaskGraphConstants
<1> DEFINE L == 1..(contexts + 1)
<1>1. /\ contexts \in Nat \ {0} /\ Keys \subseteq L /\ contexts + 1 \in L
      /\ queue \in Seq(Keys) /\ starting \in [Workers -> Keys \cup {NULL}]
  BY DEF GraphInv, GraphTyped, Keys
<1>2. /\ running[w] \in Keys /\ running[w] # NULL /\ current[w] = Vertex(running[w], "yellow")
      /\ running # Idle
  BY DEF Edge, GraphInv, GraphTyped, Current, Idle
<1> HIDE DEF L
<1>3. queue' \in Seq(L) /\ starting' \in [Workers -> L \cup {NULL}]
  BY <1>1
<1>4. \A x \in Workers : starting'[x] # NULL => running[x] # NULL
  BY <1>1, <1>2 DEF GraphInv, Current
<1>5. ~(run = "task" /\ met # NULL)
  BY <1>2 DEF GraphInv, Nodes_
<1>6. /\ Starts(running[w], color) /\ color # "none" /\ UNCHANGED <<run, running, current, met, saved>>
      /\ edges' = Append(edges, [source |-> Vertex(running[w], "yellow"),
                                 target |-> Vertex(contexts + 1, color)])
  BY <1>2 DEF Edge
<1> QED
  BY <1>2, <1>3, <1>4, <1>5, <1>6, StartsKeep DEF L

-----------------------------------------------------------------------------
(* A list with distinct keys to which a vertex is added, if it is new.     *)
LEMMA MeetAdds ==
  ASSUME NEW list \in Seq(Vertexes), NEW v \in Vertexes, v.key \in Keys,
         \A k, m \in 1..Len(list) : list[k].key = list[m].key => k = m,
         \A k \in 1..Len(list) : list[k].key \in Keys /\ list[k] = First(list[k].key),
         Known(list, v) \/ v = First(v.key)
  PROVE  /\ Meet(list, v) \in Seq(Vertexes)
         /\ \A k, m \in 1..Len(Meet(list, v)) :
              Meet(list, v)[k].key = Meet(list, v)[m].key => k = m
         /\ \A k \in 1..Len(Meet(list, v)) :
              Meet(list, v)[k].key \in Keys /\ Meet(list, v)[k] = First(Meet(list, v)[k].key)
         /\ \A c \in Nat : (\E k \in 1..Len(Meet(list, v)) : Meet(list, v)[k].key = c)
                             <=> c = v.key \/ \E k \in 1..Len(list) : list[k].key = c
<1> DEFINE g == Append(list, v)
<1>1. DOMAIN list = 1..Len(list) /\ Len(list) \in Nat
  OBVIOUS
<1>2. CASE Known(list, v)
  BY <1>1, <1>2 DEF Meet, Known
<1>3. CASE ~Known(list, v)
  <2>1. /\ Meet(list, v) = g /\ g \in Seq(Vertexes) /\ Len(g) = Len(list) + 1
        /\ \A k \in 1..Len(list) : g[k] = list[k] /\ list[k].key # v.key
        /\ g[Len(list) + 1] = v
    BY <1>1, <1>3 DEF Meet, Known
  <2> HIDE DEF g
  <2>2. \A k \in 1..Len(g) : k \in 1..Len(list) \/ k = Len(list) + 1
    BY <2>1, <1>1
  <2>3. 1..Len(list) \subseteq 1..Len(g) /\ Len(list) + 1 \in 1..Len(g)
    BY <2>1, <1>1
  <2>4. ASSUME NEW k \in 1..Len(g), NEW m \in 1..Len(g), g[k].key = g[m].key
        PROVE  k = m
    BY <2>1, <2>2, <2>4
  <2>5. \A k \in 1..Len(g) : g[k].key \in Keys /\ g[k] = First(g[k].key)
    BY <2>1, <2>2, <1>3
  <2>6. \A c \in Nat : (\E k \in 1..Len(g) : g[k].key = c)
                         <=> c = v.key \/ \E k \in 1..Len(list) : list[k].key = c
    BY <2>1, <2>2, <2>3
  <2> QED
    BY <2>1, <2>4, <2>5, <2>6
<1> QED
  BY <1>2, <1>3

(* The next edge adds the contexts that it is between.                     *)
LEMMA Met ==
  ASSUME GraphTyped, Drawing, NEW i \in 1..Len(edges), NEW list, Listed(list, i - 1)
  PROVE  Listed(Meet(Meet(list, edges[i].source), edges[i].target), i)
<1> DEFINE s == edges[i].source
           t == edges[i].target
           c == t.key
           l == Meet(list, s)
<1>1. /\ contexts \in Nat /\ Len(edges) \in Nat /\ i \in Nat /\ s \in Vertexes /\ t \in Vertexes
      /\ \A j \in 1..Len(edges) : edges[j].target.key \in Nat
  <2>1. \A j \in 1..Len(edges) : edges[j] \in Edges
    BY DEF GraphTyped
  <2> QED
    BY <2>1 DEF GraphTyped, Edges, Vertexes
<1>2. /\ c \in Keys /\ started[c].how # "none" /\ started[c].by \in 1..(c - 1)
      /\ s = Vertex(started[c].by, "yellow") /\ t = Vertex(c, started[c].how)
  BY DEF Drawing, Drawn
<1>3. s.key = started[c].by /\ s.color = "yellow" /\ s.key \in Keys /\ s.key < c /\ c \in Nat
  BY <1>1, <1>2 DEF Vertex, Keys
\* a source that was recorded itself is on the list
<1>4. Known(list, s) \/ s = First(s.key)
  <2>1. CASE started[s.key].how = "none"
    BY <2>1, <1>2, <1>3 DEF First
  <2>2. CASE started[s.key].how # "none"
    <3>1. PICK j \in 1..Len(edges) : edges[j].target.key = s.key
      BY <2>2, <1>3 DEF Drawing
    <3>2. j < i
      <4>1. edges[j].target.key < edges[i].target.key
        BY <3>1, <1>3
      <4>2. ~(edges[i].target.key < edges[j].target.key) /\ i # j
        BY <4>1, <1>1
      <4>3. ~(i < j)
        BY <4>2 DEF Drawing
      <4> QED
        BY <4>2, <4>3, <1>1
    <3>3. j \in 1..(i - 1) /\ s.key \in Nat
      BY <3>2, <1>1, <1>3 DEF Keys
    <3>4. \E k \in 1..Len(list) : list[k].key = s.key
      BY <3>1, <3>3 DEF Listed
    <3>5. list \in Seq(Vertexes)
      BY DEF Listed
    <3> QED
      BY <3>4, <3>5 DEF Known
  <2> QED
    BY <2>1, <2>2
<1>5. /\ l \in Seq(Vertexes) /\ \A k, m \in 1..Len(l) : l[k].key = l[m].key => k = m
      /\ \A k \in 1..Len(l) : l[k].key \in Keys /\ l[k] = First(l[k].key)
      /\ \A d \in Nat : (\E k \in 1..Len(l) : l[k].key = d)
                          <=> d = s.key \/ \E k \in 1..Len(list) : list[k].key = d
  <2> HIDE DEF s
  <2> QED
    BY <1>1, <1>3, <1>4, MeetAdds DEF Listed
<1>6. t = First(c)
  BY <1>2 DEF First
<1>7. /\ Meet(l, t) \in Seq(Vertexes)
      /\ \A k, m \in 1..Len(Meet(l, t)) : Meet(l, t)[k].key = Meet(l, t)[m].key => k = m
      /\ \A k \in 1..Len(Meet(l, t)) :
           Meet(l, t)[k].key \in Keys /\ Meet(l, t)[k] = First(Meet(l, t)[k].key)
      /\ \A d \in Nat : (\E k \in 1..Len(Meet(l, t)) : Meet(l, t)[k].key = d)
                          <=> d = c \/ \E k \in 1..Len(l) : l[k].key = d
  <2> HIDE DEF l, t
  <2> QED
    BY <1>1, <1>2, <1>5, <1>6, MeetAdds
<1>8. ASSUME NEW d \in Nat
      PROVE  (\E k \in 1..Len(Meet(l, t)) : Meet(l, t)[k].key = d)
                <=> \E j \in 1..i : d \in {edges[j].source.key, edges[j].target.key}
  <2>1. (\E k \in 1..Len(list) : list[k].key = d)
           <=> \E j \in 1..(i - 1) : d \in {edges[j].source.key, edges[j].target.key}
    BY DEF Listed
  <2>2. \A j : j \in 1..i <=> j \in 1..(i - 1) \/ j = i
    BY <1>1
  <2>3. (\E j \in 1..i : d \in {edges[j].source.key, edges[j].target.key})
           <=> \/ d = s.key \/ d = c
               \/ \E j \in 1..(i - 1) : d \in {edges[j].source.key, edges[j].target.key}
    BY <2>2
  <2> HIDE DEF l, s, t
  <2> QED
    BY <2>1, <2>3, <1>5, <1>7
<1> HIDE DEF l, s, t
<1>9. Listed(Meet(l, t), i)
  BY <1>7, <1>8 DEF Listed
<1> QED
  BY <1>9 DEF l, s, t

(* The list grows edge by edge.                                            *)
LEMMA VertexesAreContexts ==
  ASSUME GraphTyped, Drawing
  PROVE  Listed(template_task_graph_vertexes, Len(edges))
<1> DEFINE Next_(l, i) == Meet(Meet(l, edges[i].source), edges[i].target)
           IsList(h, n) == /\ h[0] = <<>>
                           /\ \A i \in 1..n : h[i] = Next_(h[i - 1], i)
           Step(g) == [i \in 0..Len(edges) |-> IF i = 0 THEN <<>> ELSE Next_(g[i - 1], i)]
           list == CHOOSE f : f = Step(f)
<1>1. Len(edges) \in Nat
  BY DEF GraphTyped
<1> HIDE DEF Next_
\* there is such a list up to any edge
<1> DEFINE A == {n \in Nat : \E h : h = [i \in 0..n |-> h[i]] /\ IsList(h, n)}
<1>2. 0 \in A
  <2> DEFINE h == [i \in 0..0 |-> <<>>]
  <2>1. h = [i \in 0..0 |-> h[i]] /\ h[0] = <<>> /\ 1..0 = {}
    OBVIOUS
  <2> HIDE DEF h
  <2>2. IsList(h, 0)
    BY <2>1
  <2> QED
    BY <2>1, <2>2
<1>3. \A n \in Nat : n \in A => n + 1 \in A
  <2> SUFFICES ASSUME NEW n \in Nat, n \in A PROVE n + 1 \in A
    OBVIOUS
  <2>1. PICK h : h = [i \in 0..n |-> h[i]] /\ IsList(h, n)
    OBVIOUS
  <2> DEFINE g == [i \in 0..(n + 1) |-> IF i = n + 1 THEN Next_(h[n], n + 1) ELSE h[i]]
  <2>2. /\ g = [i \in 0..(n + 1) |-> g[i]] /\ g[n + 1] = Next_(h[n], n + 1)
        /\ \A i \in 0..n : g[i] = h[i]
    OBVIOUS
  <2> HIDE DEF g
  <2>3. g[0] = <<>>
    <3>1. 0 \in 0..n /\ h[0] = <<>>
      BY <2>1
    <3> QED
      BY <2>2, <3>1
  <2>4. ASSUME NEW i \in 1..(n + 1)
        PROVE  g[i] = Next_(g[i - 1], i)
    <3>1. CASE i = n + 1
      <4>1. i - 1 = n /\ n \in 0..n
        BY <3>1
      <4> QED
        BY <3>1, <4>1, <2>2
    <3>2. CASE i # n + 1
      <4>1. i \in 1..n /\ i \in 0..n /\ i - 1 \in 0..n
        BY <3>2
      <4> QED
        BY <4>1, <2>1, <2>2
    <3> QED
      BY <3>1, <3>2
  <2>5. IsList(g, n + 1)
    BY <2>3, <2>4
  <2>6. n + 1 \in Nat
    OBVIOUS
  <2> HIDE DEF IsList
  <2> QED
    BY <2>2, <2>5, <2>6
<1>4. Len(edges) \in A
  <2> HIDE DEF A
  <2>1. \A n \in Nat : n \in A
    BY <1>2, <1>3, AllNumbers
  <2> QED
    BY <1>1, <2>1
<1>5. PICK h : h = [i \in 0..Len(edges) |-> h[i]] /\ IsList(h, Len(edges))
  BY <1>4
<1>6. h = Step(h)
  <2>1. \A i \in 0..Len(edges) : h[i] = IF i = 0 THEN <<>> ELSE Next_(h[i - 1], i)
    BY <1>1, <1>5
  <2>2. Step(h) = [i \in 0..Len(edges) |-> h[i]]
    BY <2>1
  <2> QED
    BY <1>5, <2>2
<1>7. list = Step(list)
  BY <1>6
<1> HIDE DEF list
<1> DEFINE B == {k \in Nat : k <= Len(edges) => Listed(list[k], k)}
<1>8. 0 \in B
  <2>1. list[0] = <<>>
    BY <1>1, <1>7
  <2>2. Listed(<<>>, 0)
    BY DEF Listed
  <2> QED
    BY <2>1, <2>2
<1>9. \A k \in Nat : k \in B => k + 1 \in B
  <2> SUFFICES ASSUME NEW k \in Nat, k \in B, k + 1 <= Len(edges)
               PROVE  Listed(list[k + 1], k + 1)
    OBVIOUS
  <2>1. k + 1 \in 1..Len(edges) /\ k <= Len(edges) /\ (k + 1) - 1 = k /\ k + 1 # 0
        /\ k + 1 \in 0..Len(edges)
    BY <1>1
  <2>2. list[k + 1] = Next_(list[k], k + 1)
    <3>1. list[k + 1] = IF k + 1 = 0 THEN <<>> ELSE Next_(list[(k + 1) - 1], k + 1)
      BY <1>7, <2>1
    <3> QED
      BY <2>1, <3>1
  <2>3. Listed(list[k], (k + 1) - 1)
    BY <2>1
  <2>4. Listed(Next_(list[k], k + 1), k + 1)
    BY <2>1, <2>3, Met DEF Next_
  <2> QED
    BY <2>2, <2>4
<1>10. \A k \in Nat : k \in B
  <2> HIDE DEF B
  <2> QED
    BY <1>8, <1>9, AllNumbers
<1>11. Listed(list[Len(edges)], Len(edges))
  BY <1>1, <1>10
<1>12. template_task_graph_vertexes = list[Len(edges)]
  BY DEF template_task_graph_vertexes, list, Next_
<1> QED
  BY <1>11, <1>12

(* The nodes are written.                                                  *)
LEMMA NodesKeep ==
  ASSUME GraphInv, WriteNodes
  PROVE  GraphInv'
<1> USE DEF WriteNodes
<1>1. PICK m : /\ m.nodes = template_task_graph_vertexes /\ m.edges = Len(edges)
               /\ m.contexts = contexts /\ met' = m
  OBVIOUS
<1>2. Listed(m.nodes, m.edges)
  BY <1>1, VertexesAreContexts DEF GraphInv
<1>3. Listed(m.nodes, m.edges)'
  BY <1>1, <1>2 DEF Listed, First, Keys
<1>4. /\ contexts \in Nat \ {0} /\ Len(edges) \in Nat /\ Len(edges) \in 0..Len(edges)
      /\ contexts \in Keys /\ Keys = 1..contexts
      /\ \A i \in 1..Len(edges) : edges[i].target.key <= contexts
  <2>1. contexts \in Nat \ {0} /\ Len(edges) \in Nat
    BY DEF GraphInv, GraphTyped
  <2>2. \A i \in 1..Len(edges) : edges[i].target.key \in 1..contexts
    BY DEF GraphInv, Drawing, Drawn, Keys
  <2> QED
    BY <2>1, <2>2 DEF Keys
<1>5. run = "task" => queue = <<>> /\ running = Idle
  BY DEF Returned
<1>6. \A c \in 1..contexts : started[c].how # "none" =>
        \E i \in 1..Len(edges) : edges[i].target.key = c
  BY DEF GraphInv, Drawing, Keys
<1>7. Nodes_'
  BY <1>1, <1>3, <1>4, <1>5, <1>6 DEF Nodes_, Keys, Idle
<1>8. Stored'
  BY DEF GraphInv, Stored
<1>9. GraphTyped' /\ Current' /\ Drawing'
  BY DEF GraphInv, GraphTyped, Current, Drawing, Drawn, Keys
<1> QED
  BY <1>7, <1>8, <1>9 DEF GraphInv

(* The number of a context on a list.                                      *)
LEMMA IdIsNode ==
  ASSUME NEW n, Listed(met.nodes, n), NEW v, NEW k \in 1..Len(met.nodes),
         met.nodes[k].key = v.key
  PROVE  Id(v) = k
<1> DEFINE I == {j \in 1..Len(met.nodes) : met.nodes[j].key = v.key}
<1>1. I = {k} /\ k \in Nat
  BY DEF Listed
<1>2. Min(I) = k
  <2>1. I \subseteq Nat /\ I # {}
    BY <1>1
  <2> HIDE DEF I
  <2>2. Min(I) \in I
    BY <2>1, SomeLeast
  <2> QED
    BY <1>1, <2>2
<1>3. Id(v) = Min(I)
  BY <1>1 DEF Id, SelectInSeq
<1> QED
  BY <1>2, <1>3

(* The edges are written.                                                  *)
LEMMA SaveKeeps ==
  ASSUME GraphInv, template_task_graph_save
  PROVE  GraphInv'
<1> USE DEF template_task_graph_save
<1> DEFINE drawn == [i \in DOMAIN edges |->
                       IF i <= met.edges
                       THEN [source |-> Id(edges[i].source), target |-> Id(edges[i].target)]
                       ELSE [source |-> LateId(edges[i].source),
                             target |-> LateId(edges[i].target)]]
<1>1. Len(edges) \in Nat /\ DOMAIN edges = 1..Len(edges) /\ met.edges \in 0..Len(edges)
  BY DEF GraphInv, GraphTyped, Nodes_
<1>2. saved' = [nodes |-> met.nodes, edges |-> drawn]
  OBVIOUS
<1>3. /\ DOMAIN drawn = 1..Len(edges)
      /\ \A i \in 1..met.edges : i \in 1..Len(edges) /\
           drawn[i] = [source |-> Id(edges[i].source), target |-> Id(edges[i].target)]
  BY <1>1
<1> HIDE DEF drawn
<1>4. Len(drawn) = Len(edges)
  BY <1>1, <1>3
<1>5. saved'.nodes = met.nodes /\ saved'.edges = drawn
  BY ONLY <1>2
<1>6. ASSUME NEW i \in 1..met.edges
      PROVE  \E k, m \in 1..Len(met.nodes) :
               /\ drawn[i] = [source |-> k, target |-> m]
               /\ met.nodes[k].key = edges[i].source.key
               /\ met.nodes[m].key = edges[i].target.key
  <2>1. edges[i].source.key \in Nat /\ edges[i].target.key \in Nat
    <3>1. edges[i] \in Edges
      BY <1>1, <1>3 DEF GraphInv, GraphTyped
    <3> QED
      BY <3>1 DEF Edges, Vertexes
  <2>2. Listed(met.nodes, met.edges)
    BY DEF GraphInv, Nodes_
  <2>3. PICK k \in 1..Len(met.nodes) : met.nodes[k].key = edges[i].source.key
    BY <2>1, <2>2 DEF Listed
  <2>4. PICK m \in 1..Len(met.nodes) : met.nodes[m].key = edges[i].target.key
    BY <2>1, <2>2 DEF Listed
  <2>5. Id(edges[i].source) = k /\ Id(edges[i].target) = m
    BY <2>2, <2>3, <2>4, IdIsNode
  <2> QED
    BY <2>3, <2>4, <2>5, <1>3
<1>7. Stored'
  <2>1. Len(edges) \in met.edges..Len(edges)
    BY <1>1
  <2>2. \A i \in 1..met.edges : WrittenEdge(i)'
    BY <1>5, <1>6 DEF WrittenEdge
  <2> QED
    BY <1>3, <1>4, <1>5, <2>1, <2>2 DEF Stored
<1>8. Nodes_' /\ Drawing'
  <2>1. Drawing'
    BY DEF GraphInv, Drawing, Drawn, Keys
  <2>2. Listed(met.nodes, met.edges)'
    BY DEF GraphInv, Nodes_, Listed, First, Keys
  <2> QED
    BY <2>1, <2>2 DEF GraphInv, Nodes_, Keys
<1>9. GraphTyped' /\ Current'
  BY DEF GraphInv, GraphTyped, Current, Keys
<1> QED
  BY <1>7, <1>8, <1>9 DEF GraphInv

(* Every step keeps the invariant (template_task_graph.c).                 *)
LEMMA GraphInvNext == GraphInv /\ [TaskGraphNext]_graphVars => GraphInv'
<1> SUFFICES ASSUME GraphInv, [TaskGraphNext]_graphVars PROVE GraphInv'
  OBVIOUS
<1>1. ASSUME NEW w \in Workers, TakeTask(w) PROVE GraphInv'
  BY <1>1, TakeTaskKeeps
<1>2. ASSUME NEW w \in Workers, TaskEnds(w) PROVE GraphInv'
  BY <1>2, EndKeeps
<1>3. ASSUME NEW w \in Workers, template_task_graph_add_serial(w) PROVE GraphInv'
  BY <1>3, EdgeKeeps DEF template_task_graph_add_serial
<1>4. ASSUME NEW w \in Workers, template_task_graph_add_parallel(w) PROVE GraphInv'
  BY <1>4, EdgeKeeps DEF template_task_graph_add_parallel
<1>5. ASSUME NEW w \in Workers, threadpool_start(w) PROVE GraphInv'
  BY <1>5, StartKeeps
<1>6. ASSUME StartsUnseen \/ \E w \in Workers : template_task_run_single(w) PROVE GraphInv'
  BY <1>6, UnseenKeeps
<1>7. ASSUME InlineEnds PROVE GraphInv'
  BY <1>7, InlineKeeps
<1>8. ASSUME WriteNodes PROVE GraphInv'
  BY <1>8, NodesKeep
<1>9. ASSUME template_task_graph_save PROVE GraphInv'
  BY <1>9, SaveKeeps
<1>10. ASSUME UNCHANGED graphVars PROVE GraphInv'
  <2>1. GraphTyped' /\ Current'
    BY <1>10 DEF graphVars, GraphInv, GraphTyped, Current, Keys
  <2> QED
    BY <1>10, <2>1, PictureStays DEF graphVars, GraphInv
<1> QED
  BY <1>1, <1>2, <1>3, <1>4, <1>5, <1>6, <1>7, <1>8, <1>9, <1>10 DEF TaskGraphNext

(* What was written names each context once and each start once.           *)
LEMMA WrittenIsPicture ==
  ASSUME GraphInv, saved # NULL, Len(saved.edges) = met.edges
  PROVE  Picture
<1>1. /\ met # NULL /\ saved.nodes = met.nodes /\ DOMAIN saved.edges = 1..met.edges
      /\ \A i \in 1..met.edges : WrittenEdge(i)
  BY DEF GraphInv, Stored
<1>2. /\ met.edges \in 0..Len(edges) /\ met.contexts \in Keys
      /\ Listed(met.nodes, met.edges)
      /\ \A i \in 1..met.edges : edges[i].target.key <= met.contexts
      /\ \A c \in 1..met.contexts : started[c].how # "none" =>
           \E i \in 1..met.edges : edges[i].target.key = c
  BY <1>1 DEF GraphInv, Nodes_
<1>3. PICK nodes : nodes = met.nodes
  OBVIOUS
<1>4. /\ nodes \in Seq(Vertexes) /\ DOMAIN nodes = 1..Len(nodes) /\ saved.nodes = nodes
      /\ \A k, m \in 1..Len(nodes) : nodes[k].key = nodes[m].key => k = m
      /\ \A k \in 1..Len(nodes) : nodes[k].key \in Keys /\ nodes[k] = First(nodes[k].key)
      /\ \A c \in Nat : (\E k \in 1..Len(nodes) : nodes[k].key = c)
                          <=> \E i \in 1..met.edges :
                                c \in {edges[i].source.key, edges[i].target.key}
  <2>1. Listed(nodes, met.edges)
    BY <1>2, <1>3
  <2>2. nodes \in Seq(Vertexes)
    BY <2>1 DEF Listed
  <2>3. DOMAIN nodes = 1..Len(nodes)
    BY <2>2
  <2>4. /\ \A k, m \in 1..Len(nodes) : nodes[k].key = nodes[m].key => k = m
        /\ \A k \in 1..Len(nodes) : nodes[k].key \in Keys /\ nodes[k] = First(nodes[k].key)
        /\ \A c \in Nat : (\E k \in 1..Len(nodes) : nodes[k].key = c)
                            <=> \E i \in 1..met.edges :
                                  c \in {edges[i].source.key, edges[i].target.key}
    BY <2>1, Zenon DEF Listed
  <2>5. saved.nodes = nodes
    BY <1>1, <1>3
  <2> QED
    BY <2>2, <2>3, <2>4, <2>5
<1>5. /\ contexts \in Nat /\ Len(edges) \in Nat /\ met.contexts \in Nat /\ Keys \subseteq Nat
      /\ \A i \in 1..met.edges : i \in 1..Len(edges)
      /\ 1..met.contexts \subseteq Keys
  BY <1>2 DEF GraphInv, GraphTyped, Keys
\* the edges that count lead to the contexts recorded
<1>6. ASSUME NEW i \in 1..met.edges
      PROVE  /\ edges[i].target.key \in Recorded
             /\ edges[i].source.key = started[edges[i].target.key].by
             /\ edges[i].source.key \in Nat /\ edges[i].target.key \in Nat
             /\ edges[i].source.key < edges[i].target.key
  <2> DEFINE c == edges[i].target.key
  <2>1. /\ c \in Keys /\ started[c].how # "none" /\ started[c].by \in 1..(c - 1)
        /\ edges[i].source = Vertex(started[c].by, "yellow")
    BY <1>5 DEF GraphInv, Drawing, Drawn
  <2>2. edges[i].source.key = started[c].by /\ c \in Nat /\ 1 <= c
    BY <2>1, <1>5 DEF Vertex, Keys
  <2>3. c <= met.contexts
    BY <1>2
  <2> HIDE DEF c
  <2>4. c \in Recorded
    BY <2>1, <2>2, <2>3, <1>5 DEF Recorded
  <2>5. started[c].by \in Nat /\ started[c].by < c
    BY <2>1, <2>2
  <2> QED
    BY <2>2, <2>4, <2>5 DEF c
<1>7. ASSUME NEW c \in Recorded
      PROVE  \E i \in 1..met.edges : edges[i].target.key = c
  BY <1>2 DEF Recorded
<1>8. OnGraph = {nodes[k].key : k \in 1..Len(nodes)}
  <2>1. ASSUME NEW c \in Recorded
        PROVE  /\ \E k \in 1..Len(nodes) : nodes[k].key = c
               /\ \E k \in 1..Len(nodes) : nodes[k].key = started[c].by
    <3>1. PICK i \in 1..met.edges : edges[i].target.key = c
      BY <1>7
    <3> QED
      BY <3>1, <1>4, <1>6
  <2>2. ASSUME NEW k \in 1..Len(nodes)
        PROVE  nodes[k].key \in OnGraph
    <3>1. nodes[k].key \in Nat
      BY <1>4, <1>5
    <3>2. PICK i \in 1..met.edges : nodes[k].key \in {edges[i].source.key, edges[i].target.key}
      BY <3>1, <1>4
    <3> QED
      BY <3>2, <1>6 DEF OnGraph
  <2> QED
    BY <2>1, <2>2 DEF OnGraph
<1>9. ASSUME NEW k \in 1..Len(nodes)
      PROVE  NodeOf(nodes[k].key) = k
  <2>1. \A m \in DOMAIN saved.nodes : saved.nodes[m].key = nodes[k].key <=> m = k
    BY <1>4
  <2> QED
    BY <2>1, <1>4 DEF NodeOf
<1>10. ASSUME NEW k \in 1..Len(nodes)
       PROVE  LET c == nodes[k].key IN
                nodes[k].color = IF c \in Recorded THEN started[c].how ELSE "yellow"
  <2> DEFINE c == nodes[k].key
  <2>1. nodes[k].color = IF started[c].how = "none" THEN "yellow" ELSE started[c].how
    BY <1>4 DEF First, Vertex
  <2>2. c \in Recorded <=> started[c].how # "none"
    <3>1. c \in Keys /\ c \in Nat
      BY <1>4, <1>5
    <3>2. PICK i \in 1..met.edges : c \in {edges[i].source.key, edges[i].target.key}
      BY <3>1, <1>4
    <3>3. edges[i].target.key <= met.contexts /\ edges[i].target.key \in Nat
          /\ edges[i].source.key \in Nat /\ edges[i].source.key < edges[i].target.key
      BY <1>2, <1>6
    <3>4. 1 <= c /\ c <= met.contexts
      BY <3>1, <3>2, <3>3, <1>5 DEF Keys
    <3> HIDE DEF c
    <3> QED
      BY <3>1, <3>4, <1>5 DEF Recorded
  <2> QED
    BY <2>1, <2>2
\* what an edge was written as
<1>11. ASSUME NEW i \in 1..met.edges
       PROVE  LET c == edges[i].target.key IN
              /\ saved.edges[i] = [source |-> NodeOf(started[c].by), target |-> NodeOf(c)]
              /\ saved.edges[i].target = NodeOf(c)
              /\ NodeOf(c) \in 1..Len(nodes) /\ nodes[NodeOf(c)].key = c
  <2>1. PICK c, b : c = edges[i].target.key /\ b = edges[i].source.key
    OBVIOUS
  <2>2. b = started[c].by /\ b \in Nat /\ c \in Nat
    BY <2>1, <1>6
  <2>3. PICK k \in 1..Len(nodes), m \in 1..Len(nodes) :
          /\ nodes[k].key = b /\ nodes[m].key = c
          /\ saved.edges[i] = [source |-> k, target |-> m]
    BY <2>1, <1>1, <1>3 DEF WrittenEdge
  <2>4. NodeOf(b) = k /\ NodeOf(c) = m
    BY <2>3, <1>9
  <2> QED
    BY <2>1, <2>2, <2>3, <2>4
<1>12. {saved.edges[i] : i \in DOMAIN saved.edges}
         = {[source |-> NodeOf(started[c].by), target |-> NodeOf(c)] : c \in Recorded}
  <2> DEFINE E(c) == [source |-> NodeOf(started[c].by), target |-> NodeOf(c)]
  <2>1. \A i \in 1..met.edges : saved.edges[i] = E(edges[i].target.key)
    BY <1>11
  <2> HIDE DEF E
  <2>2. {saved.edges[i] : i \in 1..met.edges} = {E(c) : c \in Recorded}
    BY <2>1, <1>6, <1>7
  <2> QED
    BY <2>2, <1>1 DEF E
<1>13. ASSUME NEW i \in 1..met.edges, NEW j \in 1..met.edges,
              saved.edges[i].target = saved.edges[j].target
       PROVE  i = j
  <2>1. edges[i].target.key = edges[j].target.key
    BY <1>11, <1>13
  <2>2. ~(i < j) /\ ~(j < i)
    <3>1. edges[i].target.key \in Nat /\ i \in 1..Len(edges) /\ j \in 1..Len(edges)
      BY <1>5, <1>6
    <3>2. /\ i < j => edges[i].target.key < edges[j].target.key
          /\ j < i => edges[j].target.key < edges[i].target.key
      BY <3>1 DEF GraphInv, Drawing
    <3> QED
      BY <2>1, <3>1, <3>2
  <2> QED
    BY <2>2, <1>2
<1>14. {saved.nodes[i].key : i \in DOMAIN saved.nodes} = OnGraph
  BY <1>4, <1>8
<1>15. \A i \in DOMAIN saved.nodes : LET c == saved.nodes[i].key IN
         saved.nodes[i].color = IF c \in Recorded THEN started[c].how ELSE "yellow"
  BY <1>4, <1>10
<1> QED
  BY <1>1, <1>4, <1>12, <1>13, <1>14, <1>15 DEF Picture

(***************************************************************************)
(* The saved graph is the run, for any number of threads and templates:    *)
(* one node for each context that a recorded start was of or was made in,  *)
(* in the color of its own start, and one edge to each such start from the *)
(* task it was made in; starts in SINGLE mode (template_task.c:32-37) and  *)
(* those of a thread without a vertex (template_task_graph.c:149-154) are  *)
(* not recorded (template_task_graph.c:51-109, 145-194, 300-351).          *)
(***************************************************************************)
THEOREM SavedGraphIsRun == TaskGraphSpec => []GraphIsRun
<1>1. TaskGraphSpec => []GraphInv
  BY GraphInvInit, GraphInvNext, PTL DEF TaskGraphSpec
<1>2. GraphInv => GraphIsRun
  <2> SUFFICES ASSUME GraphInv, saved # NULL PROVE GraphIsRun
    BY DEF GraphIsRun
  <2>1. Len(saved.edges) = met.edges => Picture
    BY WrittenIsPicture
  <2>2. run = "task" => met.contexts = contexts /\ Len(saved.edges) = met.edges
    <3> SUFFICES ASSUME run = "task"
                 PROVE  met.contexts = contexts /\ Len(saved.edges) = met.edges
      OBVIOUS
    <3>1. met.contexts = contexts /\ met.edges = Len(edges) /\ Len(edges) \in Nat
      BY DEF GraphInv, GraphTyped, Nodes_, Stored
    <3>2. PICK n \in met.edges..Len(edges) : Len(saved.edges) = n
      BY DEF GraphInv, Stored
    <3> QED
      BY <3>1, <3>2
  <2> QED
    BY <2>1, <2>2 DEF GraphIsRun
<1> QED
  BY <1>1, <1>2, PTL

-----------------------------------------------------------------------------
(* Documents                                                               *)

(* What is found behind a node lies in every set that is closed under      *)
(* next.                                                                   *)
LEMMA SiblingsWithin ==
  ASSUME Len(node) \in Nat, NEW X \in SUBSET (1..Len(node)),
         \A m \in X : node[m].next \in X \cup {Nothing},
         NEW n \in X \cup {Nothing}
  PROVE  Siblings(n) \in Seq(X) /\ (n # Nothing => Siblings(n) # <<>>)
<1> USE DEF Nothing
<1> DEFINE N == Len(node)
           Level(f, k) == [m \in 0..N |-> IF k = 0 \/ m = Nothing THEN <<>>
                                          ELSE <<m>> \o f[k - 1][node[m].next]]
           Is(f, j) == f = [k \in 0..j |-> Level(f, k)]
           from == CHOOSE f : Is(f, N)
           A == {j \in Nat : \E f : Is(f, j)}
<1>1. 0 \in A
  <2>1. Is([k \in 0..0 |-> [m \in 0..N |-> <<>>]], 0)
    OBVIOUS
  <2> QED
    BY <2>1
<1>2. ASSUME NEW f, NEW g, NEW k \in Nat, k = 0 \/ g[k - 1] = f[k - 1]
      PROVE  Level(f, k) = Level(g, k)
  BY <1>2
<1>3. ASSUME NEW j \in Nat, NEW f, Is(f, j) PROVE \E g : Is(g, j + 1)
  <2> HIDE DEF Level
  <2> DEFINE g == [k \in 0..(j + 1) |-> IF k <= j THEN f[k] ELSE Level(f, j + 1)]
  <2>1. \A k \in 0..j : g[k] = f[k] /\ f[k] = Level(f, k)
    BY <1>3
  <2>2. g[j + 1] = Level(f, j + 1)
    OBVIOUS
  <2>3. g = [k \in 0..(j + 1) |-> g[k]]
    OBVIOUS
  <2> HIDE DEF g
  <2>4. ASSUME NEW k \in 0..(j + 1) PROVE g[k] = Level(g, k)
    <3>1. g[k] = Level(f, k)
      BY <2>1, <2>2
    <3>2. k = 0 \/ g[k - 1] = f[k - 1]
      BY <2>1
    <3>3. Level(f, k) = Level(g, k)
      BY <1>2, <3>2
    <3> QED
      BY <3>1, <3>3
  <2>5. Is(g, j + 1)
    BY <2>3, <2>4
  <2> QED
    BY <2>5
<1>4. \A j \in Nat : j \in A
  <2> HIDE DEF Is
  <2>1. \A j \in Nat : j \in A => j + 1 \in A
    BY <1>3
  <2> HIDE DEF A
  <2> QED
    BY <1>1, <2>1, AllNumbers
<1>5. Is(from, N)
  <2>1. \E f : Is(f, N)
    BY <1>4
  <2> HIDE DEF Is
  <2> QED
    BY <2>1
<1>6. Siblings(n) = from[N][n]
  BY DEF Siblings
<1> HIDE DEF from
<1>7. \A k \in 0..N : from[k] = Level(from, k)
  <2> HIDE DEF Level
  <2> QED
    BY <1>5
<1>8. ASSUME NEW k \in 0..N, NEW m \in 0..N
      PROVE  from[k][m] = IF k = 0 \/ m = 0 THEN <<>> ELSE <<m>> \o from[k - 1][node[m].next]
  <2>1. from[k] = Level(from, k)
    BY <1>7, <1>8
  <2>2. Level(from, k)[m] = IF k = 0 \/ m = 0 THEN <<>> ELSE <<m>> \o from[k - 1][node[m].next]
    BY <1>8
  <2> QED
    BY <2>1, <2>2
<1>9. ASSUME NEW k \in 0..N, NEW m \in 0..N, k = 0 \/ m = 0
       PROVE  from[k][m] = <<>>
  <2>1. from[k] = Level(from, k)
    BY <1>7
  <2>2. Level(from, k)[m] = <<>>
    BY <1>9
  <2> QED
    BY <2>1, <2>2
<1>10. 0 \in 0..N /\ X \subseteq 0..N
  OBVIOUS
<1> HIDE DEF Level, Is, A
<1> DEFINE B == {k \in Nat : k \in 0..N => \A m \in X : from[k][m] \in Seq(X)}
<1>11. ASSUME NEW k \in 0..N, k + 1 \in 0..N, k \in B, NEW m \in X
      PROVE  from[k + 1][m] = <<m>> \o from[k][node[m].next] /\ from[k][node[m].next] \in Seq(X)
  <2>1. from[k + 1][m] = <<m>> \o from[k][node[m].next]
    <3>1. m \in 0..N /\ m # 0 /\ k + 1 # 0 /\ (k + 1) - 1 = k
      OBVIOUS
    <3>2. from[k + 1][m] = IF k + 1 = 0 \/ m = 0 THEN <<>>
                           ELSE <<m>> \o from[(k + 1) - 1][node[m].next]
      BY <1>8, <1>11, <3>1
    <3> QED
      BY <3>1, <3>2
  <2>2. CASE node[m].next = 0
    <3>1. from[k][0] = <<>>
      BY <1>9, <1>10
    <3> QED
      BY <2>1, <2>2, <3>1
  <2>3. CASE node[m].next \in X
    BY <1>11, <2>1, <2>3
  <2> QED
    BY <2>1, <2>2, <2>3
<1>12. 0 \in B
  <2>1. ASSUME NEW m \in X PROVE from[0][m] \in Seq(X)
    <3>1. from[0][m] = <<>>
      BY <1>9, <1>10
    <3> QED
      BY <3>1
  <2> QED
    BY <2>1
<1>13. \A k \in Nat : k \in B => k + 1 \in B
  <2>1. ASSUME NEW k \in Nat, k \in B, k + 1 \in 0..N, NEW m \in X
        PROVE  from[k + 1][m] \in Seq(X)
    <3>1. k \in 0..N
      BY <2>1
    <3>2. from[k + 1][m] = <<m>> \o from[k][node[m].next] /\ from[k][node[m].next] \in Seq(X)
      BY <1>11, <2>1, <3>1
    <3> HIDE DEF B
    <3> QED
      BY <3>2
  <2>2. ASSUME NEW k \in Nat, k \in B PROVE k + 1 \in B
    BY <2>1, <2>2
  <2> QED
    BY <2>2
<1>14. \A k \in Nat : k \in B
  <2> HIDE DEF B
  <2> QED
    BY <1>12, <1>13, AllNumbers
<1>15. CASE n = 0
  <2>1. from[N][0] = <<>>
    BY <1>9, <1>10
  <2> QED
    BY <1>6, <1>15, <2>1
<1>16. CASE n # 0
  <2>1. n \in X /\ N - 1 \in 0..N /\ (N - 1) + 1 \in 0..N /\ N - 1 \in Nat /\ (N - 1) + 1 = N
    BY <1>16
  <2>2. /\ from[(N - 1) + 1][n] = <<n>> \o from[N - 1][node[n].next]
        /\ from[N - 1][node[n].next] \in Seq(X)
    <3> HIDE DEF B
    <3> QED
      BY <1>11, <1>14, <2>1
  <2>3. from[N][n] = <<n>> \o from[N - 1][node[n].next]
    BY <2>1, <2>2
  <2> QED
    BY <1>6, <2>1, <2>2, <2>3
<1> QED
  BY <1>15, <1>16

(* What is found below and behind a node lies in every set that is closed  *)
(* under next and children.                                                *)
LEMMA DescendantsWithin ==
  ASSUME Len(node) \in Nat, NEW X \in SUBSET (1..Len(node)),
         \A m \in X : /\ node[m].next \in X \cup {Nothing}
                     /\ node[m].children \in X \cup {Nothing},
         NEW n \in X
  PROVE  Descendants(n) \subseteq X
<1> USE DEF Nothing
<1> DEFINE N == Len(node)
           Level(f, k) == [m \in 0..N |-> IF k = 0 \/ m = Nothing THEN {}
                               ELSE {m} \cup f[k - 1][node[m].children]
                                        \cup f[k - 1][node[m].next]]
           Is(f, j) == f = [k \in 0..j |-> Level(f, k)]
           from == CHOOSE f : Is(f, N)
           A == {j \in Nat : \E f : Is(f, j)}
<1>1. 0 \in A
  <2>1. Is([k \in 0..0 |-> [m \in 0..N |-> {}]], 0)
    OBVIOUS
  <2> QED
    BY <2>1
<1>2. ASSUME NEW f, NEW g, NEW k \in Nat, k = 0 \/ g[k - 1] = f[k - 1]
      PROVE  Level(f, k) = Level(g, k)
  BY <1>2
<1>3. ASSUME NEW j \in Nat, NEW f, Is(f, j) PROVE \E g : Is(g, j + 1)
  <2> HIDE DEF Level
  <2> DEFINE g == [k \in 0..(j + 1) |-> IF k <= j THEN f[k] ELSE Level(f, j + 1)]
  <2>1. \A k \in 0..j : g[k] = f[k] /\ f[k] = Level(f, k)
    BY <1>3
  <2>2. g[j + 1] = Level(f, j + 1)
    OBVIOUS
  <2>3. g = [k \in 0..(j + 1) |-> g[k]]
    OBVIOUS
  <2> HIDE DEF g
  <2>4. ASSUME NEW k \in 0..(j + 1) PROVE g[k] = Level(g, k)
    <3>1. g[k] = Level(f, k)
      BY <2>1, <2>2
    <3>2. k = 0 \/ g[k - 1] = f[k - 1]
      BY <2>1
    <3>3. Level(f, k) = Level(g, k)
      BY <1>2, <3>2
    <3> QED
      BY <3>1, <3>3
  <2>5. Is(g, j + 1)
    BY <2>3, <2>4
  <2> QED
    BY <2>5
<1>4. \A j \in Nat : j \in A
  <2> HIDE DEF Is
  <2>1. \A j \in Nat : j \in A => j + 1 \in A
    BY <1>3
  <2> HIDE DEF A
  <2> QED
    BY <1>1, <2>1, AllNumbers
<1>5. Is(from, N)
  <2>1. \E f : Is(f, N)
    BY <1>4
  <2> HIDE DEF Is
  <2> QED
    BY <2>1
<1>6. Descendants(n) = from[N][n]
  BY DEF Descendants
<1> HIDE DEF from
<1>7. \A k \in 0..N : from[k] = Level(from, k)
  <2> HIDE DEF Level
  <2> QED
    BY <1>5
<1>8. ASSUME NEW k \in 1..N, NEW m \in 1..N
      PROVE  from[k][m] = {m} \cup from[k - 1][node[m].children] \cup from[k - 1][node[m].next]
  <2>1. from[k] = Level(from, k)
    <3>1. k \in 0..N
      OBVIOUS
    <3> HIDE DEF Level
    <3> QED
      BY <1>7, <3>1
  <2>2. k # 0 /\ m # 0 /\ m \in 0..N
    OBVIOUS
  <2>3. Level(from, k)[m] = {m} \cup from[k - 1][node[m].children] \cup from[k - 1][node[m].next]
    BY <2>2
  <2> QED
    BY <2>1, <2>3
<1>9. ASSUME NEW k \in 0..N, NEW m \in 0..N, k = 0 \/ m = 0
       PROVE  from[k][m] = {}
  <2>1. from[k] = Level(from, k)
    BY <1>7
  <2>2. Level(from, k)[m] = {}
    BY <1>9
  <2> QED
    BY <2>1, <2>2
<1>10. 0 \in 0..N /\ X \subseteq 0..N
  OBVIOUS
<1> HIDE DEF Level, Is, A
<1> DEFINE B == {k \in Nat : k \in 0..N => \A m \in X \cup {0} : from[k][m] \subseteq X}
<1>11. 0 \in B
  BY <1>9, <1>10
<1>12. ASSUME NEW k \in Nat, k \in B, k + 1 \in 0..N, NEW m \in X \cup {0}
       PROVE  from[k + 1][m] \subseteq X
  <2>1. CASE m = 0
    BY <1>9, <1>10, <1>12, <2>1
  <2>2. CASE m \in X
    <3>1. k \in 0..N /\ m \in 1..N /\ k + 1 \in 1..N /\ (k + 1) - 1 = k
      BY <1>12, <2>2
    <3>2. from[k + 1][m] = {m} \cup from[(k + 1) - 1][node[m].children]
                               \cup from[(k + 1) - 1][node[m].next]
      BY <1>8, <3>1
    <3>3. from[k][node[m].children] \subseteq X /\ from[k][node[m].next] \subseteq X
      BY <1>12, <2>2, <3>1
    <3> QED
      BY <2>2, <3>1, <3>2, <3>3
  <2> QED
    BY <1>12, <2>1, <2>2
<1>13. \A k \in Nat : k \in B => k + 1 \in B
  BY <1>12
<1>14. \A k \in Nat : k \in B
  <2> HIDE DEF B
  <2> QED
    BY <1>11, <1>13, AllNumbers
<1>15. N \in 0..N
  OBVIOUS
<1> QED
  BY <1>6, <1>14, <1>15

-----------------------------------------------------------------------------
Fields == {"type", "name", "content", "noescape", "position",
           "parent", "prev", "next", "children", "attributes"}

IsHeap(h) == /\ \E S : h \in Seq(S)
             /\ \A m \in 1..Len(h) : DOMAIN h[m] = Fields

(* Two nodes that are linked in the same way.                              *)
SameLinks(a, b) == /\ a.type = b.type /\ a.parent = b.parent /\ a.prev = b.prev
                   /\ a.next = b.next /\ a.children = b.children

(* A heap with one more node.                                              *)
Appended(g, h, r) == /\ IsHeap(g) /\ Len(h) \in Nat /\ Len(g) = Len(h) + 1
                     /\ \A m \in 1..Len(h) : g[m] = h[m]
                     /\ g[Len(h) + 1] = r

LEMMA HeapAppend ==
  ASSUME NEW h, IsHeap(h), NEW r, DOMAIN r = Fields, NEW g, g = Append(h, r)
  PROVE  Appended(g, h, r)
<1>1. PICK S : h \in Seq(S)
  BY DEF IsHeap
<1>2. h \in Seq(S \cup {r}) /\ r \in S \cup {r}
  BY <1>1
<1>3. g \in Seq(S \cup {r})
  BY <1>2
<1>4. /\ Len(h) \in Nat /\ Len(g) = Len(h) + 1
      /\ \A m \in 1..Len(h) : g[m] = h[m]
      /\ g[Len(h) + 1] = r
  BY <1>2
<1>5. \A m \in 1..Len(g) : DOMAIN g[m] = Fields
  BY <1>4 DEF IsHeap
<1> QED
  BY <1>3, <1>4, <1>5 DEF IsHeap, Appended

(* A heap with one node replaced.                                          *)
LEMMA HeapPut ==
  ASSUME NEW h, IsHeap(h), NEW a \in 1..Len(h), NEW r, DOMAIN r = Fields
  PROVE  LET g == [h EXCEPT ![a] = r]
         IN  /\ IsHeap(g) /\ Len(g) = Len(h)
             /\ \A m \in 1..Len(h) : g[m] = IF m = a THEN r ELSE h[m]
<1> DEFINE g == [h EXCEPT ![a] = r]
<1>1. PICK S : h \in Seq(S)
  BY DEF IsHeap
<1>2. h \in Seq(S \cup {r}) /\ r \in S \cup {r}
  BY <1>1
<1>3. g \in Seq(S \cup {r}) /\ Len(g) = Len(h)
  BY <1>2
<1>4. \A m \in 1..Len(h) : g[m] = IF m = a THEN r ELSE h[m]
  BY <1>2
<1>5. \A m \in 1..Len(g) : DOMAIN g[m] = Fields
  BY <1>3, <1>4 DEF IsHeap
<1> HIDE DEF g
<1>6. IsHeap(g)
  BY <1>3, <1>5 DEF IsHeap
<1> QED
  BY <1>3, <1>4, <1>6 DEF g

(* What it is to set one link of one node.                                 *)
ParentSet(g, h, a, v) ==
    /\ IsHeap(g) /\ Len(g) = Len(h)
    /\ \A m \in 1..Len(h) :
         /\ g[m].type = h[m].type
         /\ g[m].parent = IF m = a THEN v ELSE h[m].parent
         /\ g[m].prev = h[m].prev
         /\ g[m].next = h[m].next
         /\ g[m].children = h[m].children

PrevSet(g, h, a, v) ==
    /\ IsHeap(g) /\ Len(g) = Len(h)
    /\ \A m \in 1..Len(h) :
         /\ g[m].type = h[m].type
         /\ g[m].parent = h[m].parent
         /\ g[m].prev = IF m = a THEN v ELSE h[m].prev
         /\ g[m].next = h[m].next
         /\ g[m].children = h[m].children

NextSet(g, h, a, v) ==
    /\ IsHeap(g) /\ Len(g) = Len(h)
    /\ \A m \in 1..Len(h) :
         /\ g[m].type = h[m].type
         /\ g[m].parent = h[m].parent
         /\ g[m].prev = h[m].prev
         /\ g[m].next = IF m = a THEN v ELSE h[m].next
         /\ g[m].children = h[m].children

ChildrenSet(g, h, a, v) ==
    /\ IsHeap(g) /\ Len(g) = Len(h)
    /\ \A m \in 1..Len(h) :
         /\ g[m].type = h[m].type
         /\ g[m].parent = h[m].parent
         /\ g[m].prev = h[m].prev
         /\ g[m].next = h[m].next
         /\ g[m].children = IF m = a THEN v ELSE h[m].children

(* The links of two heaps are the same.                                    *)
LinksSame(g, h) == /\ IsHeap(g) /\ Len(g) = Len(h)
                   /\ \A m \in 1..Len(h) : SameLinks(g[m], h[m])

(* A heap with one field of one node set: the lemma for each of them.      *)
LEMMA HeapNext ==
  ASSUME NEW h, IsHeap(h), NEW a \in 1..Len(h), NEW v, NEW g, g = [h EXCEPT ![a].next = v]
  PROVE  NextSet(g, h, a, v)
<1> DEFINE r == [h[a] EXCEPT !.next = v]
<1>1. /\ DOMAIN r = Fields /\ r.type = h[a].type /\ r.parent = h[a].parent
      /\ r.prev = h[a].prev /\ r.next = v /\ r.children = h[a].children
  BY DEF IsHeap, Fields
<1>2. g = [h EXCEPT ![a] = r]
  OBVIOUS
<1> HIDE DEF r
<1>3. IsHeap(h) /\ DOMAIN r = Fields
  BY <1>1
<1>4. LET q == [h EXCEPT ![a] = r]
      IN  /\ IsHeap(q) /\ Len(q) = Len(h)
          /\ \A m \in 1..Len(h) : q[m] = IF m = a THEN r ELSE h[m]
  BY ONLY <1>3, HeapPut
<1>5. /\ IsHeap(g) /\ Len(g) = Len(h)
      /\ \A m \in 1..Len(h) : g[m] = IF m = a THEN r ELSE h[m]
  BY ONLY <1>2, <1>4
<1> QED
  BY <1>1, <1>5 DEF NextSet

LEMMA HeapParent ==
  ASSUME NEW h, IsHeap(h), NEW a \in 1..Len(h), NEW v, NEW g, g = [h EXCEPT ![a].parent = v]
  PROVE  ParentSet(g, h, a, v)
<1> DEFINE r == [h[a] EXCEPT !.parent = v]
<1>1. /\ DOMAIN r = Fields /\ r.type = h[a].type /\ r.parent = v
      /\ r.prev = h[a].prev /\ r.next = h[a].next /\ r.children = h[a].children
  BY DEF IsHeap, Fields
<1>2. g = [h EXCEPT ![a] = r]
  OBVIOUS
<1> HIDE DEF r
<1>3. IsHeap(h) /\ DOMAIN r = Fields
  BY <1>1
<1>4. LET q == [h EXCEPT ![a] = r]
      IN  /\ IsHeap(q) /\ Len(q) = Len(h)
          /\ \A m \in 1..Len(h) : q[m] = IF m = a THEN r ELSE h[m]
  BY ONLY <1>3, HeapPut
<1>5. /\ IsHeap(g) /\ Len(g) = Len(h)
      /\ \A m \in 1..Len(h) : g[m] = IF m = a THEN r ELSE h[m]
  BY ONLY <1>2, <1>4
<1> QED
  BY <1>1, <1>5 DEF ParentSet

LEMMA HeapPrev ==
  ASSUME NEW h, IsHeap(h), NEW a \in 1..Len(h), NEW v, NEW g, g = [h EXCEPT ![a].prev = v]
  PROVE  PrevSet(g, h, a, v)
<1> DEFINE r == [h[a] EXCEPT !.prev = v]
<1>1. /\ DOMAIN r = Fields /\ r.type = h[a].type /\ r.parent = h[a].parent
      /\ r.prev = v /\ r.next = h[a].next /\ r.children = h[a].children
  BY DEF IsHeap, Fields
<1>2. g = [h EXCEPT ![a] = r]
  OBVIOUS
<1> HIDE DEF r
<1>3. IsHeap(h) /\ DOMAIN r = Fields
  BY <1>1
<1>4. LET q == [h EXCEPT ![a] = r]
      IN  /\ IsHeap(q) /\ Len(q) = Len(h)
          /\ \A m \in 1..Len(h) : q[m] = IF m = a THEN r ELSE h[m]
  BY ONLY <1>3, HeapPut
<1>5. /\ IsHeap(g) /\ Len(g) = Len(h)
      /\ \A m \in 1..Len(h) : g[m] = IF m = a THEN r ELSE h[m]
  BY ONLY <1>2, <1>4
<1> QED
  BY <1>1, <1>5 DEF PrevSet

LEMMA HeapChildren ==
  ASSUME NEW h, IsHeap(h), NEW a \in 1..Len(h), NEW v, NEW g, g = [h EXCEPT ![a].children = v]
  PROVE  ChildrenSet(g, h, a, v)
<1> DEFINE r == [h[a] EXCEPT !.children = v]
<1>1. /\ DOMAIN r = Fields /\ r.type = h[a].type /\ r.parent = h[a].parent
      /\ r.prev = h[a].prev /\ r.next = h[a].next /\ r.children = v
  BY DEF IsHeap, Fields
<1>2. g = [h EXCEPT ![a] = r]
  OBVIOUS
<1> HIDE DEF r
<1>3. IsHeap(h) /\ DOMAIN r = Fields
  BY <1>1
<1>4. LET q == [h EXCEPT ![a] = r]
      IN  /\ IsHeap(q) /\ Len(q) = Len(h)
          /\ \A m \in 1..Len(h) : q[m] = IF m = a THEN r ELSE h[m]
  BY ONLY <1>3, HeapPut
<1>5. /\ IsHeap(g) /\ Len(g) = Len(h)
      /\ \A m \in 1..Len(h) : g[m] = IF m = a THEN r ELSE h[m]
  BY ONLY <1>2, <1>4
<1> QED
  BY <1>1, <1>5 DEF ChildrenSet

LEMMA HeapAttributes ==
  ASSUME NEW h, IsHeap(h), NEW a \in 1..Len(h), NEW v, NEW g, g = [h EXCEPT ![a].attributes = v]
  PROVE  LinksSame(g, h)
<1> DEFINE r == [h[a] EXCEPT !.attributes = v]
<1>1. DOMAIN r = Fields /\ SameLinks(r, h[a])
  BY DEF IsHeap, Fields, SameLinks
<1>2. g = [h EXCEPT ![a] = r]
  OBVIOUS
<1> HIDE DEF r
<1>3. IsHeap(h) /\ DOMAIN r = Fields
  BY <1>1
<1>4. LET q == [h EXCEPT ![a] = r]
      IN  /\ IsHeap(q) /\ Len(q) = Len(h)
          /\ \A m \in 1..Len(h) : q[m] = IF m = a THEN r ELSE h[m]
  BY ONLY <1>3, HeapPut
<1>5. /\ IsHeap(g) /\ Len(g) = Len(h)
      /\ \A m \in 1..Len(h) : g[m] = IF m = a THEN r ELSE h[m]
  BY ONLY <1>2, <1>4
<1> QED
  BY <1>1, <1>5 DEF SameLinks, LinksSame

LEMMA HeapContent ==
  ASSUME NEW h, IsHeap(h), NEW a \in 1..Len(h), NEW v, NEW g, g = [h EXCEPT ![a].content = v]
  PROVE  LinksSame(g, h)
<1> DEFINE r == [h[a] EXCEPT !.content = v]
<1>1. DOMAIN r = Fields /\ SameLinks(r, h[a])
  BY DEF IsHeap, Fields, SameLinks
<1>2. g = [h EXCEPT ![a] = r]
  OBVIOUS
<1> HIDE DEF r
<1>3. IsHeap(h) /\ DOMAIN r = Fields
  BY <1>1
<1>4. LET q == [h EXCEPT ![a] = r]
      IN  /\ IsHeap(q) /\ Len(q) = Len(h)
          /\ \A m \in 1..Len(h) : q[m] = IF m = a THEN r ELSE h[m]
  BY ONLY <1>3, HeapPut
<1>5. /\ IsHeap(g) /\ Len(g) = Len(h)
      /\ \A m \in 1..Len(h) : g[m] = IF m = a THEN r ELSE h[m]
  BY ONLY <1>2, <1>4
<1> QED
  BY <1>1, <1>5 DEF SameLinks, LinksSame

(* What xml_add_child changes.                                             *)
ChildAdded(g, h, P, c, last) ==
    /\ IsHeap(g) /\ Len(g) = Len(h)
    /\ \A m \in 1..Len(h) :
         /\ g[m].type = h[m].type
         /\ g[m].parent = IF m = c THEN P ELSE h[m].parent
         /\ g[m].prev = IF m = c /\ h[P].children # Nothing THEN last ELSE h[m].prev
         /\ g[m].next = IF m = last /\ h[P].children # Nothing THEN c ELSE h[m].next
         /\ g[m].children = IF m = P /\ h[P].children = Nothing THEN c ELSE h[m].children

(* A child goes behind the last one.                                        *)
LEMMA AddChildLinks ==
  ASSUME NEW h, IsHeap(h), NEW P \in 1..Len(h), NEW c \in 1..Len(h),
         NEW last, last = Last(Siblings(h[P].children)),
         h[P].children # Nothing => last \in 1..Len(h),
         NEW g, g = xml_add_child(h, P, c)
  PROVE  ChildAdded(g, h, P, c, last)
<1>1. PICK l : l = [h EXCEPT ![c].parent = P]
  OBVIOUS
<1>2. ParentSet(l, h, c, P)
  BY <1>1, HeapParent, Zenon
<1>3. /\ IsHeap(l) /\ P \in 1..Len(l) /\ c \in 1..Len(l)
      /\ h[P].children # Nothing => last \in 1..Len(l)
  BY <1>2 DEF ParentSet
<1>4. CASE h[P].children = Nothing
  <2>1. g = [l EXCEPT ![P].children = c]
    BY <1>1, <1>4 DEF xml_add_child
  <2>2. ChildrenSet(g, l, P, c)
    BY <1>3, <2>1, HeapChildren, Zenon
  <2> QED
    BY <1>2, <1>4, <2>2 DEF ParentSet, ChildrenSet, ChildAdded
<1>5. CASE h[P].children # Nothing
  <2>1. PICK k : k = [l EXCEPT ![c].prev = last]
    OBVIOUS
  <2>2. g = [k EXCEPT ![last].next = c]
    BY <1>1, <1>5, <2>1 DEF xml_add_child
  <2>3. PrevSet(k, l, c, last)
    BY <1>3, <2>1, HeapPrev, Zenon
  <2>4. IsHeap(k) /\ last \in 1..Len(k)
    BY <1>3, <1>5, <2>3 DEF PrevSet
  <2>5. NextSet(g, k, last, c)
    BY <2>2, <2>4, HeapNext, Zenon
  <2> QED
    BY <1>2, <1>5, <2>3, <2>5 DEF ParentSet, PrevSet, NextSet, ChildAdded
<1> QED
  BY <1>4, <1>5

-----------------------------------------------------------------------------
Real(h, m) == h[m].type # "ATTRIBUTE"

(* The links of a node that is no attribute lead to nodes that came later. *)
Forwards(h) ==
    /\ IsHeap(h) /\ Len(h) \in Nat /\ TheDocument \in 1..Len(h)
    /\ \A m \in 1..Len(h) : Real(h, m) =>
         /\ h[m].next # Nothing => h[m].next \in (m + 1)..Len(h) /\ Real(h, h[m].next)
         /\ h[m].children # Nothing => h[m].children \in (m + 1)..Len(h) /\ Real(h, h[m].children)

(* Nothing below an address links to what is at it or above.               *)
Separate(h, root) ==
    \A m \in 1..(root - 1) : Real(h, m) => h[m].next < root /\ h[m].children < root

(* What was parsed, from the address of its root on: one family.           *)
Own(h, root) ==
    \A m \in root..Len(h) : Real(h, m) =>
      /\ h[m].parent # Nothing => h[m].parent \in root..(m - 1) /\ Real(h, h[m].parent)
      /\ h[m].next # Nothing => /\ h[h[m].next].prev = m
                                /\ h[m].parent # Nothing => h[h[m].next].parent = h[m].parent
      /\ h[m].children # Nothing => /\ h[h[m].children].prev = Nothing
                                    /\ h[h[m].children].parent = m

(* The document under construction: a set of nodes that no link leaves, of *)
(* which each is in the list of one node, its holder.                      *)
Held(h, D, holder, root) ==
    /\ D \subseteq 1..(root - 1) /\ TheDocument \in D
    /\ \A n \in D :
         /\ Real(h, n)
         /\ h[n].next # Nothing => /\ h[n].next \in D
                                   /\ h[h[n].next].prev = n
                                   /\ holder[h[n].next] = holder[n]
         /\ h[n].children # Nothing => /\ h[n].children \in D
                                       /\ h[h[n].children].prev = Nothing
                                       /\ holder[h[n].children] = n
         /\ h[n].parent \in 0..(root - 1)
         /\ h[n].parent = holder[n] \/ h[n].parent \notin D

(* D, holder: the document; root: where the last parse begins.             *)
Family(h, D, holder, root) ==
    /\ root \in 1..(Len(h) + 1)
    /\ Forwards(h) /\ Separate(h, root) /\ Own(h, root) /\ Held(h, D, holder, root)

OwnNode(h, root, m) == m \in root..Len(h) /\ Real(h, m)

\* where previous has no meaning: it is set when the tag ends
Inside == {"INSIDE_TAG", "ATTR_VALUE", "UNDEFINED"}

ParserFields == {"use", "state", "p", "c", "ret", "current", "attr", "previous"}

(* What is open, and what was made or closed last, is in ret, or is ret    *)
(* itself, which nothing is around.                                        *)
In(h, m, ret) == h[m].parent = ret \/ (m = ret /\ h[m].parent = Nothing)

(* Where the parser is.                                                    *)
ParserAt(root) ==
    parser # NULL =>
      /\ DOMAIN parser = ParserFields
      /\ parser.use # Nothing => parser.use \in 1..(root - 1) /\ Real(node, parser.use)
      /\ parser.use = Nothing => written # NULL
      /\ parser.ret # Nothing => OwnNode(node, root, parser.ret)
      /\ parser.previous # Nothing => OwnNode(node, root, parser.previous)
      /\ parser.previous # Nothing /\ parser.state \notin Inside =>
           In(node, parser.previous, parser.ret)
      /\ parser.ret # Nothing \/ parser.previous # Nothing
      /\ parser.state \in {"INSIDE_TAG", "ATTR_VALUE"} =>
           /\ OwnNode(node, root, parser.current)
           /\ In(node, parser.current, parser.ret)
      /\ parser.state = "ATTR_VALUE" => parser.attr \in 1..Len(node)
      /\ parsed <= 0

(* What XMLParse returned, after which nothing is built any more.          *)
ParsedAt(root) ==
    /\ parsed \in Int
    /\ parsed > 0 => OwnNode(node, root, parsed) /\ written # NULL

DocumentsInv == \E D, holder, root : /\ Family(node, D, holder, root)
                                     /\ ParserAt(root) /\ ParsedAt(root)

(* From the invariant to the property: what is shown lies in the two sets. *)
LEMMA InvLinked == DocumentsInv => Linked
<1> SUFFICES ASSUME NEW D, NEW holder, NEW root, Family(node, D, holder, root), ParsedAt(root)
             PROVE Linked
  BY DEF DocumentsInv
<1> USE DEF Nothing, TheDocument
<1> DEFINE N == Len(node)
           T == {m \in parsed..N : Real(node, m)}
<1>1. N \in Nat /\ N = Len(node) /\ root \in 1..(N + 1) /\ parsed \in Int
  BY DEF Family, Forwards, ParsedAt
<1>2. /\ D \in SUBSET (1..Len(node)) /\ D \subseteq 1..(root - 1) /\ T \subseteq parsed..N
      /\ TheDocument \in D
  BY <1>1 DEF Family, Held
<1>3. \A m \in D : /\ node[m].next \in D \cup {Nothing}
                   /\ node[m].children \in D \cup {Nothing}
  BY DEF Family, Held
<1>4. Descendants(TheDocument) \subseteq D
  BY <1>1, <1>2, <1>3, DescendantsWithin
<1>5. ASSUME parsed > 0
      PROVE  /\ T \in SUBSET (1..Len(node)) /\ parsed \in T
             /\ \A m \in T : /\ m \in root..N /\ Real(node, m)
                             /\ node[m].next \in T \cup {Nothing}
                             /\ node[m].children \in T \cup {Nothing}
             /\ root <= parsed
  <2>1. parsed \in root..N /\ Real(node, parsed)
    BY <1>5 DEF ParsedAt, OwnNode
  <2>2. T \in SUBSET (1..Len(node))
    BY <1>1, <2>1
  <2>3. ASSUME NEW m \in T
        PROVE  /\ m \in root..N /\ Real(node, m)
               /\ node[m].next \in T \cup {Nothing}
               /\ node[m].children \in T \cup {Nothing}
    <3>1. m \in root..N /\ Real(node, m) /\ m \in 1..N
      BY <1>1, <2>1
    <3>2. /\ node[m].next # 0 => node[m].next \in (m + 1)..N /\ Real(node, node[m].next)
          /\ node[m].children # 0 => node[m].children \in (m + 1)..N /\ Real(node, node[m].children)
      BY <3>1 DEF Family, Forwards
    <3> QED
      BY <1>1, <2>1, <3>1, <3>2
  <2> QED
    BY <1>1, <2>1, <2>2, <2>3
<1>6. parsed > 0 => Descendants(parsed) \subseteq T
  <2> SUFFICES ASSUME parsed > 0 PROVE Descendants(parsed) \subseteq T
    OBVIOUS
  <2>1. T \in SUBSET (1..Len(node)) /\ parsed \in T
    BY <1>5
  <2>2. \A m \in T : node[m].next \in T \cup {Nothing} /\ node[m].children \in T \cup {Nothing}
    BY <1>5
  <2> HIDE DEF T
  <2> QED
    BY <1>1, <2>1, <2>2, DescendantsWithin
<1>7. ASSUME NEW n \in D
      PROVE  /\ node[n].children # Nothing => node[node[n].children].prev = Nothing
             /\ node[n].next # Nothing => node[node[n].next].prev = n
             /\ \A i \in DOMAIN Siblings(node[n].children) :
                   LET parent == node[Siblings(node[n].children)[i]].parent
                   IN  parent = n \/ parent \notin Shown
  <2> DEFINE X == {m \in D : holder[m] = n}
             S == Siblings(node[n].children)
  <2>1. node[n].children \in X \cup {Nothing}
    BY DEF Family, Held
  <2>2. \A m \in X : node[m].next \in X \cup {Nothing}
    BY DEF Family, Held
  <2>3. X \in SUBSET (1..Len(node))
    BY <1>2
  <2>4. S \in Seq(X)
    <3> HIDE DEF X
    <3> QED
      BY <1>1, <2>1, <2>2, <2>3, SiblingsWithin
  <2>5. ASSUME NEW m \in X PROVE node[m].parent = n \/ node[m].parent \notin Shown
    <3>1. node[m].parent = n \/ (node[m].parent \notin D /\ node[m].parent < root)
      BY DEF Family, Held
    <3>2. parsed > 0 => node[m].parent \notin Descendants(parsed) \/ ~(node[m].parent < root)
      BY <1>1, <1>5, <1>6
    <3> QED
      BY <1>4, <3>1, <3>2 DEF Shown
  <2>6. \A i \in DOMAIN S : S[i] \in X
    <3> HIDE DEF X, S
    <3> QED
      BY <2>4
  <2>7. /\ node[n].children # Nothing => node[node[n].children].prev = Nothing
        /\ node[n].next # Nothing => node[node[n].next].prev = n
    BY DEF Family, Held
  <2> HIDE DEF X
  <2> QED
    BY <2>5, <2>6, <2>7
<1>8. ASSUME NEW n \in T, parsed > 0
      PROVE  /\ node[n].children # Nothing => node[node[n].children].prev = Nothing
             /\ node[n].next # Nothing => node[node[n].next].prev = n
             /\ \A i \in DOMAIN Siblings(node[n].children) :
                   LET parent == node[Siblings(node[n].children)[i]].parent
                   IN  parent = n \/ parent \notin Shown
  <2> DEFINE X == {m \in T : node[m].parent = n}
             S == Siblings(node[n].children)
  <2>1. /\ n \in root..N /\ Real(node, n)
        /\ \A m \in T : /\ m \in root..N /\ Real(node, m)
                        /\ node[m].next \in T \cup {Nothing}
                        /\ node[m].children \in T \cup {Nothing}
        /\ T \in SUBSET (1..Len(node))
    BY <1>5, <1>8
  <2>2. node[n].children \in X \cup {Nothing}
    <3> HIDE DEF T
    <3> QED
      BY <2>1 DEF Family, Own
  <2>3. \A m \in X : node[m].next \in X \cup {Nothing}
    <3> HIDE DEF T
    <3> QED
      BY <2>1 DEF Family, Own
  <2>4. X \in SUBSET (1..Len(node))
    BY <2>1
  <2>5. S \in Seq(X)
    <3> HIDE DEF X
    <3> QED
      BY <1>1, <2>2, <2>3, <2>4, SiblingsWithin
  <2>6. \A i \in DOMAIN S : S[i] \in X
    <3> HIDE DEF X, S
    <3> QED
      BY <2>5
  <2>7. /\ node[n].children # Nothing => node[node[n].children].prev = Nothing
        /\ node[n].next # Nothing => node[node[n].next].prev = n
    <3> HIDE DEF T
    <3> QED
      BY <2>1 DEF Family, Own
  <2> QED
    BY <2>6, <2>7
<1>9. \A n \in Shown : n \in D \/ (parsed > 0 /\ n \in T)
  BY <1>4, <1>6 DEF Shown
<1> HIDE DEF T
<1> QED
  BY <1>7, <1>8, <1>9 DEF Linked

-----------------------------------------------------------------------------
(* The parser may begin behind all there is.                               *)
LEMMA FamilyFresh ==
  ASSUME NEW h, NEW D, NEW holder, NEW root, Family(h, D, holder, root)
  PROVE  Family(h, D, holder, Len(h) + 1)
<1> USE DEF Nothing
<1>1. Forwards(h) /\ Len(h) \in Nat /\ root \in 1..(Len(h) + 1) /\ Len(h) + 1 \in 1..(Len(h) + 1)
  BY DEF Family, Forwards
<1>2. Separate(h, Len(h) + 1)
  BY <1>1 DEF Forwards, Separate
<1>3. Own(h, Len(h) + 1)
  BY <1>1 DEF Own
<1>4. Held(h, D, holder, Len(h) + 1)
  <2>1. \A a \in 0..(root - 1) : a \in 0..((Len(h) + 1) - 1)
    BY <1>1
  <2>2. \A a \in 1..(root - 1) : a \in 1..((Len(h) + 1) - 1)
    BY <1>1
  <2> QED
    BY <2>1, <2>2 DEF Family, Held
<1> QED
  BY <1>1, <1>2, <1>3, <1>4 DEF Family

(* What changes no link, and adds attributes only, keeps it all.           *)
LEMMA FamilyKept ==
  ASSUME NEW h, NEW D, NEW holder, NEW root, Family(h, D, holder, root),
         NEW g, IsHeap(g), Len(g) \in Nat, Len(g) >= Len(h),
         \A m \in 1..Len(h) : SameLinks(g[m], h[m]),
         \A m \in (Len(h) + 1)..Len(g) : g[m].type = "ATTRIBUTE"
  PROVE  Family(g, D, holder, root)
<1> USE DEF Nothing
<1>1. Forwards(h) /\ Len(h) \in Nat /\ root \in 1..(Len(h) + 1) /\ Len(h) >= 1
  BY DEF Family, Forwards, TheDocument
<1>2. \A m \in 1..Len(h) : /\ Real(g, m) = Real(h, m) /\ g[m].parent = h[m].parent
                           /\ g[m].prev = h[m].prev /\ g[m].next = h[m].next
                           /\ g[m].children = h[m].children
  BY DEF SameLinks, Real
<1>3. \A m \in 1..Len(g) : Real(g, m) => m \in 1..Len(h)
  BY <1>1 DEF Real
<1>4. \A m \in 1..Len(h) : m \in 1..Len(g)
  BY <1>1
<1>5. \A m \in 1..Len(h) : Real(h, m) =>
         /\ h[m].next # 0 => h[m].next \in (m + 1)..Len(h) /\ h[m].next \in 1..Len(h) /\ Real(h, h[m].next)
         /\ h[m].children # 0 => h[m].children \in (m + 1)..Len(h) /\ h[m].children \in 1..Len(h)
                                 /\ Real(h, h[m].children)
  BY <1>1 DEF Forwards
<1>6. Forwards(g)
  <2>1. TheDocument \in 1..Len(g)
    BY <1>1 DEF TheDocument
  <2> QED
    <3>1. ASSUME NEW m \in 1..Len(g), Real(g, m)
          PROVE  /\ g[m].next # 0 => g[m].next \in (m + 1)..Len(g) /\ Real(g, g[m].next)
                 /\ g[m].children # 0 => g[m].children \in (m + 1)..Len(g) /\ Real(g, g[m].children)
      <4>1. m \in 1..Len(h) /\ Real(h, m) /\ g[m].next = h[m].next /\ g[m].children = h[m].children
        BY <1>2, <1>3, <3>1
      <4>2. h[m].next # 0 => h[m].next \in (m + 1)..Len(g) /\ Real(g, h[m].next)
        BY <1>1, <1>2, <1>5, <4>1
      <4>3. h[m].children # 0 => h[m].children \in (m + 1)..Len(g) /\ Real(g, h[m].children)
        BY <1>1, <1>2, <1>5, <4>1
      <4> QED
        BY <4>1, <4>2, <4>3
    <3> QED
      BY <2>1, <3>1 DEF Forwards
<1>7. Separate(g, root)
  <2>1. \A m \in 1..(root - 1) : m \in 1..Len(h)
    BY <1>1
  <2> QED
    BY <1>1, <1>2, <2>1 DEF Family, Separate
<1>8. Own(g, root)
  <2> SUFFICES ASSUME NEW m \in root..Len(g), Real(g, m)
               PROVE  /\ g[m].parent # 0 => g[m].parent \in root..(m - 1) /\ Real(g, g[m].parent)
                      /\ g[m].next # 0 =>
                           /\ g[g[m].next].prev = m
                           /\ g[m].parent # 0 => g[g[m].next].parent = g[m].parent
                      /\ g[m].children # 0 => /\ g[g[m].children].prev = 0
                                              /\ g[g[m].children].parent = m
    BY DEF Own
  <2>1. m \in root..Len(h) /\ m \in 1..Len(h) /\ Real(h, m)
    BY <1>1, <1>2, <1>3
  <2>2. /\ h[m].parent # 0 => h[m].parent \in root..(m - 1) /\ Real(h, h[m].parent)
        /\ h[m].next # 0 => /\ h[h[m].next].prev = m
                            /\ h[m].parent # 0 => h[h[m].next].parent = h[m].parent
        /\ h[m].children # 0 => /\ h[h[m].children].prev = 0
                                /\ h[h[m].children].parent = m
    BY <2>1 DEF Family, Own
  <2>3. h[m].parent # 0 => h[m].parent \in 1..Len(h)
    BY <1>1, <2>1, <2>2
  <2> QED
    BY <1>2, <1>5, <2>1, <2>2, <2>3
<1>9. Held(g, D, holder, root)
  <2>1. D \subseteq 1..(root - 1) /\ TheDocument \in D
    BY DEF Family, Held
  <2>2. \A n \in D : n \in 1..Len(h)
    BY <1>1, <2>1
  <2>3. \A n \in D :
         /\ Real(h, n)
         /\ h[n].next # 0 => /\ h[n].next \in D
                             /\ h[h[n].next].prev = n
                             /\ holder[h[n].next] = holder[n]
         /\ h[n].children # 0 => /\ h[n].children \in D
                                 /\ h[h[n].children].prev = 0
                                 /\ holder[h[n].children] = n
         /\ h[n].parent \in 0..(root - 1)
         /\ h[n].parent = holder[n] \/ h[n].parent \notin D
    BY DEF Family, Held
  <2>4. \A n \in D : /\ h[n].next # 0 => h[n].next \in D
                     /\ h[n].children # 0 => h[n].children \in D
    BY <2>3
  <2>5. \A n \in D : /\ Real(g, n) = Real(h, n) /\ g[n].parent = h[n].parent
                     /\ g[n].prev = h[n].prev /\ g[n].next = h[n].next
                     /\ g[n].children = h[n].children
    BY <1>2, <2>2
  <2>6. ASSUME NEW n \in D
        PROVE  /\ Real(g, n)
               /\ g[n].next # 0 => /\ g[n].next \in D
                                   /\ g[g[n].next].prev = n
                                   /\ holder[g[n].next] = holder[n]
               /\ g[n].children # 0 => /\ g[n].children \in D
                                       /\ g[g[n].children].prev = 0
                                       /\ holder[g[n].children] = n
               /\ g[n].parent \in 0..(root - 1)
               /\ g[n].parent = holder[n] \/ g[n].parent \notin D
    BY <2>3, <2>4, <2>5
  <2> QED
    BY <2>1, <2>6 DEF Held
<1>10. root \in 1..(Len(g) + 1)
  BY <1>1
<1> QED
  BY <1>6, <1>7, <1>8, <1>9, <1>10 DEF Family

(* A node without links, behind all there is, is a family of its own.      *)
LEMMA FamilyRoot ==
  ASSUME NEW h, NEW D, NEW holder, Family(h, D, holder, Len(h) + 1),
         NEW r, r.type # "ATTRIBUTE",
         r.parent = Nothing, r.next = Nothing, r.children = Nothing,
         NEW g, Appended(g, h, r)
  PROVE  Family(g, D, holder, Len(h) + 1)
<1> USE DEF Nothing
<1> DEFINE root == Len(h) + 1
<1>1. Forwards(h) /\ Len(h) \in Nat /\ root \in 1..(Len(h) + 1) /\ IsHeap(h)
  BY DEF Family, Forwards
<1>2. /\ IsHeap(g) /\ Len(g) = Len(h) + 1 /\ \A m \in 1..Len(h) : g[m] = h[m]
      /\ g[root] = r
  BY <1>1 DEF Appended
<1>3. \A m \in 1..Len(g) : m \in 1..Len(h) \/ m = root
  BY <1>1, <1>2
<1>4. Forwards(g)
  <2>1. ASSUME NEW m \in 1..Len(g), Real(g, m)
        PROVE  /\ g[m].next # 0 => g[m].next \in (m + 1)..Len(g) /\ Real(g, g[m].next)
               /\ g[m].children # 0 => g[m].children \in (m + 1)..Len(g) /\ Real(g, g[m].children)
    <3>1. CASE m = root
      BY <1>2, <3>1
    <3>2. CASE m \in 1..Len(h)
      <4>1. /\ h[m].next # 0 => h[m].next \in (m + 1)..Len(h) /\ Real(h, h[m].next)
            /\ h[m].children # 0 => h[m].children \in (m + 1)..Len(h) /\ Real(h, h[m].children)
        BY <1>1, <1>2, <2>1, <3>2 DEF Forwards, Real
      <4> QED
        BY <1>1, <1>2, <3>2, <4>1 DEF Real
    <3> QED
      BY <1>3, <3>1, <3>2
  <2>2. TheDocument \in 1..Len(g)
    BY <1>1, <1>2 DEF TheDocument
  <2> QED
    BY <1>1, <1>2, <2>1, <2>2 DEF Forwards
<1>5. Separate(g, root)
  BY <1>1, <1>2 DEF Family, Separate, Real
<1>6. Own(g, root)
  BY <1>1, <1>2 DEF Own
<1>7. Held(g, D, holder, root)
  <2>1. D \subseteq 1..Len(h)
    BY <1>1 DEF Family, Held
  <2>2. /\ TheDocument \in D
        /\ \A n \in D :
         /\ Real(h, n)
         /\ h[n].next # 0 => /\ h[n].next \in D
                             /\ h[h[n].next].prev = n
                             /\ holder[h[n].next] = holder[n]
         /\ h[n].children # 0 => /\ h[n].children \in D
                                 /\ h[h[n].children].prev = 0
                                 /\ holder[h[n].children] = n
         /\ h[n].parent \in 0..(root - 1)
         /\ h[n].parent = holder[n] \/ h[n].parent \notin D
    BY DEF Family, Held
  <2>3. D \subseteq 1..(root - 1)
    BY DEF Family, Held
  <2>4. \A n \in D : g[n] = h[n]
    BY <1>2, <2>1
  <2> QED
    BY <2>2, <2>3, <2>4 DEF Held, Real
<1>8. root \in 1..(Len(g) + 1)
  BY <1>1, <1>2
<1> QED
  BY <1>4, <1>5, <1>6, <1>7, <1>8 DEF Family

(* A node behind another of the family, or as a first child in it.         *)
LEMMA FamilyInserted ==
  ASSUME NEW h, NEW D, NEW holder, NEW root, Family(h, D, holder, root),
         NEW r, r.type # "ATTRIBUTE", r.next = Nothing, r.children = Nothing,
         NEW k, Appended(k, h, r),
         NEW a \in root..Len(h), Real(h, a), NEW g,
         r.parent # Nothing => r.parent \in root..Len(h) /\ Real(h, r.parent),
         \/ /\ NextSet(g, k, a, Len(h) + 1) /\ r.prev = a
            /\ h[a].parent # Nothing => r.parent = h[a].parent
         \/ ChildrenSet(g, k, a, Len(h) + 1) /\ r.prev = Nothing /\ r.parent = a
  PROVE  /\ Family(g, D, holder, root) /\ Len(g) = Len(h) + 1
         /\ \A m \in 1..Len(h) : g[m].type = h[m].type /\ g[m].parent = h[m].parent
         /\ g[Len(h) + 1].type = r.type /\ g[Len(h) + 1].parent = r.parent
<1> USE DEF Nothing
<1> DEFINE new == Len(h) + 1
<1>1. /\ Forwards(h) /\ Len(h) \in Nat /\ root \in 1..(Len(h) + 1) /\ Len(h) >= 1
      /\ a \in 1..Len(h) /\ a # new /\ new \in 1..Len(k)
  BY DEF Family, Forwards, TheDocument, Appended
<1>2. /\ IsHeap(g) /\ Len(g) = Len(h) + 1
      /\ \A m \in 1..Len(h) : /\ g[m].type = h[m].type /\ g[m].parent = h[m].parent
                              /\ g[m].prev = h[m].prev
                              /\ m # a => g[m].next = h[m].next /\ g[m].children = h[m].children
      /\ \/ g[a].next = h[a].next
         \/ g[a].next = new /\ r.prev = a /\ (h[a].parent # 0 => r.parent = h[a].parent)
      /\ g[a].children = h[a].children \/ (g[a].children = new /\ r.prev = 0 /\ r.parent = a)
      /\ g[new].type = r.type /\ g[new].parent = r.parent /\ g[new].prev = r.prev
      /\ g[new].next = 0 /\ g[new].children = 0
  BY <1>1 DEF Appended, NextSet, ChildrenSet
<1>3. \A m \in 1..Len(g) : m \in 1..Len(h) \/ m = new
  BY <1>1, <1>2
<1>4. Real(g, new) /\ \A m \in 1..Len(h) : Real(g, m) = Real(h, m)
  BY <1>2 DEF Real
<1>5. \A m \in 1..Len(h) : Real(h, m) =>
         /\ h[m].next # 0 => /\ h[m].next \in (m + 1)..Len(h) /\ h[m].next \in 1..Len(h)
                             /\ Real(h, h[m].next)
         /\ h[m].children # 0 => /\ h[m].children \in (m + 1)..Len(h) /\ h[m].children \in 1..Len(h)
                                 /\ Real(h, h[m].children)
  BY <1>1 DEF Forwards
<1>6. Forwards(g)
  <2>1. ASSUME NEW m \in 1..Len(g), Real(g, m)
        PROVE  /\ g[m].next # 0 => g[m].next \in (m + 1)..Len(g) /\ Real(g, g[m].next)
               /\ g[m].children # 0 => g[m].children \in (m + 1)..Len(g) /\ Real(g, g[m].children)
    <3>1. CASE m = new
      BY <1>2, <3>1
    <3>2. CASE m \in 1..Len(h)
      <4>1. g[m].next = h[m].next \/ g[m].next = new
        BY <1>2, <3>2
      <4>2. g[m].children = h[m].children \/ g[m].children = new
        BY <1>2, <3>2
      <4> QED
        BY <1>1, <1>2, <1>4, <1>5, <2>1, <3>2, <4>1, <4>2
    <3> QED
      BY <1>3, <3>1, <3>2
  <2>2. TheDocument \in 1..Len(g)
    BY <1>1, <1>2 DEF TheDocument
  <2> QED
    BY <1>1, <1>2, <2>1, <2>2 DEF Forwards
<1>7. Separate(g, root)
  <2>1. \A m \in 1..(root - 1) : m \in 1..Len(h) /\ m # a
    BY <1>1
  <2> QED
    BY <1>2, <1>4, <2>1 DEF Family, Separate
<1>8. \A m \in root..Len(h) : Real(h, m) =>
      /\ h[m].parent # 0 => /\ h[m].parent \in root..(m - 1) /\ h[m].parent \in 1..Len(h)
                            /\ Real(h, h[m].parent)
      /\ h[m].next # 0 => /\ h[h[m].next].prev = m
                          /\ h[m].parent # 0 => h[h[m].next].parent = h[m].parent
      /\ h[m].children # 0 => /\ h[h[m].children].prev = 0
                              /\ h[h[m].children].parent = m
  BY <1>1 DEF Family, Own
<1>9. Own(g, root)
  <2> SUFFICES ASSUME NEW m \in root..Len(g), Real(g, m)
               PROVE  /\ g[m].parent # 0 => g[m].parent \in root..(m - 1) /\ Real(g, g[m].parent)
                      /\ g[m].next # 0 =>
                           /\ g[g[m].next].prev = m
                           /\ g[m].parent # 0 => g[g[m].next].parent = g[m].parent
                      /\ g[m].children # 0 => /\ g[g[m].children].prev = 0
                                              /\ g[g[m].children].parent = m
    BY DEF Own
  <2>1. CASE m = new
    <3>1. r.parent # 0 => r.parent \in root..(new - 1) /\ r.parent \in 1..Len(h) /\ Real(h, r.parent)
      BY <1>1
    <3> QED
      BY <1>2, <1>4, <2>1, <3>1
  <2>2. CASE m \in 1..Len(h)
    <3>1. m \in root..Len(h) /\ Real(h, m)
      BY <1>1, <1>4, <2>2
    <3>2. g[m].parent # 0 => g[m].parent \in root..(m - 1) /\ Real(g, g[m].parent)
      BY <1>2, <1>4, <1>8, <2>2, <3>1
    <3>3. ASSUME g[m].next # 0, g[m].next = h[m].next
          PROVE  /\ g[g[m].next].prev = m
                 /\ g[m].parent # 0 => g[g[m].next].parent = g[m].parent
      BY <1>2, <1>5, <1>8, <2>2, <3>1, <3>3
    <3>4. ASSUME g[m].next # h[m].next
          PROVE  /\ g[g[m].next].prev = m
                 /\ g[m].parent # 0 => g[g[m].next].parent = g[m].parent
      BY <1>2, <2>2, <3>4
    <3>5. ASSUME g[m].children # 0, g[m].children = h[m].children
          PROVE  g[g[m].children].prev = 0 /\ g[g[m].children].parent = m
      BY <1>2, <1>5, <1>8, <2>2, <3>1, <3>5
    <3>6. ASSUME g[m].children # h[m].children
          PROVE  g[g[m].children].prev = 0 /\ g[g[m].children].parent = m
      BY <1>2, <2>2, <3>6
    <3> QED
      BY <3>2, <3>3, <3>4, <3>5, <3>6
  <2>3. m \in 1..Len(g)
    BY <1>1, <1>2
  <2> QED
    BY <1>3, <2>1, <2>2, <2>3
<1>10. Held(g, D, holder, root)
  <2>1. D \subseteq 1..(root - 1) /\ TheDocument \in D
    BY DEF Family, Held
  <2>2. \A n \in D :
         /\ Real(h, n)
         /\ h[n].next # 0 => /\ h[n].next \in D
                             /\ h[h[n].next].prev = n
                             /\ holder[h[n].next] = holder[n]
         /\ h[n].children # 0 => /\ h[n].children \in D
                                 /\ h[h[n].children].prev = 0
                                 /\ holder[h[n].children] = n
         /\ h[n].parent \in 0..(root - 1)
         /\ h[n].parent = holder[n] \/ h[n].parent \notin D
    BY DEF Family, Held
  <2>3. \A n \in D : n \in 1..Len(h) /\ n # a
    BY <1>1, <2>1
  <2>4. \A n \in D : /\ Real(g, n) = Real(h, n) /\ g[n].parent = h[n].parent
                     /\ g[n].prev = h[n].prev /\ g[n].next = h[n].next
                     /\ g[n].children = h[n].children
    BY <1>2, <1>4, <2>3
  <2> QED
    <3>1. ASSUME NEW n \in D
          PROVE  /\ Real(g, n)
                 /\ g[n].next # 0 => /\ g[n].next \in D
                                     /\ g[g[n].next].prev = n
                                     /\ holder[g[n].next] = holder[n]
                 /\ g[n].children # 0 => /\ g[n].children \in D
                                         /\ g[g[n].children].prev = 0
                                         /\ holder[g[n].children] = n
                 /\ g[n].parent \in 0..(root - 1)
                 /\ g[n].parent = holder[n] \/ g[n].parent \notin D
      BY <2>2, <2>4, <3>1
    <3> QED
      BY <2>1, <3>1 DEF Held
<1>11. root \in 1..(Len(g) + 1)
  BY <1>1, <1>2
<1> QED
  BY <1>2, <1>6, <1>7, <1>9, <1>10, <1>11 DEF Family

(* A list from the family goes into the element P.                         *)
LEMMA FamilyLinked ==
  ASSUME NEW h, NEW D, NEW holder, NEW root, Family(h, D, holder, root),
         NEW P \in 1..(root - 1), Real(h, P), NEW last,
         h[P].children # Nothing => /\ last \in 1..(root - 1) /\ Real(h, last)
                                   /\ (P \in D => last \in D /\ holder[last] = P),
         NEW c \in root..Len(h), Real(h, c), h[c].prev = Nothing,
         h[c].parent # Nothing \/ c = Len(h),
         NEW g, ChildAdded(g, h, P, c, last)
  PROVE  \E D2, holder2 : Family(g, D2, holder2, Len(g) + 1)
<1> USE DEF Nothing
<1> DEFINE K == {m \in c..Len(h) : Real(h, m) /\ (m = c \/ h[m].parent # 0)}
           ret == h[c].parent
           top == IF h[P].children = 0 THEN P ELSE holder[last]
           linked == (h[P].children = 0 /\ P \in D) \/ (h[P].children # 0 /\ last \in D)
<1>1. /\ Forwards(h) /\ Len(h) \in Nat /\ root \in 1..(Len(h) + 1) /\ Len(h) >= 1
      /\ IsHeap(g) /\ Len(g) = Len(h)
      /\ c \in 1..Len(h) /\ P \in 1..Len(h) /\ P < c
      /\ h[P].children # 0 => last \in 1..Len(h) /\ last < c
      /\ ret = 0 \/ ret \in root..(c - 1)
  <2>1. /\ Forwards(h) /\ Len(h) \in Nat /\ root \in 1..(Len(h) + 1) /\ Len(h) >= 1
        /\ IsHeap(g) /\ Len(g) = Len(h)
    BY DEF Family, Forwards, TheDocument, ChildAdded
  <2>2. ret = 0 \/ ret \in root..(c - 1)
    BY DEF Family, Own
  <2> QED
    BY <2>1, <2>2
<1>2. \A m \in 1..Len(h) :
         /\ Real(g, m) = Real(h, m)
         /\ g[m].parent = IF m = c THEN P ELSE h[m].parent
         /\ g[m].prev = IF m = c /\ h[P].children # 0 THEN last ELSE h[m].prev
         /\ g[m].next = IF m = last /\ h[P].children # 0 THEN c ELSE h[m].next
         /\ g[m].children = IF m = P /\ h[P].children = 0 THEN c ELSE h[m].children
  BY DEF ChildAdded, Real
<1>3. \A m \in 1..Len(h) : Real(h, m) =>
         /\ h[m].next # 0 => /\ h[m].next \in (m + 1)..Len(h) /\ h[m].next \in 1..Len(h)
                             /\ Real(h, h[m].next)
         /\ h[m].children # 0 => /\ h[m].children \in (m + 1)..Len(h) /\ h[m].children \in 1..Len(h)
                                 /\ Real(h, h[m].children)
  BY <1>1 DEF Forwards
<1>4. Forwards(g)
  <2>1. ASSUME NEW m \in 1..Len(g), Real(g, m)
        PROVE  /\ g[m].next # 0 => g[m].next \in (m + 1)..Len(g) /\ Real(g, g[m].next)
               /\ g[m].children # 0 => g[m].children \in (m + 1)..Len(g) /\ Real(g, g[m].children)
    <3>1. m \in 1..Len(h) /\ Real(h, m)
      BY <1>1, <1>2, <2>1
    <3>2. g[m].next = h[m].next \/ (g[m].next = c /\ m < c)
      BY <1>1, <1>2, <3>1
    <3>3. g[m].children = h[m].children \/ (g[m].children = c /\ m < c)
      BY <1>1, <1>2, <3>1
    <3> QED
      BY <1>1, <1>2, <1>3, <3>1, <3>2, <3>3
  <2>2. TheDocument \in 1..Len(g)
    BY <1>1 DEF TheDocument
  <2> QED
    BY <1>1, <2>1, <2>2 DEF Forwards
<1>5. Separate(g, Len(g) + 1) /\ Own(g, Len(g) + 1)
  <2>1. Len(g) \in Nat /\ (Len(g) + 1)..Len(g) = {} /\ \A m \in 1..((Len(g) + 1) - 1) : m \in 1..Len(g)
    BY <1>1
  <2>2. Own(g, Len(g) + 1)
    BY <2>1 DEF Own
  <2>3. \A m \in 1..Len(g) : Real(g, m) => g[m].next < Len(g) + 1 /\ g[m].children < Len(g) + 1
    BY <1>4, <2>1 DEF Forwards
  <2> QED
    BY <2>1, <2>2, <2>3 DEF Separate
<1>6. /\ D \subseteq 1..(root - 1) /\ TheDocument \in D
      /\ \A n \in D :
         /\ Real(h, n)
         /\ h[n].next # 0 => /\ h[n].next \in D
                             /\ h[h[n].next].prev = n
                             /\ holder[h[n].next] = holder[n]
         /\ h[n].children # 0 => /\ h[n].children \in D
                                 /\ h[h[n].children].prev = 0
                                 /\ holder[h[n].children] = n
         /\ h[n].parent \in 0..(root - 1)
         /\ h[n].parent = holder[n] \/ h[n].parent \notin D
  BY DEF Family, Held
<1>7. \A n \in D : n \in 1..Len(h) /\ n < c /\ n # c
  BY <1>1, <1>6
<1>8. CASE ~linked
  <2>1. \A n \in D : /\ Real(g, n) /\ g[n].parent = h[n].parent
                     /\ g[n].prev = h[n].prev /\ g[n].next = h[n].next
                     /\ g[n].children = h[n].children
    BY <1>2, <1>6, <1>7, <1>8
  <2>2. D \subseteq 1..Len(h) /\ \A a \in 0..(root - 1) : a \in 0..Len(h)
    BY <1>1, <1>7
  <2>3. ASSUME NEW n \in D
        PROVE  /\ Real(g, n)
               /\ g[n].next # 0 => /\ g[n].next \in D
                                   /\ g[g[n].next].prev = n
                                   /\ holder[g[n].next] = holder[n]
               /\ g[n].children # 0 => /\ g[n].children \in D
                                       /\ g[g[n].children].prev = 0
                                       /\ holder[g[n].children] = n
               /\ g[n].parent \in 0..((Len(g) + 1) - 1)
               /\ g[n].parent = holder[n] \/ g[n].parent \notin D
    <3>1. /\ Real(h, n)
          /\ h[n].next # 0 => /\ h[n].next \in D
                              /\ h[h[n].next].prev = n
                              /\ holder[h[n].next] = holder[n]
          /\ h[n].children # 0 => /\ h[n].children \in D
                                  /\ h[h[n].children].prev = 0
                                  /\ holder[h[n].children] = n
          /\ h[n].parent \in 0..Len(h)
          /\ h[n].parent = holder[n] \/ h[n].parent \notin D
      BY <1>6, <2>2
    <3>2. /\ h[n].next # 0 => g[h[n].next].prev = h[h[n].next].prev
          /\ h[n].children # 0 => g[h[n].children].prev = h[h[n].children].prev
      BY <2>1, <3>1
    <3> QED
      BY <1>1, <2>1, <3>1, <3>2
  <2>4. D \subseteq 1..((Len(g) + 1) - 1)
    BY <1>1, <2>2
  <2>5. Held(g, D, holder, Len(g) + 1)
    BY <1>6, <2>3, <2>4 DEF Held
  <2> QED
    BY <1>1, <1>4, <1>5, <2>5 DEF Family
<1>9. CASE linked
  <2> DEFINE D2 == D \cup K
             holder2 == [m \in D2 |-> IF m \in D THEN holder[m]
                                      ELSE IF h[m].parent = ret THEN top ELSE h[m].parent]
  <2>1. \A m \in K : m \in 1..Len(h) /\ m \in root..Len(h) /\ m \notin D /\ Real(h, m) /\ m >= c
    BY <1>1, <1>7
  <2>2. /\ \A m \in D : m \in D2 /\ holder2[m] = holder[m]
        /\ \A m \in K : m \in D2 /\ holder2[m] = IF h[m].parent = ret THEN top ELSE h[m].parent
        /\ c \in K /\ holder2[c] = top
    BY <1>1, <2>1
  <2>3. D2 \subseteq 1..Len(h) /\ TheDocument \in D2
    BY <1>6, <1>7, <2>1
  <2>4. \A a \in 0..(root - 1) : a \notin K /\ a \in 0..Len(h)
    BY <1>1, <2>1
  <2>5. ret \notin D2
    BY <1>1, <1>6, <2>1
  <2>6. \A m \in K :
          /\ h[m].parent = 0 \/ h[m].parent \in root..(m - 1)
          /\ h[m].next # 0 => /\ h[m].next \in K /\ h[m].next # c
                              /\ h[h[m].next].prev = m
                              /\ h[h[m].next].parent = h[m].parent
          /\ h[m].children # 0 => /\ h[m].children \in K /\ h[m].children # c
                                  /\ h[h[m].children].prev = 0
                                  /\ h[h[m].children].parent = m
    <3> SUFFICES ASSUME NEW m \in K
                 PROVE  /\ h[m].parent = 0 \/ h[m].parent \in root..(m - 1)
                        /\ h[m].next # 0 => /\ h[m].next \in K /\ h[m].next # c
                                            /\ h[h[m].next].prev = m
                                            /\ h[h[m].next].parent = h[m].parent
                        /\ h[m].children # 0 => /\ h[m].children \in K /\ h[m].children # c
                                                /\ h[h[m].children].prev = 0
                                                /\ h[h[m].children].parent = m
      OBVIOUS
    <3>1. m \in root..Len(h) /\ m \in 1..Len(h) /\ Real(h, m) /\ m >= c
      BY <2>1
    <3>2. /\ h[m].parent # 0 => h[m].parent \in root..(m - 1)
          /\ h[m].next # 0 => /\ h[h[m].next].prev = m
                              /\ h[m].parent # 0 => h[h[m].next].parent = h[m].parent
          /\ h[m].children # 0 => /\ h[h[m].children].prev = 0
                                  /\ h[h[m].children].parent = m
      BY <3>1 DEF Family, Own
    <3>3. /\ h[m].next # 0 => h[m].next \in (m + 1)..Len(h) /\ Real(h, h[m].next)
          /\ h[m].children # 0 => h[m].children \in (m + 1)..Len(h) /\ Real(h, h[m].children)
      BY <1>3, <3>1
    <3>4. h[m].next # 0 => h[m].parent # 0
      BY <1>1, <3>1, <3>3
    <3>5. /\ h[m].next # 0 => h[m].next \in K /\ h[m].next # c
          /\ h[m].children # 0 => h[m].children \in K /\ h[m].children # c
      BY <1>1, <3>1, <3>2, <3>3, <3>4
    <3> HIDE DEF K
    <3> QED
      BY <3>2, <3>4, <3>5
  <2> HIDE DEF K, D2, holder2
  <2>7. ASSUME NEW n \in D
        PROVE  /\ Real(g, n)
               /\ g[n].next # 0 => /\ g[n].next \in D2
                                   /\ g[g[n].next].prev = n
                                   /\ holder2[g[n].next] = holder2[n]
               /\ g[n].children # 0 => /\ g[n].children \in D2
                                       /\ g[g[n].children].prev = 0
                                       /\ holder2[g[n].children] = n
               /\ g[n].parent \in 0..Len(h)
               /\ g[n].parent = holder2[n] \/ g[n].parent \notin D2
    <3>1. Real(g, n) /\ g[n].parent = h[n].parent /\ n \in 1..Len(h) /\ n # c
      BY <1>2, <1>6, <1>7
    <3>2. ASSUME n = last, h[P].children # 0
          PROVE  /\ g[n].next \in D2 /\ g[g[n].next].prev = n
                 /\ holder2[g[n].next] = holder2[n]
      <4>1. g[n].next = c /\ g[c].prev = n /\ c \in D2
        BY <1>1, <1>2, <2>2, <3>1, <3>2
      <4>2. holder2[c] = holder[last]
        BY <2>2, <3>2
      <4> QED
        BY <2>2, <3>2, <4>1, <4>2
    <3>3. ASSUME ~(n = last /\ h[P].children # 0), g[n].next # 0
          PROVE  /\ g[n].next \in D2 /\ g[g[n].next].prev = n
                 /\ holder2[g[n].next] = holder2[n]
      <4>1. g[n].next = h[n].next /\ h[n].next \in D
        BY <1>2, <1>6, <3>1, <3>3
      <4>2. g[h[n].next].prev = h[h[n].next].prev
        BY <1>2, <1>7, <4>1
      <4>3. h[h[n].next].prev = n /\ holder[h[n].next] = holder[n]
        BY <1>6, <3>3, <4>1
      <4>4. h[n].next \in D2 /\ holder2[h[n].next] = holder[h[n].next] /\ holder2[n] = holder[n]
        BY <2>2, <4>1
      <4> QED
        BY <4>1, <4>2, <4>3, <4>4
    <3>4. ASSUME n = P, h[P].children = 0
          PROVE  /\ g[n].children \in D2 /\ g[g[n].children].prev = 0
                 /\ holder2[g[n].children] = n
      <4>1. g[n].children = c /\ g[c].prev = 0 /\ c \in D2
        BY <1>1, <1>2, <2>2, <3>1, <3>4
      <4>2. holder2[c] = P
        BY <2>2, <3>4
      <4> QED
        BY <3>4, <4>1, <4>2
    <3>5. ASSUME ~(n = P /\ h[P].children = 0), g[n].children # 0
          PROVE  /\ g[n].children \in D2 /\ g[g[n].children].prev = 0
                 /\ holder2[g[n].children] = n
      <4>1. g[n].children = h[n].children /\ h[n].children \in D
        BY <1>2, <1>6, <3>1, <3>5
      <4>2. g[h[n].children].prev = h[h[n].children].prev
        BY <1>2, <1>7, <4>1
      <4>3. h[h[n].children].prev = 0 /\ holder[h[n].children] = n
        BY <1>6, <3>5, <4>1
      <4>4. h[n].children \in D2 /\ holder2[h[n].children] = holder[h[n].children]
        BY <2>2, <4>1
      <4> QED
        BY <4>1, <4>2, <4>3, <4>4
    <3>6. g[n].parent \in 0..Len(h) /\ (g[n].parent = holder2[n] \/ g[n].parent \notin D2)
      <4>1. g[n].parent \notin K /\ g[n].parent \in 0..Len(h)
        BY <1>6, <2>4, <3>1
      <4> QED
        BY <1>6, <2>2, <3>1, <4>1 DEF D2
    <3> QED
      BY <3>1, <3>2, <3>3, <3>4, <3>5, <3>6
  <2>8. ASSUME NEW n \in K
        PROVE  /\ Real(g, n)
               /\ g[n].next # 0 => /\ g[n].next \in D2
                                   /\ g[g[n].next].prev = n
                                   /\ holder2[g[n].next] = holder2[n]
               /\ g[n].children # 0 => /\ g[n].children \in D2
                                       /\ g[g[n].children].prev = 0
                                       /\ holder2[g[n].children] = n
               /\ g[n].parent \in 0..Len(h)
               /\ g[n].parent = holder2[n] \/ g[n].parent \notin D2
    <3>1. /\ Real(g, n) /\ n \in 1..Len(h) /\ n # P /\ ~(n = last /\ h[P].children # 0)
          /\ g[n].next = h[n].next /\ g[n].children = h[n].children
      BY <1>1, <1>2, <2>1
    <3>2. ASSUME g[n].next # 0
          PROVE  /\ g[n].next \in D2 /\ g[g[n].next].prev = n
                 /\ holder2[g[n].next] = holder2[n]
      <4>1. h[n].next \in K /\ g[h[n].next].prev = h[h[n].next].prev
        BY <1>2, <2>1, <2>6, <3>1, <3>2
      <4> QED
        <5>1. h[n].next # 0 /\ g[n].next = h[n].next
          BY <3>1, <3>2
        <5>2. h[h[n].next].prev = n /\ h[h[n].next].parent = h[n].parent
          BY <2>6, <2>8, <5>1
        <5>3. h[n].next \in D2 /\ holder2[h[n].next] = holder2[n]
          BY <2>2, <2>8, <4>1, <5>2
        <5> QED
          BY <4>1, <5>1, <5>2, <5>3
    <3>3. ASSUME g[n].children # 0
          PROVE  /\ g[n].children \in D2 /\ g[g[n].children].prev = 0
                 /\ holder2[g[n].children] = n
      <4>1. h[n].children \in K /\ g[h[n].children].prev = h[h[n].children].prev
        BY <1>2, <2>1, <2>6, <3>1, <3>3
      <4>2. n # ret
        BY <1>1, <2>1
      <4>3. h[h[n].children].prev = 0 /\ h[h[n].children].parent = n
        BY <2>6, <3>1, <3>3
      <4>4. h[n].children \in D2 /\ holder2[h[n].children] = n
        BY <2>2, <4>1, <4>2, <4>3
      <4> QED
        BY <3>1, <4>1, <4>3, <4>4
    <3>4. ASSUME n = c
          PROVE  g[n].parent \in 0..Len(h) /\ (g[n].parent = holder2[n] \/ g[n].parent \notin D2)
      <4>1. g[n].parent = P /\ P \in 0..Len(h) /\ P \notin K
        BY <1>1, <1>2, <2>4, <3>1, <3>4
      <4>2. top = P \/ P \notin D
        OBVIOUS
      <4> QED
        BY <2>2, <3>4, <4>1, <4>2 DEF D2
    <3>5. ASSUME n # c
          PROVE  g[n].parent \in 0..Len(h) /\ (g[n].parent = holder2[n] \/ g[n].parent \notin D2)
      <4>1. g[n].parent = h[n].parent
        BY <1>2, <3>1, <3>5
      <4>2. h[n].parent \in 0..Len(h)
        BY <1>1, <2>1, <2>6
      <4> QED
        BY <2>2, <2>5, <4>1, <4>2
    <3> QED
      BY <3>1, <3>2, <3>3, <3>4, <3>5
  <2>9. \A n \in D2 : n \in D \/ n \in K
    BY DEF D2
  <2>10. Held(g, D2, holder2, Len(g) + 1)
    <3>1. (Len(g) + 1) - 1 = Len(h)
      BY <1>1
    <3> QED
      BY <2>3, <2>7, <2>8, <2>9, <3>1 DEF Held
  <2> QED
    BY <1>1, <1>4, <1>5, <2>10 DEF Family
<1> QED
  BY <1>8, <1>9

-----------------------------------------------------------------------------
(* The last child of an element is where the element is.                   *)
LEMMA LastChild ==
  ASSUME NEW D, NEW holder, NEW root, Family(node, D, holder, root),
         NEW P \in 1..(root - 1), Real(node, P), node[P].children # Nothing,
         NEW last, last = Last(Siblings(node[P].children))
  PROVE  /\ last \in 1..(root - 1) /\ Real(node, last)
         /\ P \in D => last \in D /\ holder[last] = P
<1> USE DEF Nothing
<1> DEFINE X == {m \in 1..(root - 1) : Real(node, m)}
           Y == {m \in D : holder[m] = P}
           S == Siblings(node[P].children)
<1>1. /\ Forwards(node) /\ Len(node) \in Nat /\ root \in 1..(Len(node) + 1)
      /\ Separate(node, root) /\ Held(node, D, holder, root)
  BY DEF Family, Forwards
<1>2. \A m \in 1..(root - 1) : Real(node, m) =>
        /\ node[m].next # 0 => node[m].next \in 1..(root - 1) /\ Real(node, node[m].next)
        /\ node[m].children # 0 => node[m].children \in 1..(root - 1) /\ Real(node, node[m].children)
  <2>1. \A m \in 1..(root - 1) : Real(node, m) =>
          /\ node[m].next # 0 => node[m].next \in (m + 1)..Len(node) /\ Real(node, node[m].next)
          /\ node[m].children # 0 => node[m].children \in (m + 1)..Len(node) /\ Real(node, node[m].children)
    BY <1>1 DEF Forwards
  <2>2. \A m \in 1..(root - 1) : Real(node, m) => node[m].next < root /\ node[m].children < root
    BY <1>1 DEF Separate
  <2> QED
    BY <1>1, <2>1, <2>2
<1>3. last \in X
  <2>1. X \in SUBSET (1..Len(node)) /\ node[P].children \in X
        /\ \A m \in X : node[m].next \in X \cup {Nothing}
    BY <1>1, <1>2
  <2> HIDE DEF X
  <2>2. S \in Seq(X) /\ S # <<>>
    BY <1>1, <2>1, SiblingsWithin
  <2> QED
    BY <2>2 DEF Last
<1>4. ASSUME P \in D PROVE last \in Y
  <2>1. Y \in SUBSET (1..Len(node)) /\ node[P].children \in Y
        /\ \A m \in Y : node[m].next \in Y \cup {Nothing}
    <3>1. D \subseteq 1..(root - 1)
      BY <1>1 DEF Held
    <3>2. Y \in SUBSET (1..Len(node))
      BY <1>1, <3>1
    <3>3. node[P].children \in Y
      BY <1>1, <1>4 DEF Held
    <3>4. \A m \in Y : node[m].next \in Y \cup {Nothing}
      BY <1>1 DEF Held
    <3> QED
      BY <3>2, <3>3, <3>4
  <2> HIDE DEF Y
  <2>2. S \in Seq(Y) /\ S # <<>>
    BY <1>1, <2>1, SiblingsWithin
  <2> QED
    BY <2>2 DEF Last
<1> QED
  BY <1>3, <1>4

(* A new child anywhere.                                                   *)
LEMMA AddsChild ==
  ASSUME NEW D, NEW holder, NEW root, Family(node, D, holder, root),
         NEW P \in 1..Len(node), Real(node, P),
         NEW r, DOMAIN r = Fields, r.type # "ATTRIBUTE", r.parent = Nothing, r.prev = Nothing,
         r.next = Nothing, r.children = Nothing,
         NEW g, g = xml_add_child(Append(node, r), P, NextAddress)
  PROVE  \E D2, holder2 : Family(g, D2, holder2, Len(g) + 1)
<1> DEFINE new == Len(node) + 1
<1>1. PICK k : k = Append(node, r)
  OBVIOUS
<1>2. PICK last : last = Last(Siblings(node[P].children))
  OBVIOUS
<1>3. Family(node, D, holder, new)
  BY FamilyFresh
<1>4. IsHeap(node)
  BY DEF Family, Forwards
<1>5. Appended(k, node, r)
  BY <1>1, <1>4, HeapAppend, Zenon
<1>6. Family(k, D, holder, new)
  BY <1>3, <1>5, FamilyRoot
<1>7. /\ IsHeap(k) /\ Len(node) \in Nat /\ Len(k) = new /\ k[P] = node[P] /\ k[new] = r
      /\ \A m \in 1..Len(node) : k[m] = node[m]
  BY <1>5 DEF Appended
<1>8. P \in 1..(new - 1) /\ new - 1 = Len(node)
  BY <1>7
<1>9. node[P].children # Nothing => /\ last \in 1..(new - 1) /\ Real(node, last)
                                   /\ (P \in D => last \in D /\ holder[last] = P)
  BY <1>2, <1>3, <1>8, LastChild
<1>10. k[P].children # Nothing => /\ last \in 1..(new - 1) /\ Real(k, last)
                                 /\ (P \in D => last \in D /\ holder[last] = P)
  BY <1>7, <1>8, <1>9 DEF Real
<1>11. /\ P \in 1..Len(k) /\ new \in 1..Len(k) /\ last = Last(Siblings(k[P].children))
       /\ k[P].children # Nothing => last \in 1..Len(k)
       /\ g = xml_add_child(k, P, new)
  <2>1. g = xml_add_child(k, P, new)
    BY <1>1 DEF NextAddress
  <2>2. last = Last(Siblings(k[P].children))
    BY <1>2, <1>7
  <2> QED
    BY <1>7, <1>8, <1>10, <2>1, <2>2
<1>12. ChildAdded(g, k, P, new, last)
  BY <1>7, <1>11, AddChildLinks
<1>13. /\ Real(k, P) /\ Real(k, new) /\ k[new].prev = Nothing /\ new \in new..Len(k)
       /\ new = Len(k)
  BY <1>7 DEF Real
<1> HIDE DEF new
<1> QED
  BY <1>6, <1>8, <1>10, <1>12, <1>13, FamilyLinked

(* A new attribute.                                                        *)
LEMMA AddsAttribute ==
  ASSUME NEW D, NEW holder, NEW root, Family(node, D, holder, root),
         NEW a \in 1..Len(node), NEW r, DOMAIN r = Fields, r.type = "ATTRIBUTE",
         NEW g, g = [Append(node, r) EXCEPT ![a].attributes = NextAddress]
  PROVE  /\ Family(g, D, holder, root) /\ Len(g) = Len(node) + 1
         /\ \A m \in 1..Len(node) : SameLinks(g[m], node[m])
<1>1. PICK k : k = Append(node, r)
  OBVIOUS
<1>2. IsHeap(node) /\ g = [k EXCEPT ![a].attributes = NextAddress]
  BY <1>1 DEF Family, Forwards
<1>3. Appended(k, node, r)
  BY <1>1, <1>2, HeapAppend, Zenon
<1>4. /\ IsHeap(k) /\ Len(node) \in Nat /\ Len(k) = Len(node) + 1 /\ k[Len(node) + 1] = r
      /\ \A m \in 1..Len(node) : k[m] = node[m]
      /\ a \in 1..Len(k)
  BY <1>3 DEF Appended
<1>5. LinksSame(g, k)
  BY <1>2, <1>4, HeapAttributes, Zenon
<1>6. IsHeap(g) /\ Len(g) = Len(node) + 1 /\ \A m \in 1..Len(node) : SameLinks(g[m], node[m])
  <2>1. \A m \in 1..Len(node) : m \in 1..Len(k) /\ SameLinks(g[m], k[m])
    BY <1>4, <1>5 DEF LinksSame
  <2>2. \A m \in 1..Len(node) : SameLinks(g[m], node[m])
    BY <1>4, <2>1
  <2> QED
    BY <1>4, <1>5, <2>2 DEF LinksSame
<1>7. \A m \in (Len(node) + 1)..Len(g) : g[m].type = "ATTRIBUTE"
  BY <1>4, <1>5 DEF LinksSame, SameLinks
<1>8. Len(g) \in Nat /\ Len(g) >= Len(node)
  BY <1>4, <1>6
<1> QED
  BY <1>6, <1>7, <1>8, FamilyKept

(* The numbers of the elements are no links.                               *)
LEMMA RenumberLinks ==
  ASSUME NEW h, IsHeap(h), NEW n, NEW g, g = renumber_children(h, n)
  PROVE  LinksSame(g, h)
<1> DEFINE To(m) == Ordinal(n, m)
           Is(m) == m \in Descendants(n) /\ h[m].type # "TEXT"
           R(m) == IF Is(m) THEN [h[m] EXCEPT !.position = To(m)] ELSE h[m]
<1>1. PICK S : h \in Seq(S)
  BY DEF IsHeap
<1>2. DOMAIN h = 1..Len(h) /\ Len(h) \in Nat
  BY <1>1
<1>3. g = [m \in 1..Len(h) |-> R(m)]
  BY <1>2 DEF renumber_children
<1> HIDE DEF To, Is
<1>4. \A m \in 1..Len(h) : DOMAIN R(m) = Fields /\ SameLinks(R(m), h[m])
  BY DEF IsHeap, Fields, SameLinks
<1> HIDE DEF R
<1> DEFINE T == {R(m) : m \in 1..Len(h)}
<1>5. g \in Seq(T) /\ Len(g) = Len(h) /\ \A m \in 1..Len(h) : g[m] = R(m)
  BY <1>2, <1>3
<1>6. IsHeap(g)
  BY <1>4, <1>5 DEF IsHeap
<1> QED
  BY <1>4, <1>5, <1>6 DEF LinksSame

-----------------------------------------------------------------------------
(* A document that is new is a root and nothing else.                      *)
LEMMA InitDocuments == DocumentsInit => DocumentsInv
<1> SUFFICES ASSUME DocumentsInit PROVE DocumentsInv
  OBVIOUS
<1> USE DEF Nothing, TheDocument
<1> DEFINE D == {1}
           holder == [m \in D |-> 0]
<1>1. /\ DOMAIN RootNode = Fields /\ RootNode.type = "EMPTY" /\ RootNode.parent = 0
      /\ RootNode.prev = 0 /\ RootNode.next = 0 /\ RootNode.children = 0
  BY DEF RootNode, xml_new_node, Fields
<1>2. node \in Seq({RootNode}) /\ Len(node) = 1 /\ node[1] = RootNode
  BY DEF DocumentsInit
<1>3. Forwards(node)
  <2>1. IsHeap(node)
    BY <1>1, <1>2 DEF IsHeap
  <2> QED
    BY <1>1, <1>2, <2>1 DEF Forwards
<1>4. Separate(node, 2) /\ Own(node, 2)
  BY <1>1, <1>2 DEF Separate, Own
<1>5. Held(node, D, holder, 2)
  BY <1>1, <1>2 DEF Held, Real
<1>6. Family(node, D, holder, 2)
  BY <1>2, <1>3, <1>4, <1>5 DEF Family
<1>7. ParserAt(2) /\ ParsedAt(2)
  BY DEF DocumentsInit, ParserAt, ParsedAt
<1> QED
  BY <1>6, <1>7 DEF DocumentsInv

(* The parser goes on, and adds nothing.                                   *)
LEMMA ParserGoes ==
  ASSUME NEW D, NEW holder, NEW root, Family(node, D, holder, root), ParserAt(root), ParsedAt(root),
         parser # NULL, UNCHANGED <<node, written, parsed>>, NEW state, NEW p,
         parser' = [parser EXCEPT !.state = state, !.p = p],
         state \in {"INSIDE_TAG", "ATTR_VALUE"} =>
            parser.state \in {"INSIDE_TAG", "ATTR_VALUE"} /\ state # "ATTR_VALUE",
         parser.state \in Inside => state \in Inside
  PROVE  DocumentsInv'
<1>1. /\ DOMAIN parser' = ParserFields /\ parser'.use = parser.use /\ parser'.ret = parser.ret
      /\ parser'.previous = parser.previous /\ parser'.current = parser.current
      /\ parser'.state = state
  BY DEF ParserAt, ParserFields
<1>2. ParserAt(root)'
  BY <1>1 DEF ParserAt, OwnNode, In
<1>3. Family(node, D, holder, root)' /\ ParsedAt(root)'
  BY DEF ParsedAt, OwnNode
<1> QED
  BY <1>2, <1>3 DEF DocumentsInv

(* do_parse begins behind all there is.                                    *)
LEMMA ParseBegins ==
  ASSUME NEW D, NEW holder, NEW root, Family(node, D, holder, root), parsed \in Int, parsed <= 0,
         NEW t, NEW use, do_parse(t, use), parsed' = parsed,
         use # Nothing => use \in 1..Len(node) /\ Real(node, use),
         use = Nothing => written' # NULL
  PROVE  DocumentsInv'
<1> USE DEF Nothing
<1>1. PICK new : new = Len(node) + 1
  OBVIOUS
<1>2. Family(node, D, holder, new) /\ IsHeap(node)
  BY <1>1, FamilyFresh DEF Family, Forwards
<1>3. /\ DOMAIN RootNode = Fields /\ RootNode.type # "ATTRIBUTE" /\ RootNode.parent = 0
      /\ RootNode.next = 0 /\ RootNode.children = 0
  BY DEF RootNode, xml_new_node, Fields
<1>4. node' = Append(node, RootNode)
  BY DEF do_parse
<1>5. Appended(node', node, RootNode)
  BY <1>2, <1>3, <1>4, HeapAppend, Zenon
<1>6. Family(node', D, holder, new)
  BY <1>1, <1>2, <1>3, <1>5, FamilyRoot
<1>7. /\ Len(node) \in Nat /\ Len(node') = new /\ node'[new] = RootNode
      /\ \A m \in 1..Len(node) : node'[m] = node[m]
  BY <1>1, <1>5 DEF Appended
<1>8. /\ DOMAIN parser' = ParserFields /\ parser'.use = use /\ parser'.ret = new
      /\ parser'.previous = 0 /\ parser'.state = "INIT"
  BY <1>1 DEF do_parse, ParserFields, NextAddress
<1>9. OwnNode(node', new, new)
  BY <1>1, <1>3, <1>7 DEF OwnNode, Real
<1>20. use # 0 => use \in 1..(new - 1) /\ Real(node', use)
  BY <1>1, <1>7 DEF Real
<1>21. ParserAt(new)'
  BY <1>1, <1>7, <1>8, <1>9, <1>20 DEF ParserAt
<1>22. ParsedAt(new)'
  BY DEF ParsedAt
<1>23. Family(node, D, holder, new)'
  BY <1>6
<1> QED
  BY <1>21, <1>22, <1>23 DEF DocumentsInv

(* What the parser adds is behind previous, or the first below ret.        *)
LEMMA Inserts ==
  ASSUME NEW D, NEW holder, NEW root, Family(node, D, holder, root), ParserAt(root), parser # NULL,
         parser.state \notin Inside,
         NEW n, DOMAIN n = Fields, n.type # "ATTRIBUTE", n.next = Nothing, n.children = Nothing,
         Insert(n)
  PROVE  /\ Family(node', D, holder, root) /\ Len(node') = Len(node) + 1
         /\ \A m \in 1..Len(node) : node'[m].type = node[m].type /\ node'[m].parent = node[m].parent
         /\ Len(node) + 1 \in root..Len(node') /\ Real(node', Len(node) + 1)
         /\ node'[Len(node) + 1].parent = parser.ret
<1> USE DEF Nothing
<1>1. PICK r : r = [n EXCEPT !.prev = parser.previous, !.parent = parser.ret]
  OBVIOUS
<1>2. /\ DOMAIN r = Fields /\ r.type # "ATTRIBUTE" /\ r.next = 0 /\ r.children = 0
      /\ r.prev = parser.previous /\ r.parent = parser.ret
  BY <1>1 DEF Fields
<1>3. PICK k : k = Append(node, r)
  OBVIOUS
<1>4. IsHeap(node) /\ root \in 1..(Len(node) + 1)
  BY DEF Family, Forwards
<1>5. Appended(k, node, r)
  BY <1>2, <1>3, <1>4, HeapAppend, Zenon
<1>6. /\ IsHeap(k) /\ Len(node) \in Nat /\ Len(k) = Len(node) + 1
      /\ \A m \in root..Len(node) : m \in 1..Len(k)
  BY <1>4, <1>5 DEF Appended
<1>7. \E a \in root..Len(node) :
         /\ Real(node, a)
         /\ \/ /\ NextSet(node', k, a, Len(node) + 1) /\ r.prev = a
               /\ node[a].parent # 0 => r.parent = node[a].parent
            \/ ChildrenSet(node', k, a, Len(node) + 1) /\ r.prev = 0 /\ r.parent = a
  <2>1. CASE parser.previous # 0
    <3>1. PICK a : a = parser.previous
      OBVIOUS
    <3>2. /\ a \in root..Len(node) /\ Real(node, a)
          /\ node[a].parent # 0 => node[a].parent = parser.ret
      BY <2>1, <3>1 DEF ParserAt, OwnNode, In
    <3>3. node' = [k EXCEPT ![a].next = Len(node) + 1]
      BY <1>1, <1>3, <2>1, <3>1 DEF Insert, NextAddress
    <3>4. NextSet(node', k, a, Len(node) + 1)
      BY <1>6, <3>2, <3>3, HeapNext, Zenon
    <3> QED
      BY <1>2, <3>1, <3>2, <3>4
  <2>2. CASE parser.previous = 0
    <3>1. PICK a : a = parser.ret
      OBVIOUS
    <3>2. a \in root..Len(node) /\ Real(node, a)
      BY <2>2, <3>1 DEF ParserAt, OwnNode
    <3>3. node' = [k EXCEPT ![a].children = Len(node) + 1]
      BY <1>1, <1>3, <2>2, <3>1 DEF Insert, NextAddress
    <3>4. ChildrenSet(node', k, a, Len(node) + 1)
      BY <1>6, <3>2, <3>3, HeapChildren, Zenon
    <3> QED
      BY <1>2, <2>2, <3>1, <3>2, <3>4
  <2> QED
    BY <2>1, <2>2
<1>10. r.parent # 0 => r.parent \in root..Len(node) /\ Real(node, r.parent)
  BY <1>2 DEF ParserAt, OwnNode
<1>8. /\ Family(node', D, holder, root) /\ Len(node') = Len(node) + 1
      /\ \A m \in 1..Len(node) : node'[m].type = node[m].type /\ node'[m].parent = node[m].parent
      /\ node'[Len(node) + 1].type = r.type /\ node'[Len(node) + 1].parent = r.parent
  BY <1>2, <1>5, <1>7, <1>10, FamilyInserted
<1>9. /\ Len(node) + 1 \in root..Len(node') /\ Real(node', Len(node) + 1)
  BY <1>2, <1>4, <1>6, <1>8 DEF Real
<1> QED
  BY <1>2, <1>8, <1>9

(* The states of do_parse that add a node behind previous or below ret.    *)
LEMMA ParserInserts ==
  ASSUME NEW D, NEW holder, NEW root, Family(node, D, holder, root), ParserAt(root), ParsedAt(root),
         parser # NULL, parser.state \notin Inside, UNCHANGED <<written, parsed>>,
         NEW n, DOMAIN n = Fields, n.type # "ATTRIBUTE", n.next = Nothing, n.children = Nothing,
         Insert(n),
         DOMAIN parser' = ParserFields, parser'.use = parser.use,
         parser'.current = NextAddress,
         parser'.state # "ATTR_VALUE",
         \/ parser'.previous = parser.previous /\ parser'.state = "INSIDE_TAG"
         \/ parser'.previous = NextAddress /\ parser'.ret = parser.ret,
         \/ parser'.ret = parser.ret
         \/ parser'.ret = NextAddress /\ parser.ret = Nothing
  PROVE  DocumentsInv'
<1> USE DEF Nothing
<1>1. /\ Family(node', D, holder, root) /\ Len(node') = Len(node) + 1
      /\ \A m \in 1..Len(node) : node'[m].type = node[m].type /\ node'[m].parent = node[m].parent
      /\ Len(node) + 1 \in root..Len(node') /\ Real(node', Len(node) + 1)
      /\ node'[Len(node) + 1].parent = parser.ret
  BY Inserts
<1>2. root \in Nat \ {0} /\ Len(node) \in Nat
  BY DEF Family, Forwards
<1>3. ASSUME NEW m, OwnNode(node, root, m)
      PROVE  m \in root..Len(node') /\ Real(node', m) /\ node'[m].parent = node[m].parent
  BY <1>1, <1>2, <1>3 DEF OwnNode, Real
<1>4. PICK new : new = Len(node) + 1
  OBVIOUS
<1>5. /\ OwnNode(node', root, new) /\ node'[new].parent = parser.ret /\ parser'.current = new
      /\ new # 0
      /\ parser'.ret = parser.ret \/ (parser'.ret = new /\ parser.ret = 0)
      /\ \/ parser'.previous = parser.previous /\ parser'.state = "INSIDE_TAG"
         \/ parser'.previous = new /\ parser'.ret = parser.ret
  BY <1>1, <1>2, <1>4 DEF OwnNode, NextAddress
<1>6. parser'.ret # 0 => OwnNode(node', root, parser'.ret)
  <2>1. parser.ret # 0 => OwnNode(node', root, parser.ret)
    BY <1>3 DEF ParserAt, OwnNode
  <2> QED
    BY <1>5, <2>1
<1>7. /\ parser'.previous # 0 => OwnNode(node', root, parser'.previous)
      /\ parser'.previous # 0 /\ parser'.state \notin Inside =>
           In(node', parser'.previous, parser'.ret)
  <2>1. parser.previous # 0 => OwnNode(node', root, parser.previous)
    BY <1>3 DEF ParserAt, OwnNode
  <2> QED
    BY <1>5, <2>1 DEF In, Inside
<1>8. OwnNode(node', root, parser'.current) /\ In(node', parser'.current, parser'.ret)
  BY <1>5 DEF In
<1>81. parser'.ret # 0 \/ parser'.previous # 0
  BY <1>5 DEF ParserAt
<1>9. parser'.use # 0 => parser'.use \in 1..(root - 1) /\ Real(node', parser'.use)
  <2>1. ASSUME parser.use # 0 PROVE parser.use \in 1..Len(node)
    BY <1>2, <2>1 DEF ParserAt, Family
  <2> QED
    BY <1>1, <2>1 DEF ParserAt, Real
<1>10. ParserAt(root)'
  BY <1>6, <1>7, <1>8, <1>81, <1>9 DEF ParserAt
<1>11. ParsedAt(root)'
  BY DEF ParserAt, ParsedAt
<1>12. Family(node, D, holder, root)'
  BY <1>1
<1> QED
  BY <1>10, <1>11, <1>12 DEF DocumentsInv

(* The kinds of nodes that the parser and the application make.            *)
LEMMA NewNodes ==
  ASSUME NEW type, NEW name, NEW content, NEW n,
         n \in {xml_new_node(type, name),
                [xml_new_node(type, name) EXCEPT !.content = content],
                [xml_new_node(type, name) EXCEPT !.content = content, !.noescape = TRUE]}
  PROVE  /\ DOMAIN n = Fields /\ n.type = type /\ n.parent = Nothing /\ n.prev = Nothing
         /\ n.next = Nothing /\ n.children = Nothing
<1> DEFINE m == xml_new_node(type, name)
<1>1. /\ DOMAIN m = Fields /\ m.type = type /\ m.parent = Nothing /\ m.prev = Nothing
      /\ m.next = Nothing /\ m.children = Nothing
  BY DEF xml_new_node, Fields
<1> HIDE DEF m
<1>2. CASE n = m
  BY <1>1, <1>2
<1>3. CASE n = [m EXCEPT !.content = content]
  BY <1>1, <1>3 DEF Fields
<1>4. CASE n = [m EXCEPT !.content = content, !.noescape = TRUE]
  BY <1>1, <1>4 DEF Fields
<1> QED
  BY <1>2, <1>3, <1>4 DEF m

(* A new attribute of the element that is open, and its value.             *)
LEMMA ParserRelinks ==
  ASSUME NEW D, NEW holder, NEW root, Family(node, D, holder, root), ParserAt(root), ParsedAt(root),
         parser # NULL, UNCHANGED <<written, parsed>>,
         parser.state \in {"INSIDE_TAG", "ATTR_VALUE"},
         Family(node', D, holder, root), Len(node') \in Nat, Len(node') >= Len(node),
         \A m \in 1..Len(node) : SameLinks(node'[m], node[m]),
         DOMAIN parser' = ParserFields, parser'.use = parser.use, parser'.ret = parser.ret,
         parser'.current = parser.current, parser'.previous = parser.previous,
         parser'.state \in Inside,
         parser'.state = "ATTR_VALUE" => parser'.attr \in 1..Len(node')
  PROVE  DocumentsInv'
<1> USE DEF Nothing
<1>1. root \in Nat \ {0} /\ Len(node) \in Nat /\ root \in 1..(Len(node) + 1)
  BY DEF Family, Forwards
<1>2. \A m \in 1..Len(node) : node'[m].type = node[m].type /\ node'[m].parent = node[m].parent
  BY DEF SameLinks
<1>3. ASSUME NEW m, OwnNode(node, root, m)
      PROVE  m \in root..Len(node') /\ Real(node', m) /\ node'[m].parent = node[m].parent
  BY <1>1, <1>2, <1>3 DEF OwnNode, Real
<1>4. parser'.ret # 0 => OwnNode(node', root, parser'.ret)
  BY <1>3 DEF ParserAt, OwnNode
<1>5. /\ parser'.previous # 0 => OwnNode(node', root, parser'.previous)
      /\ parser'.ret # 0 \/ parser'.previous # 0
  BY <1>3 DEF ParserAt, OwnNode
<1>6. OwnNode(node', root, parser'.current) /\ In(node', parser'.current, parser'.ret)
  <2>1. OwnNode(node, root, parser.current) /\ In(node, parser.current, parser.ret)
    BY DEF ParserAt
  <2> QED
    BY <1>3, <2>1 DEF OwnNode, In
<1>7. parser'.use # 0 => parser'.use \in 1..(root - 1) /\ Real(node', parser'.use)
  <2>1. ASSUME parser.use # 0 PROVE parser.use \in 1..Len(node)
    BY <1>1, <2>1 DEF ParserAt
  <2> QED
    BY <1>2, <2>1 DEF ParserAt, Real
<1>8. ParserAt(root)'
  BY <1>4, <1>5, <1>6, <1>7 DEF ParserAt
<1>9. ParsedAt(root)'
  BY DEF ParserAt, ParsedAt
<1>10. Family(node, D, holder, root)'
  OBVIOUS
<1> QED
  BY <1>8, <1>9, <1>10 DEF DocumentsInv

(* do_parse ends: what was parsed stays on its own, or goes into use.      *)
LEMMA ParseEnds ==
  ASSUME NEW D, NEW holder, NEW root, Family(node, D, holder, root), ParserAt(root), ParsedAt(root),
         DoParseEnds
  PROVE  DocumentsInv'
<1> USE DEF Nothing
<1>1. /\ parser # NULL /\ parser' = NULL /\ written' = written
      /\ IsHeap(node) /\ Len(node) \in Nat /\ root \in 1..(Len(node) + 1)
      /\ Forwards(node) /\ parsed \in Int /\ parsed <= 0
  BY DEF DoParseEnds, Family, Forwards, ParserAt, ParsedAt
<1>2. PICK ret : ret = IF parser.state = "ERROR" THEN 0 ELSE parser.ret
  OBVIOUS
<1>3. PICK child : child = IF ret = 0 \/ parser.use = 0 THEN 0 ELSE node[ret].children
  OBVIOUS
<1>4. PICK linked : linked = IF child = 0 THEN node ELSE xml_add_child(node, parser.use, child)
  OBVIOUS
<1>5. /\ node' = IF ret = 0 THEN node ELSE renumber_children(linked, ret)
      /\ parsed' = IF parser.use = 0 THEN ret ELSE parsed
  BY <1>2, <1>3, <1>4 DEF DoParseEnds
<1>6. ret # 0 => OwnNode(node, root, ret)
  BY <1>1, <1>2 DEF ParserAt
<1>7. \A r : ParserAt(r)'
  BY <1>1 DEF ParserAt
<1>8. CASE ret = 0
  <2>1. Family(node, D, holder, root)'
    BY <1>5, <1>8
  <2>2. ParsedAt(root)'
    BY <1>1, <1>5, <1>8 DEF ParsedAt
  <2> QED
    BY <1>7, <2>1, <2>2 DEF DocumentsInv
<1>9. CASE ret # 0 /\ child = 0
  <2>1. LinksSame(node', node)
    BY <1>1, <1>4, <1>5, <1>9, RenumberLinks
  <2>2. Family(node', D, holder, root)
    <3>1. /\ IsHeap(node') /\ Len(node') \in Nat /\ Len(node') >= Len(node)
          /\ \A m \in 1..Len(node) : SameLinks(node'[m], node[m])
          /\ \A m \in (Len(node) + 1)..Len(node') : node'[m].type = "ATTRIBUTE"
      BY <1>1, <2>1 DEF LinksSame
    <3> QED
      BY <3>1, FamilyKept
  <2>3. OwnNode(node', root, ret)
    BY <1>1, <1>6, <1>9, <2>1 DEF OwnNode, Real, LinksSame, SameLinks
  <2>4. parser.use = 0 => written' # NULL
    BY <1>1 DEF ParserAt
  <2>5. ParsedAt(root)'
    BY <1>1, <1>5, <2>3, <2>4 DEF ParsedAt, OwnNode
  <2>6. Family(node, D, holder, root)'
    BY <2>2
  <2> QED
    BY <1>7, <2>5, <2>6 DEF DocumentsInv
<1>10. CASE ret # 0 /\ child # 0
  <2>1. /\ parser.use # 0 /\ child = node[ret].children
        /\ linked = xml_add_child(node, parser.use, child)
        /\ ret \in root..Len(node) /\ Real(node, ret)
    BY <1>3, <1>4, <1>6, <1>10 DEF OwnNode
  <2>2. PICK P : P = parser.use
    OBVIOUS
  <2>3. P \in 1..(root - 1) /\ Real(node, P) /\ P \in 1..Len(node)
    BY <1>1, <2>1, <2>2 DEF ParserAt
  <2>4. /\ child \in root..Len(node) /\ Real(node, child) /\ node[child].prev = 0
        /\ child \in 1..Len(node) /\ node[child].parent # 0
    <3>1. ret \in 1..Len(node)
      BY <1>1, <2>1
    <3>2. child \in (ret + 1)..Len(node) /\ Real(node, child)
      BY <1>1, <1>10, <2>1, <3>1 DEF Forwards
    <3>3. node[child].prev = 0 /\ node[child].parent = ret
      BY <1>10, <2>1 DEF Family, Own
    <3> QED
      BY <1>1, <1>10, <2>1, <3>2, <3>3
  <2>5. PICK last : last = Last(Siblings(node[P].children))
    OBVIOUS
  <2>6. node[P].children # 0 => /\ last \in 1..(root - 1) /\ Real(node, last)
                               /\ (P \in D => last \in D /\ holder[last] = P)
    BY <2>3, <2>5, LastChild
  <2>7. node[P].children # 0 => last \in 1..Len(node)
    BY <1>1, <2>6
  <2>8. ChildAdded(linked, node, P, child, last)
    BY <1>1, <2>1, <2>2, <2>3, <2>4, <2>5, <2>7, AddChildLinks
  <2>9. PICK D2, holder2 : Family(linked, D2, holder2, Len(linked) + 1)
    BY <2>3, <2>4, <2>6, <2>8, FamilyLinked
  <2>10. LinksSame(node', linked)
    BY <1>5, <1>10, <2>9, RenumberLinks DEF Family, Forwards
  <2>11. PICK root2 : root2 = Len(linked) + 1
    OBVIOUS
  <2>12. Family(node', D2, holder2, root2)
    <3>1. /\ IsHeap(node') /\ Len(node') \in Nat /\ Len(node') >= Len(linked)
          /\ \A m \in 1..Len(linked) : SameLinks(node'[m], linked[m])
          /\ \A m \in (Len(linked) + 1)..Len(node') : node'[m].type = "ATTRIBUTE"
      BY <2>9, <2>10 DEF LinksSame, Family, Forwards
    <3> QED
      BY <2>9, <2>11, <3>1, FamilyKept
  <2>13. ParsedAt(root2)'
    BY <1>1, <1>5, <2>1 DEF ParsedAt
  <2>14. Family(node, D2, holder2, root2)'
    BY <2>12
  <2> QED
    BY <1>7, <2>13, <2>14 DEF DocumentsInv
<1> QED
  BY <1>8, <1>9, <1>10

(* The calls that build a document keep the invariant.                     *)
LEMMA EditsKeep ==
  ASSUME NEW D, NEW holder, NEW root, Family(node, D, holder, root), ParserAt(root), ParsedAt(root),
         Edit
  PROVE  /\ \A P \in Elements \cup {TheDocument} : \A name :
              XMLCreateElement(P, name) => DocumentsInv'
         /\ \A P \in Elements : \A content : XMLAddText(P, content) => DocumentsInv'
         /\ \A P \in Elements : \A name, value : XMLAddAttribute(P, name, value) => DocumentsInv'
         /\ \A P \in Elements : \A value : XMLAddChildFromString(P, value) => DocumentsInv'
<1> USE DEF Nothing
<1>1. /\ parser = NULL /\ written = NULL /\ written' = written /\ parsed' = parsed
      /\ parsed \in Int /\ parsed <= 0
      /\ IsHeap(node) /\ Len(node) \in Nat
  BY DEF Edit, ParsedAt, Family, Forwards
<1>2. \A r : ParsedAt(r)'
  BY <1>1 DEF ParsedAt
<1>3. \A P \in Elements \cup {TheDocument} : P \in 1..Len(node) /\ Real(node, P)
  <2>1. DOMAIN node = 1..Len(node)
    BY <1>1 DEF IsHeap
  <2>2. TheDocument \in 1..Len(node) /\ Real(node, TheDocument)
    BY DEF Family, Forwards, Held
  <2> QED
    BY <2>1, <2>2 DEF Elements, Real
<1>4. ASSUME NEW P \in Elements \cup {TheDocument}, NEW r,
             DOMAIN r = Fields, r.type # "ATTRIBUTE", r.parent = Nothing, r.prev = Nothing,
             r.next = Nothing, r.children = Nothing,
             node' = xml_add_child(Append(node, r), P, NextAddress), parser' = parser
      PROVE  DocumentsInv'
  <2>1. P \in 1..Len(node) /\ Real(node, P)
    BY <1>3
  <2>2. PICK D2, holder2 : Family(node', D2, holder2, Len(node') + 1)
    BY <1>4, <2>1, AddsChild
  <2>3. PICK root2 : root2 = Len(node') + 1
    OBVIOUS
  <2>4. Family(node, D2, holder2, root2)'
    BY <2>2, <2>3
  <2>5. ParserAt(root2)'
    BY <1>1, <1>4 DEF ParserAt
  <2> QED
    BY <1>2, <2>4, <2>5 DEF DocumentsInv
<1>5. ASSUME NEW P \in Elements \cup {TheDocument}, NEW name, XMLCreateElement(P, name)
      PROVE  DocumentsInv'
  <2>1. PICK r : r = xml_new_node("ELEMENT", name)
    OBVIOUS
  <2>2. /\ DOMAIN r = Fields /\ r.type = "ELEMENT" /\ r.parent = 0 /\ r.prev = 0
        /\ r.next = 0 /\ r.children = 0
    BY <2>1 DEF xml_new_node, Fields
  <2>3. node' = xml_add_child(Append(node, r), P, NextAddress) /\ parser' = parser
    BY <1>5, <2>1 DEF XMLCreateElement
  <2> QED
    BY <1>4, <2>2, <2>3
<1>6. ASSUME NEW P \in Elements, NEW content, XMLAddText(P, content)
      PROVE  DocumentsInv'
  <2>1. PICK r : r = [xml_new_node("TEXT", NULL) EXCEPT !.content = content]
    OBVIOUS
  <2>2. /\ DOMAIN r = Fields /\ r.type = "TEXT" /\ r.parent = 0 /\ r.prev = 0
        /\ r.next = 0 /\ r.children = 0
    BY <2>1 DEF xml_new_node, Fields
  <2>3. node' = xml_add_child(Append(node, r), P, NextAddress) /\ parser' = parser
    BY <1>6, <2>1 DEF XMLAddText
  <2> QED
    BY <1>4, <2>2, <2>3
<1>7. ASSUME NEW P \in Elements, NEW name, NEW value, XMLAddAttribute(P, name, value)
      PROVE  DocumentsInv'
  <2>1. PICK r : r = [xml_new_node("ATTRIBUTE", name) EXCEPT
                         !.content = value, !.parent = P, !.next = node[P].attributes]
    OBVIOUS
  <2>2. DOMAIN r = Fields /\ r.type = "ATTRIBUTE"
    BY <2>1 DEF xml_new_node, Fields
  <2>3. node' = [Append(node, r) EXCEPT ![P].attributes = NextAddress] /\ parser' = parser
    BY <1>7, <2>1 DEF XMLAddAttribute
  <2>4. Family(node', D, holder, root)
    BY <1>3, <2>2, <2>3, AddsAttribute
  <2>5. Family(node, D, holder, root)' /\ ParserAt(root)'
    BY <1>1, <2>3, <2>4 DEF ParserAt
  <2> QED
    BY <1>2, <2>5 DEF DocumentsInv
<1>8. ASSUME NEW P \in Elements, NEW value, XMLAddChildFromString(P, value)
      PROVE  DocumentsInv'
  <2>1. P \in 1..Len(node) /\ Real(node, P) /\ P # 0
    BY <1>1, <1>3
  <2>2. do_parse(value, P) /\ parsed' = parsed
    BY <1>1, <1>8 DEF XMLAddChildFromString
  <2> QED
    BY <1>1, <2>1, <2>2, ParseBegins
<1> QED
  BY <1>5, <1>6, <1>7, <1>8

(* The states that follow a mark.                                          *)
LEMMA MarkStates ==
  \A mark \in DOMAIN Marks : Marks[mark] \in {"XMLDECL", "COMMENT", "CDATA", "DOCTYPE", "CLOSE"}
BY DEF Marks

(* The states of do_parse keep the invariant.                              *)
LEMMA ParserKeeps ==
  ASSUME NEW D, NEW holder, NEW root, Family(node, D, holder, root), ParserAt(root), ParsedAt(root),
         ParserStep
  PROVE  DocumentsInv'
<1> USE DEF Nothing
<1>1. ASSUME NEW state, Turn(state)
      PROVE  /\ parser # NULL /\ parser.state = state /\ DOMAIN parser = ParserFields
             /\ UNCHANGED <<written, parsed>>
  BY <1>1 DEF Turn, ParserAt
<1>2. ASSUME NEW from, Turn(from), UNCHANGED node, NEW state, NEW p, Goes(state, p),
             state \in {"INSIDE_TAG", "ATTR_VALUE"} =>
                from \in {"INSIDE_TAG", "ATTR_VALUE"} /\ state # "ATTR_VALUE",
             from \in Inside => state \in Inside
      PROVE  DocumentsInv'
  <2>1. /\ parser # NULL /\ parser.state = from /\ UNCHANGED <<node, written, parsed>>
        /\ parser' = [parser EXCEPT !.state = state, !.p = p]
    BY <1>1, <1>2 DEF Goes
  <2> QED
    BY <1>2, <2>1, ParserGoes
<1>20. \A e, state : Within(e, state) \in {state, "UNDEFINED"}
  BY DEF Within
<1>3. CASE INIT
  <2>1. /\ Turn("INIT") /\ UNCHANGED node
        /\ \E state \in {"OPEN", "INIT"} : \E p : Goes(state, p)
    BY <1>3 DEF INIT
  <2> QED
    BY <1>2, <2>1 DEF Inside
<1>4. CASE XMLDECL
  <2>1. Turn("XMLDECL") /\ UNCHANGED node /\ \E e, p : Goes(Within(e, "INIT"), p)
    BY <1>4, Zenon DEF XMLDECL
  <2> QED
    BY <1>2, <1>20, <2>1 DEF Inside
<1>5. CASE DOCTYPE
  <2>1. Turn("DOCTYPE") /\ UNCHANGED node /\ \E e, p : Goes(Within(e, "TEXT"), p)
    BY <1>5, Zenon DEF DOCTYPE
  <2> QED
    BY <1>2, <1>20, <2>1 DEF Inside
<1>6. CASE COMMENT
  <2>1. /\ Turn("COMMENT") /\ UNCHANGED node
        /\ \E state \in {"TEXT", "COMMENT"} : \E p : Goes(state, p)
    BY <1>6 DEF COMMENT
  <2> QED
    BY <1>2, <2>1 DEF Inside
<1>7. CASE OPEN
  <2>1. Turn("OPEN")
    BY <1>7 DEF OPEN
  <2>2. \/ \E state \in {"XMLDECL", "COMMENT", "CDATA", "DOCTYPE", "CLOSE", "ERROR"} : \E p :
             Goes(state, p) /\ UNCHANGED node
        \/ \E name, p : /\ Insert(xml_new_node("ELEMENT", name))
                        /\ parser' = [parser EXCEPT !.state = "INSIDE_TAG", !.p = p,
                                         !.current = NextAddress,
                                         !.ret = IF @ = Nothing THEN NextAddress ELSE @]
    <3>1. \A mark \in DOMAIN Marks : Marks[mark] \in {"XMLDECL", "COMMENT", "CDATA", "DOCTYPE", "CLOSE"}
      BY MarkStates
    <3>2. \/ \E mark \in DOMAIN Marks : \E p : Goes(Marks[mark], p) /\ UNCHANGED node
          \/ \E p : Goes("ERROR", p) /\ UNCHANGED node
          \/ \E name, p : /\ Insert(xml_new_node("ELEMENT", name))
                          /\ parser' = [parser EXCEPT !.state = "INSIDE_TAG", !.p = p,
                                           !.current = NextAddress,
                                           !.ret = IF @ = Nothing THEN NextAddress ELSE @]
      BY <1>7, Zenon DEF OPEN
    <3>3. CASE \E mark \in DOMAIN Marks : \E p : Goes(Marks[mark], p) /\ UNCHANGED node
      <4>1. PICK mark \in DOMAIN Marks : \E p : Goes(Marks[mark], p) /\ UNCHANGED node
        BY <3>3
      <4>2. PICK state : state = Marks[mark]
        OBVIOUS
      <4> QED
        BY <3>1, <4>1, <4>2
    <3> QED
      BY <3>2, <3>3
  <2>3. CASE \E state \in {"XMLDECL", "COMMENT", "CDATA", "DOCTYPE", "CLOSE", "ERROR"} : \E p :
                Goes(state, p) /\ UNCHANGED node
    BY <1>2, <2>1, <2>3 DEF Inside
  <2>4. ASSUME NEW name, NEW p, Insert(xml_new_node("ELEMENT", name)),
               parser' = [parser EXCEPT !.state = "INSIDE_TAG", !.p = p, !.current = NextAddress,
                                        !.ret = IF @ = Nothing THEN NextAddress ELSE @]
        PROVE  DocumentsInv'
    <3>1. PICK n : n = xml_new_node("ELEMENT", name)
      OBVIOUS
    <3>2. DOMAIN n = Fields /\ n.type # "ATTRIBUTE" /\ n.next = 0 /\ n.children = 0
      BY <3>1 DEF xml_new_node, Fields
    <3>3. /\ DOMAIN parser' = ParserFields /\ parser'.use = parser.use
          /\ parser'.ret = parser.ret \/ (parser'.ret = NextAddress /\ parser.ret = Nothing)
          /\ parser'.current = NextAddress /\ parser'.state = "INSIDE_TAG"
          /\ parser'.previous = parser.previous
      BY <1>1, <2>1, <2>4 DEF ParserFields
    <3>4. Insert(n)
      BY <2>4, <3>1
    <3> QED
      BY <1>1, <2>1, <3>2, <3>3, <3>4, ParserInserts DEF Inside
  <2> QED
    BY <2>2, <2>3, <2>4
<1>8. CASE CLOSE
  <2>1. Turn("CLOSE") /\ UNCHANGED node
    BY <1>8 DEF CLOSE, Close
  <2>2. \/ \E state \in {"ERROR", "UNDEFINED"} : \E p : Goes(state, p)
        \/ /\ parser.ret # 0
           /\ \E e, p : parser' = [parser EXCEPT !.state = Within(e, "TEXT"), !.p = p,
                                      !.previous = parser.ret, !.ret = node[parser.ret].parent]
    <3>1. \/ \E p : Goes("ERROR", p)
          \/ \E p : Goes("UNDEFINED", p)
          \/ /\ parser.ret # 0
             /\ \E e, p : parser' = [parser EXCEPT !.state = Within(e, "TEXT"), !.p = p,
                                        !.previous = parser.ret, !.ret = node[parser.ret].parent]
      BY <1>8, Zenon DEF CLOSE, Close
    <3> QED
      BY <3>1
  <2>3. CASE \E state \in {"ERROR", "UNDEFINED"} : \E p : Goes(state, p)
    BY <1>2, <2>1, <2>3 DEF Inside
  <2>4. ASSUME NEW e, NEW p, parser.ret # 0,
               parser' = [parser EXCEPT !.state = Within(e, "TEXT"), !.p = p,
                             !.previous = parser.ret, !.ret = node[parser.ret].parent]
        PROVE  DocumentsInv'
    <3>1. /\ DOMAIN parser' = ParserFields /\ parser'.use = parser.use
          /\ parser'.ret = node[parser.ret].parent /\ parser'.previous = parser.ret
          /\ parser'.state \in {"TEXT", "UNDEFINED"} /\ UNCHANGED <<node, written, parsed>>
      BY <1>1, <1>20, <2>1, <2>4 DEF ParserFields
    <3>2. OwnNode(node, root, parser.ret)
      BY <1>1, <2>1, <2>4 DEF ParserAt
    <3>3. node[parser.ret].parent # 0 => OwnNode(node, root, node[parser.ret].parent)
      <4>1. parser.ret \in root..Len(node) /\ Real(node, parser.ret)
        BY <3>2 DEF OwnNode
      <4>2. node[parser.ret].parent # 0 => /\ node[parser.ret].parent \in root..(parser.ret - 1)
                                           /\ Real(node, node[parser.ret].parent)
        BY <4>1 DEF Family, Own
      <4>3. Len(node) \in Nat /\ root \in Nat
        BY DEF Family, Forwards
      <4> QED
        BY <4>1, <4>2, <4>3 DEF OwnNode
    <3>4. ParserAt(root)'
      BY <1>1, <2>1, <2>4, <3>1, <3>2, <3>3 DEF ParserAt, OwnNode, In
    <3>5. ParsedAt(root)' /\ Family(node, D, holder, root)'
      BY <3>1 DEF ParsedAt
    <3> QED
      BY <3>4, <3>5 DEF DocumentsInv
  <2> QED
    BY <2>2, <2>3, <2>4
<1>9. CASE INSIDE_TAG
  <2>1. Turn("INSIDE_TAG")
    BY <1>9 DEF INSIDE_TAG
  <2>2. /\ OwnNode(node, root, parser.current) /\ In(node, parser.current, parser.ret)
        /\ root \in Nat \ {0} /\ DOMAIN parser = ParserFields /\ parser # NULL /\ UNCHANGED <<written, parsed>>
    BY <1>1, <2>1 DEF ParserAt, Family, Forwards
  <2>3. \/ /\ \E p : parser' = [parser EXCEPT !.state = "TEXT", !.p = p, !.ret = parser.current,
                                              !.current = Nothing, !.previous = Nothing]
           /\ UNCHANGED node
        \/ /\ \E p : parser' = [parser EXCEPT !.state = "TEXT", !.p = p, !.previous = parser.current]
           /\ UNCHANGED node
        \/ \E name :
              /\ node' = [Append(node, [xml_new_node("ATTRIBUTE", name) EXCEPT
                                           !.parent = parser.current,
                                           !.next = node[parser.current].attributes])
                          EXCEPT ![parser.current].attributes = NextAddress]
              /\ DOMAIN parser' = ParserFields /\ parser'.use = parser.use /\ parser'.ret = parser.ret
              /\ parser'.current = parser.current /\ parser'.previous = parser.previous
              /\ parser'.attr = NextAddress /\ parser'.state \in Inside
    <3>1. PICK p : p = parser.p
      OBVIOUS
    <3>2. CASE Look(p) = ">"
      <4>1. /\ parser' = [parser EXCEPT !.state = "TEXT", !.p = parser.p + 1, !.ret = parser.current,
                                        !.current = Nothing, !.previous = Nothing]
            /\ UNCHANGED node
        BY <1>9, <3>1, <3>2 DEF INSIDE_TAG
      <4> QED
        BY <4>1, Zenon
    <3>3. CASE Look(p) # ">" /\ Look(p) = "/" /\ Look(p + 1) = ">"
      <4>1. /\ parser' = [parser EXCEPT !.state = "TEXT", !.p = parser.p + 2, !.previous = parser.current]
            /\ UNCHANGED node
        BY <1>9, <3>1, <3>3 DEF INSIDE_TAG
      <4> QED
        BY <4>1, Zenon
    <3>4. CASE Look(p) # ">" /\ ~(Look(p) = "/" /\ Look(p + 1) = ">")
      <4>1. PICK begin, end, then, name : /\ begin = skip_spaces(parser.p) /\ end = NameEnd(begin)
                                          /\ then = skip_spaces(end) /\ name = Part(begin, end)
        OBVIOUS
      <4>2. /\ node' = [Append(node, [xml_new_node("ATTRIBUTE", name) EXCEPT
                                         !.parent = parser.current,
                                         !.next = node[parser.current].attributes])
                        EXCEPT ![parser.current].attributes = NextAddress]
            /\ parser' = [parser EXCEPT
                      !.attr = NextAddress, !.c = end,
                      !.state = IF Look(then) = "=" THEN "ATTR_VALUE" ELSE "INSIDE_TAG",
                      !.p = IF Look(then) = "=" THEN skip_spaces(then + 1) ELSE then]
        BY <1>9, <3>1, <3>4, <4>1 DEF INSIDE_TAG
      <4>3. /\ DOMAIN parser' = ParserFields /\ parser'.use = parser.use /\ parser'.ret = parser.ret
            /\ parser'.current = parser.current /\ parser'.previous = parser.previous
            /\ parser'.attr = NextAddress /\ parser'.state \in Inside
        BY <2>2, <4>2 DEF ParserFields, Inside
      <4> QED
        BY <4>2, <4>3
    <3> QED
      BY <3>2, <3>3, <3>4
  <2>4. ASSUME NEW p, UNCHANGED node,
               \/ parser' = [parser EXCEPT !.state = "TEXT", !.p = p, !.ret = parser.current,
                                           !.current = Nothing, !.previous = Nothing]
               \/ parser' = [parser EXCEPT !.state = "TEXT", !.p = p, !.previous = parser.current]
        PROVE  DocumentsInv'
    <3>1. /\ DOMAIN parser' = ParserFields /\ parser'.use = parser.use /\ parser'.state = "TEXT"
          /\ \/ parser'.ret = parser.current /\ parser'.previous = 0
             \/ parser'.ret = parser.ret /\ parser'.previous = parser.current
      BY <2>2, <2>4 DEF ParserFields
    <3>2. ParserAt(root)'
      BY <2>2, <2>4, <3>1 DEF ParserAt, OwnNode, In
    <3>3. ParsedAt(root)' /\ Family(node, D, holder, root)'
      BY <2>2, <2>4 DEF ParsedAt
    <3> QED
      BY <3>2, <3>3 DEF DocumentsInv
  <2>5. ASSUME NEW name,
               node' = [Append(node, [xml_new_node("ATTRIBUTE", name) EXCEPT
                                         !.parent = parser.current,
                                         !.next = node[parser.current].attributes])
                        EXCEPT ![parser.current].attributes = NextAddress],
               DOMAIN parser' = ParserFields, parser'.use = parser.use, parser'.ret = parser.ret,
               parser'.current = parser.current, parser'.previous = parser.previous,
               parser'.attr = NextAddress, parser'.state \in Inside
        PROVE  DocumentsInv'
    <3>1. PICK r : r = [xml_new_node("ATTRIBUTE", name) EXCEPT
                           !.parent = parser.current, !.next = node[parser.current].attributes]
      OBVIOUS
    <3>2. DOMAIN r = Fields /\ r.type = "ATTRIBUTE"
      BY <3>1 DEF xml_new_node, Fields
    <3>3. PICK a : a = parser.current
      OBVIOUS
    <3>4. a \in 1..Len(node) /\ Len(node) \in Nat
      BY <2>2, <3>3 DEF OwnNode, Family, Forwards
    <3>5. node' = [Append(node, r) EXCEPT ![a].attributes = NextAddress]
      BY <2>5, <3>1, <3>3
    <3>6. /\ Family(node', D, holder, root) /\ Len(node') = Len(node) + 1
          /\ \A m \in 1..Len(node) : SameLinks(node'[m], node[m])
      BY <3>2, <3>4, <3>5, AddsAttribute
    <3>7. parser'.attr = Len(node) + 1
      BY <2>5 DEF NextAddress
    <3>8. Len(node') \in Nat /\ Len(node') >= Len(node) /\ parser'.attr \in 1..Len(node')
      BY <3>4, <3>6, <3>7
    <3> QED
      BY <1>1, <2>1, <2>5, <3>6, <3>8, ParserRelinks
  <2> QED
    BY <2>3, <2>4, <2>5, Zenon
<1>10. CASE ATTR_VALUE
  <2>1. Turn("ATTR_VALUE")
    BY <1>10 DEF ATTR_VALUE
  <2>2. \/ /\ \E value : node' = [node EXCEPT ![parser.attr].content = value]
           /\ \E p : Goes("INSIDE_TAG", p)
        \/ (\E state \in {"INSIDE_TAG", "UNDEFINED"} : \E p : Goes(state, p)) /\ UNCHANGED node
    <3>1. \/ /\ \E value : node' = [node EXCEPT ![parser.attr].content = value]
             /\ \E p : Goes("INSIDE_TAG", p)
          \/ (\E p : Goes("INSIDE_TAG", p)) /\ UNCHANGED node
          \/ (\E p : Goes("UNDEFINED", p)) /\ UNCHANGED node
      BY <1>10, Zenon DEF ATTR_VALUE
    <3> QED
      BY <3>1
  <2>3. CASE (\E state \in {"INSIDE_TAG", "UNDEFINED"} : \E p : Goes(state, p)) /\ UNCHANGED node
    BY <1>2, <2>1, <2>3 DEF Inside
  <2>4. ASSUME NEW value, NEW p, node' = [node EXCEPT ![parser.attr].content = value],
               Goes("INSIDE_TAG", p)
        PROVE  DocumentsInv'
    <3>1. PICK a : a = parser.attr
      OBVIOUS
    <3>2. a \in 1..Len(node) /\ IsHeap(node) /\ Len(node) \in Nat
      BY <1>1, <2>1, <3>1 DEF ParserAt, Family, Forwards
    <3>3. node' = [node EXCEPT ![a].content = value]
      BY <2>4, <3>1
    <3>4. LinksSame(node', node)
      BY <3>2, <3>3, HeapContent, Zenon
    <3>5. /\ IsHeap(node') /\ Len(node') \in Nat /\ Len(node') >= Len(node)
          /\ \A m \in 1..Len(node) : SameLinks(node'[m], node[m])
          /\ \A m \in (Len(node) + 1)..Len(node') : node'[m].type = "ATTRIBUTE"
      BY <3>2, <3>4 DEF LinksSame
    <3>6. Family(node', D, holder, root)
      BY <3>5, FamilyKept
    <3>7. /\ DOMAIN parser' = ParserFields /\ parser'.use = parser.use /\ parser'.ret = parser.ret
          /\ parser'.current = parser.current /\ parser'.previous = parser.previous
          /\ parser'.state = "INSIDE_TAG"
      BY <1>1, <2>1, <2>4 DEF Goes, ParserFields
    <3> QED
      BY <1>1, <2>1, <3>5, <3>6, <3>7, ParserRelinks DEF Inside
  <2> QED
    BY <2>2, <2>3, <2>4
<1>11. CASE CDATA
  <2>1. Turn("CDATA")
    BY <1>11 DEF CDATA
  <2>2. \/ (\E p : Goes("TEXT", p)) /\ UNCHANGED node
        \/ \E content, p :
              /\ Insert([xml_new_node("TEXT", NULL) EXCEPT !.content = content, !.noescape = TRUE])
              /\ \E e : parser' = [parser EXCEPT !.state = Within(e, "TEXT"), !.p = p,
                                       !.current = NextAddress, !.previous = NextAddress]
    BY <1>11, Zenon DEF CDATA
  <2>3. CASE (\E p : Goes("TEXT", p)) /\ UNCHANGED node
    BY <1>2, <2>1, <2>3 DEF Inside
  <2>4. ASSUME NEW content, NEW p, NEW e,
               Insert([xml_new_node("TEXT", NULL) EXCEPT !.content = content, !.noescape = TRUE]),
               parser' = [parser EXCEPT !.state = Within(e, "TEXT"), !.p = p,
                                        !.current = NextAddress, !.previous = NextAddress]
        PROVE  DocumentsInv'
    <3>1. PICK n : n = [xml_new_node("TEXT", NULL) EXCEPT !.content = content, !.noescape = TRUE]
      OBVIOUS
    <3>2. DOMAIN n = Fields /\ n.type # "ATTRIBUTE" /\ n.next = 0 /\ n.children = 0
      BY <3>1 DEF xml_new_node, Fields
    <3>3. /\ DOMAIN parser' = ParserFields /\ parser'.use = parser.use /\ parser'.ret = parser.ret
          /\ parser'.current = NextAddress /\ parser'.state # "ATTR_VALUE"
          /\ parser'.previous = NextAddress
      BY <1>1, <1>20, <2>1, <2>4 DEF ParserFields
    <3>4. Insert(n)
      BY <2>4, <3>1
    <3> QED
      BY <1>1, <2>1, <3>2, <3>3, <3>4, ParserInserts DEF Inside
  <2> QED
    BY <2>2, <2>3, <2>4
<1>12. CASE TEXT
  <2>1. Turn("TEXT")
    BY <1>12 DEF TEXT
  <2>2. \/ (\E p : Goes("INIT", p)) /\ UNCHANGED node
        \/ \E content, p :
              /\ Insert([xml_new_node("TEXT", NULL) EXCEPT !.content = content])
              /\ parser' = [parser EXCEPT !.state = "INIT", !.p = p,
                                          !.current = NextAddress, !.previous = NextAddress]
    BY <1>12, Zenon DEF TEXT
  <2>3. CASE (\E p : Goes("INIT", p)) /\ UNCHANGED node
    BY <1>2, <2>1, <2>3 DEF Inside
  <2>4. ASSUME NEW content, NEW p,
               Insert([xml_new_node("TEXT", NULL) EXCEPT !.content = content]),
               parser' = [parser EXCEPT !.state = "INIT", !.p = p,
                                        !.current = NextAddress, !.previous = NextAddress]
        PROVE  DocumentsInv'
    <3>1. PICK n : n = [xml_new_node("TEXT", NULL) EXCEPT !.content = content]
      OBVIOUS
    <3>2. DOMAIN n = Fields /\ n.type # "ATTRIBUTE" /\ n.next = 0 /\ n.children = 0
      BY <3>1 DEF xml_new_node, Fields
    <3>3. /\ DOMAIN parser' = ParserFields /\ parser'.use = parser.use /\ parser'.ret = parser.ret
          /\ parser'.current = NextAddress /\ parser'.state # "ATTR_VALUE"
          /\ parser'.previous = NextAddress
      BY <1>1, <2>1, <2>4 DEF ParserFields
    <3>4. Insert(n)
      BY <2>4, <3>1
    <3> QED
      BY <1>1, <2>1, <3>2, <3>3, <3>4, ParserInserts DEF Inside
  <2> QED
    BY <2>2, <2>3, <2>4
<1>13. CASE DoParseEnds
  BY <1>13, ParseEnds
<1> QED
  BY <1>3, <1>4, <1>5, <1>6, <1>7, <1>8, <1>9, <1>10, <1>11, <1>12, <1>13 DEF ParserStep

(* Every step keeps the invariant (nodes.c, output.c, parse.c).            *)
LEMMA NextDocuments == DocumentsInv /\ [DocumentsNext]_documentVars => DocumentsInv'
<1> SUFFICES ASSUME NEW D, NEW holder, NEW root,
                    Family(node, D, holder, root), ParserAt(root), ParsedAt(root),
                    [DocumentsNext]_documentVars
             PROVE  DocumentsInv'
  BY DEF DocumentsInv
<1> USE DEF Nothing
<1>1. CASE \E name \in ElementNames, P \in Elements \cup {TheDocument} : XMLCreateElement(P, name)
  <2>1. Edit
    BY <1>1 DEF XMLCreateElement
  <2> QED
    BY <1>1, <2>1, EditsKeep
<1>2. CASE \E P \in Elements, content \in Contents : XMLAddText(P, content)
  <2>1. Edit
    BY <1>2 DEF XMLAddText
  <2> QED
    BY <1>2, <2>1, EditsKeep
<1>3. CASE \E P \in Elements, name \in AttributeNames, value \in Contents : XMLAddAttribute(P, name, value)
  <2>1. Edit
    BY <1>3 DEF XMLAddAttribute
  <2> QED
    BY <1>3, <2>1, EditsKeep
<1>4. CASE \E P \in Elements, value \in Fragments : XMLAddChildFromString(P, value)
  <2>1. Edit
    BY <1>4 DEF XMLAddChildFromString
  <2> QED
    BY <1>4, <2>1, EditsKeep
<1>5. CASE \E mode \in {"XML", "HTML"} : XMLOutput(mode)
  <2>1. /\ parser = NULL /\ written = NULL /\ UNCHANGED <<node, parser, parsed>>
    BY <1>5 DEF XMLOutput
  <2>2. Family(node, D, holder, root)'
    BY <2>1
  <2>3. ParserAt(root)'
    BY <2>1 DEF ParserAt
  <2>4. ParsedAt(root)'
    BY <2>1 DEF ParsedAt
  <2> QED
    BY <2>2, <2>3, <2>4 DEF DocumentsInv
<1>6. CASE XMLParse
  <2>1. parsed = -1 /\ parsed' = parsed
    BY <1>6 DEF XMLParse
  <2>2. \E t : do_parse(t, Nothing) /\ written' # NULL
    BY <1>6, DocumentsConstants, Zenon DEF XMLParse
  <2> QED
    BY <2>1, <2>2, ParseBegins
<1>7. CASE ParserStep
  BY <1>7, ParserKeeps
<1>8. CASE UNCHANGED documentVars
  <2>1. Family(node, D, holder, root)'
    BY <1>8 DEF documentVars
  <2>2. ParserAt(root)'
    BY <1>8 DEF documentVars, ParserAt
  <2>3. ParsedAt(root)'
    BY <1>8 DEF documentVars, ParsedAt
  <2> QED
    BY <2>1, <2>2, <2>3 DEF DocumentsInv
<1> QED
  BY <1>1, <1>2, <1>3, <1>4, <1>5, <1>6, <1>7, <1>8 DEF DocumentsNext

(* The links of a document agree in both directions, while it is built, parsed and taken *)
(* apart into text, for any names, texts, well-formed or not, and number of calls: a node *)
(* behind another knows it, a first child has nobody before it, and a child knows its     *)
(* parent or keeps the one it had in its string (nodes.c:41-67, 150-161; parse.c:176-187, *)
(* 196-203, 246-287).  Where do_parse reads on behind its text nothing more is claimed.   *)
THEOREM DocumentsLinked == DocumentsSpec => []Linked
<1>1. DocumentsInit => DocumentsInv
  BY InitDocuments
<1>2. DocumentsInv /\ [DocumentsNext]_documentVars => DocumentsInv'
  BY NextDocuments
<1>3. DocumentsInv => Linked
  BY InvLinked
<1> QED
  BY <1>1, <1>2, <1>3, PTL DEF DocumentsSpec
=============================================================================
