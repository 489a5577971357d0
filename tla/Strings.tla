------------------------------- MODULE Strings -------------------------------
(***************************************************************************)
(* strings.c: a string that grows.  Its buffer has one byte more than      *)
(* `allocated` while it is the first one, and exactly `allocated` bytes    *)
(* once it has grown; sizes are unsigned, so that allocated - 2 can wrap.  *)
(***************************************************************************)
EXTENDS Integers

CONSTANTS FirstSizes, \* what xmls_new is called with, but for make_unescaped_string
          Lengths,    \* of texts
          Modulus     \* 2^64, the bound of size_t

ASSUME StringsConstants ==
    /\ Lengths \subseteq Nat
    /\ FirstSizes \subseteq Nat /\ \A n \in FirstSizes : n >= 2
    /\ Modulus \in Nat /\ Modulus > 16

VARIABLE string \* [size, allocated, len]; and, model only, top: the last byte that
                \* was written, kept: how many of the bytes that were added are still
                \* there, left: how many its maker has yet to add, or Unplanned

stringVars == <<string>>

Unplanned == -1

xmls_new(bsize, left) ==
    [size |-> bsize + 1, allocated |-> bsize, len |-> 0, top |-> 0, kept |-> 0, left |-> left]

\* the whole text is there from the start, and nobody adds to it
xmls_new_string(length) ==
    [size |-> length + 1, allocated |-> length, len |-> length, top |-> length, kept |-> length,
     left |-> 0]

\* a new buffer gets as many bytes of the old one as were allocated
Grown(s, allocated) ==
    [size |-> allocated, allocated |-> allocated, len |-> s.len, top |-> s.top, left |-> s.left,
     kept |-> IF s.kept <= s.allocated THEN s.kept ELSE s.allocated]

\* n bytes and the null behind them are written at the end
Written(s, n) ==
    [size |-> s.size, allocated |-> s.allocated, len |-> s.len + n, top |-> s.len + n,
     kept |-> IF s.kept = s.len THEN s.len + n ELSE s.kept,
     left |-> IF s.left = Unplanned THEN Unplanned ELSE s.left - n]

Full(s) == s.len >= (s.allocated - 2) % Modulus

xmls_add_char(s) == Written(IF Full(s) THEN Grown(s, s.allocated * 2 + 1) ELSE s, 1)

\* the bytes of one character
xmls_add_utf(s, bytes) ==
    CASE bytes = 1 -> xmls_add_char(s)
      [] bytes = 2 -> xmls_add_char(xmls_add_char(s))
      [] bytes = 3 -> xmls_add_char(xmls_add_char(xmls_add_char(s)))
      [] bytes = 4 -> xmls_add_char(xmls_add_char(xmls_add_char(xmls_add_char(s))))

xmls_add_str_small(s, n) ==
    Written(IF s.len + n + 1 >= s.allocated THEN Grown(s, s.allocated * 2) ELSE s, n)

\* xmls_append as well; the null counts
xmls_add_str(s, n) ==
    Written(IF s.len + n + 1 >= s.allocated THEN Grown(s, s.allocated * 2 + n + 1) ELSE s, n)

-----------------------------------------------------------------------------
StringsInit == \/ \E n \in FirstSizes : string = xmls_new(n, Unplanned)
               \/ \E n \in Lengths : string = xmls_new_string(n)

\* make_unescaped_string: the result is no longer than the text
Unescape(n) == string' = xmls_new(n, n)

\* memory ends before sizes do
Room(n) == 32 * (string.allocated + n + 16) < Modulus

AddUtf(bytes) == /\ Room(0)
                 /\ string.left = Unplanned \/ string.left >= bytes
                 /\ string' = xmls_add_utf(string, bytes)

AddStr(n) == /\ Room(n)
             /\ string.left = Unplanned
             /\ string' = xmls_add_str(string, n)

StringsNext == \/ \E n \in Lengths : Unescape(n) \/ AddStr(n)
               \/ \E bytes \in 1..4 : AddUtf(bytes)

StringsSpec == StringsInit /\ [][StringsNext]_stringVars

-----------------------------------------------------------------------------
(* No byte is written behind the end of the buffer, the closing null       *)
(* included: also for texts of no or one byte, for which the test for a    *)
(* full buffer wraps around and never holds (strings.c:89-97, 117-128,     *)
(* 157-176).                                                               *)
StaysInside == string.top < string.size

(* Growing loses nothing of what the string holds (strings.c:121-126,      *)
(* 163-170).                                                               *)
TextKept == string.kept = string.len

(* A text is held as it was given: inside its buffer and complete, through *)
(* any sequence of calls of strings.c.                                     *)
TextIsSafe == StaysInside /\ TextKept
=============================================================================
