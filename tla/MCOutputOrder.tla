--------------------------- MODULE MCOutputOrder ---------------------------
(***************************************************************************)
(* Instances of OutputOrder for TLC: the pool threads are interchangeable. *)
(***************************************************************************)
EXTENDS OutputOrder

Symmetry == Permutations(Threads)
=============================================================================
