----------------------------- MODULE MCTaskPool -----------------------------
(***************************************************************************)
(* Instances of TaskPool for TLC.  c1 and c2 are the root contexts of the  *)
(* calls; the contexts of Inner are interchangeable.                       *)
(***************************************************************************)
EXTENDS TaskPool, TLC

CONSTANTS r1, r2, c1, c2, Inner

MCContexts == {c1, c2} \cup Inner

MCRootOf == [r \in Callers |-> IF r = r1 THEN c1 ELSE c2]

Symmetry == Permutations(Threads) \cup Permutations(Inner)
=============================================================================
