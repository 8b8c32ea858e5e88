--------------------------- MODULE MCPageEdits ---------------------------
(* Instances of PageEdits for TLC.                                         *)
EXTENDS PageEdits, TLC

CONSTANTS w1, w2, s1, s2, i1

Symmetry == Permutations(Worker) \cup Permutations(Source)
=============================================================================
