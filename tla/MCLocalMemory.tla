--------------------------- MODULE MCLocalMemory ---------------------------
(* Instances of LocalMemory for TLC.                                       *)
EXTENDS LocalMemory, TLC

Symmetric == Permutations(Sessions \ Askers) \cup Permutations(Texts)
=============================================================================
