------------------------------ MODULE MCCowMemory ------------------------------
(* CowMemory for TLC: the processes other than the first are alike, and so are *)
(* the values of a page other than that of a cleared one.                      *)
EXTENDS CowMemory, TLC

Alike == Permutations(Procs \ {Root})
=============================================================================
