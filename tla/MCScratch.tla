------------------------------- MODULE MCScratch ------------------------------
(***************************************************************************)
(* Filters of one device; which is which makes no difference.              *)
(***************************************************************************)
EXTENDS ScratchMemory, TLC

CONSTANTS f1, f2, f3

Symmetry == Permutations(Filters)
===============================================================================
